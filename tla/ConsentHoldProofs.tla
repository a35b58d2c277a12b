------------------------- MODULE ConsentHoldProofs --------------------------
(***************************************************************************)
(* stop(), the process and the workspaces keep the invariant of ConsentHold*)
(* and with the lemmas of ConsentHoldSteps so does every step.  The        *)
(* theorems follow, and last the refinement: the coordinator keeps the     *)
(* promise of ConsentPromise, for every step of ConsentHold moves each     *)
(* request as the promise allows, or not at all.                           *)
(***************************************************************************)
EXTENDS ConsentHoldSteps

\* stop() taking its snapshot.
LEMMA StopBeginsKeeps ==
  ASSUME IInv, StopBegins
  PROVE  IInv'
<1>1. /\ stopAt = "no" /\ stopReq = NoRequest
      /\ stopAt' = "scan"
      /\ stopTodo' = holds
      /\ UNCHANGED <<up, gone, relay, answer, row, holds, fut, timer, told,
                     step, req, say, stopReq, abandoned>>
  BY Zenon DEF StopBegins, IInv, StopIsAlone, hold, call
<1>2. TypeOK'
  BY Zenon, <1>1 DEF IInv, TypeOK, RelayState, Verdict, Label, TimerState, CallState,
     StopState
<1>3. HeldIsUntouched'
  BY <1>1 DEF IInv, TypeOK, HeldIsUntouched, StopOwns
<1>4. CallIsAlone'
  <2> SUFFICES ASSUME NEW e \in Deciders PROVE CallAlone(e)'
    BY Zenon DEF CallIsAlone
  <2>1. CallAlone(e)
    BY Zenon DEF IInv, CallIsAlone
  <2>2. Spares(e)
    BY Zenon, <1>1, <2>1 DEF IInv, TypeOK, CallAlone, Spares, StopOwns
  <2> QED BY Zenon, <2>1, <2>2, SparedCall
<1>5. StopIsAlone'
  BY Zenon, <1>1 DEF IInv, TypeOK, StopIsAlone
<1>6. PoppedHasOwner'
  BY Zenon, <1>1 DEF IInv, TypeOK, PoppedHasOwner, TimerOwns, StopOwns, DeciderOwns
<1>7. PendingIsAccountedFor'
  BY Zenon, <1>1 DEF IInv, TypeOK, PendingIsAccountedFor, TimerOwns, StopOwns
<1>8. /\ FreshIsUntouched'
      /\ TimerIsAlone'
      /\ RowsAreUnique'
      /\ DownIsEmpty'
      /\ AllowIsRecorded'
      /\ ToldOnce'
  BY <1>1 DEF IInv, FreshIsUntouched, TimerIsAlone, TimerOwns, RowsAreUnique,
     SameDest, DownIsEmpty, InFlight, AllowIsRecorded, ToldOnce
<1> QED BY Zenon, <1>2, <1>3, <1>4, <1>5, <1>6, <1>7, <1>8 DEF IInv

\* stop() cancelling the timer of the next hold.
LEMMA StopNextKeeps ==
  ASSUME IInv, NEW r \in Relays, StopNext(r)
  PROVE  IInv'
<1>1. CASE r \in holds
  <2>1. PICK t \in {"cancelling", "done"} : timer' = [timer EXCEPT ![r] = t]
    <3>1. timer[r] \in {"sleeping", "cancelling", "done"}
      BY Zenon, <1>1 DEF IInv, HeldIsUntouched
    <3> QED BY Zenon, <1>1, <3>1 DEF StopNext, CancelTimer
  <2>2. /\ fut[r] = "pending" /\ relay[r] \in {"wait", "done", "cancelled"}
        /\ timer[r] \in {"sleeping", "cancelling", "done"}
        /\ stopAt = "scan" /\ up
        /\ \A e \in Deciders : req[e] # r
        /\ timer' = [timer EXCEPT ![r] = t]
        /\ stopAt' = "reap"
        /\ stopTodo' = stopTodo \ {r}
        /\ stopReq' = r
        /\ UNCHANGED <<up, gone, relay, answer, row, holds, fut, told, step,
                       req, say, abandoned>>
    <3>1. timer[r] \in {"sleeping", "cancelling", "done"}
      BY Zenon, <1>1 DEF IInv, HeldIsUntouched
    <3>2. relay[r] \in {"wait", "done", "cancelled"}
      BY Zenon, <1>1, <3>1 DEF IInv, FreshIsUntouched, TypeOK, RelayState
    <3> QED BY Zenon, <1>1, <2>1, <3>1, <3>2 DEF StopNext, IInv, HeldIsUntouched, call
  <2>3. TypeOK'
    BY SMTT(30), <2>2, <2>1 DEF IInv, TypeOK, RelayState, Verdict, Label, TimerState,
       CallState, StopState
  <2>4. FreshIsUntouched'
    BY ZenonT(30), <2>2, <2>1 DEF IInv, TypeOK, FreshIsUntouched
  <2>5. HeldIsUntouched'
    BY SMTT(30), <2>2, <2>1 DEF IInv, TypeOK, HeldIsUntouched, StopOwns
  <2>6. TimerIsAlone'
    BY Zenon, <2>2, <2>1 DEF IInv, TypeOK, TimerIsAlone, TimerOwns
  <2>7. CallIsAlone'
    <3> SUFFICES ASSUME NEW e \in Deciders PROVE CallAlone(e)'
      BY Zenon DEF CallIsAlone
    <3>1. CallAlone(e)
      BY Zenon DEF IInv, CallIsAlone
    <3>2. Spares(e)
      BY Zenon, <2>2, <2>1, <3>1 DEF IInv, TypeOK, CallAlone, Spares, StopOwns
    <3> QED BY Zenon, <3>1, <3>2, SparedCall
  <2>8. StopIsAlone'
    BY Zenon, <2>2, <2>1 DEF IInv, TypeOK, StopIsAlone
  <2>9. PoppedHasOwner'
    <3> SUFFICES ASSUME NEW s \in Relays, fut'[s] = "pending", s \notin holds'
                 PROVE  \/ TimerOwns(s)' \/ StopOwns(s)'
                        \/ \E e \in Deciders : DeciderOwns(e, s)'
      BY Zenon DEF PoppedHasOwner
    <3>1. fut[s] = "pending" /\ s \notin holds
      BY Zenon, <2>2, <2>1 DEF IInv, TypeOK
    <3>2. \A e \in Deciders : DeciderOwns(e, s) => DeciderOwns(e, s)'
      BY Zenon, <2>2, <2>1, <3>1 DEF IInv, TypeOK, DeciderOwns, CallIsAlone,
         CallAlone, Verdict
    <3>3. TimerOwns(s) => TimerOwns(s)'
      BY Zenon, <2>2, <2>1, <3>1 DEF IInv, TypeOK, TimerOwns
    <3>4. StopOwns(s) => StopOwns(s)'
      BY Zenon, <2>2, <2>1, <3>1 DEF StopOwns
    <3> QED BY Zenon, <3>1, <3>2, <3>3, <3>4 DEF IInv, PoppedHasOwner
  <2>10. DownIsEmpty'
    BY Zenon, <2>2, <2>1 DEF IInv, TypeOK, DownIsEmpty, InFlight
  <2>11. PendingIsAccountedFor'
    <3>1. \A s \in Relays : TimerOwns(s) => TimerOwns(s)'
      BY Zenon, <2>2, <2>1 DEF IInv, TypeOK, TimerOwns
    <3>2. \A s \in Relays : StopOwns(s) => StopOwns(s)'
      BY Zenon, <2>2, <2>1 DEF StopOwns
    <3> QED BY Zenon, <2>2, <2>1, <3>1, <3>2 DEF IInv, PendingIsAccountedFor
  <2>12. /\ RowsAreUnique'
         /\ AllowIsRecorded'
         /\ ToldOnce'
    BY Zenon, <2>2, <2>1 DEF IInv, RowsAreUnique, SameDest, AllowIsRecorded, ToldOnce
  <2> QED
    BY Zenon, <2>3, <2>4, <2>5, <2>6, <2>7, <2>8, <2>9, <2>10, <2>11, <2>12 DEF IInv
<1>2. CASE r \notin holds
  <2>1. /\ stopTodo' = stopTodo \ {r}
        /\ UNCHANGED <<up, gone, relay, answer, row, holds, fut, timer, told,
                       step, req, say, stopAt, stopReq, abandoned>>
    BY Zenon, <1>2 DEF StopNext, call
  <2>2. TypeOK'
    BY Zenon, <2>1 DEF IInv, TypeOK, RelayState, Verdict, Label, TimerState,
       CallState, StopState
  <2>3. /\ FreshIsUntouched'
        /\ HeldIsUntouched'
        /\ TimerIsAlone'
        /\ CallIsAlone'
        /\ StopIsAlone'
        /\ PoppedHasOwner'
        /\ RowsAreUnique'
        /\ DownIsEmpty'
        /\ AllowIsRecorded'
        /\ ToldOnce'
        /\ PendingIsAccountedFor'
    BY SMTT(30), <2>1 DEF IInv, FreshIsUntouched, HeldIsUntouched, StopOwns,
       TimerIsAlone, TimerOwns, CallIsAlone, CallAlone, Verdict, Recorded,
       StopIsAlone, PoppedHasOwner, DeciderOwns, RowsAreUnique, SameDest,
       DownIsEmpty, InFlight, AllowIsRecorded, ToldOnce, PendingIsAccountedFor
  <2> QED BY Zenon, <2>2, <2>3 DEF IInv
<1> QED BY Zenon, <1>1, <1>2

\* stop() popping the hold whose timer it has reaped.
LEMMA StopReapedKeeps ==
  ASSUME IInv, StopReaped
  PROVE  IInv'
<1>1. CASE stopReq \in holds
  <2>1. /\ stopAt = "reap" /\ timer[stopReq] = "done" /\ stopReq \in holds
        /\ stopReq \in Relays /\ fut[stopReq] = "pending" /\ up
        /\ \A e \in Deciders : req[e] # stopReq
        /\ holds' = holds \ {stopReq}
        /\ stopAt' = "expire1"
        /\ UNCHANGED <<up, gone, relay, answer, row, fut, timer, told, step,
                       req, say, stopTodo, stopReq, abandoned>>
    BY Zenon, <1>1 DEF StopReaped, IInv, StopIsAlone, HeldIsUntouched, call
  <2>2. TypeOK'
    BY Zenon, <2>1 DEF IInv, TypeOK, RelayState, Verdict, Label, TimerState,
       CallState, StopState
  <2>3. FreshIsUntouched'
    BY Zenon, <2>1 DEF IInv, TypeOK, FreshIsUntouched
  <2>4. HeldIsUntouched'
    BY ZenonT(30), <2>1 DEF IInv, TypeOK, HeldIsUntouched, StopOwns
  <2>5. TimerIsAlone'
    BY Zenon, <2>1 DEF IInv, TypeOK, TimerIsAlone, TimerOwns
  <2>6. CallIsAlone'
    <3> SUFFICES ASSUME NEW e \in Deciders PROVE CallAlone(e)'
      BY Zenon DEF CallIsAlone
    <3>1. CallAlone(e)
      BY Zenon DEF IInv, CallIsAlone
    <3>2. Spares(e)
      BY Zenon, <2>1, <3>1 DEF IInv, TypeOK, CallAlone, Spares, StopOwns
    <3> QED BY Zenon, <3>1, <3>2, SparedCall
  <2>7. StopIsAlone'
    BY Zenon, <2>1 DEF IInv, TypeOK, StopIsAlone
  <2>8. PoppedHasOwner'
    BY Zenon, <2>1 DEF IInv, TypeOK, PoppedHasOwner, TimerOwns, StopOwns, DeciderOwns
  <2>9. DownIsEmpty'
    BY Zenon, <2>1 DEF IInv, TypeOK, DownIsEmpty, InFlight
  <2>10. PendingIsAccountedFor'
    BY Zenon, <2>1 DEF IInv, TypeOK, PendingIsAccountedFor, TimerOwns, StopOwns
  <2>11. /\ RowsAreUnique'
         /\ AllowIsRecorded'
         /\ ToldOnce'
    BY Zenon, <2>1 DEF IInv, RowsAreUnique, SameDest, AllowIsRecorded, ToldOnce
  <2> QED
    BY Zenon, <2>2, <2>3, <2>4, <2>5, <2>6, <2>7, <2>8, <2>9, <2>10, <2>11 DEF IInv
<1>2. CASE stopReq \notin holds
  <2>1. /\ stopAt = "reap" /\ timer[stopReq] = "done" /\ stopReq \notin holds
        /\ stopAt' = "scan"
        /\ stopReq' = NoRequest
        /\ UNCHANGED <<up, gone, relay, answer, row, holds, fut, timer, told,
                       step, req, say, stopTodo, abandoned>>
    BY Zenon, <1>2 DEF StopReaped, StopVisited, call
  <2>2. TypeOK'
    BY Zenon, <2>1, NoRequestIsNone DEF IInv, TypeOK, RelayState, Verdict, Label,
       TimerState, CallState, StopState
  <2>3. FreshIsUntouched'
    BY Zenon, <2>1, NoRequestIsNone DEF IInv, TypeOK, FreshIsUntouched
  <2>4. HeldIsUntouched'
    BY SMTT(30), <2>1, NoRequestIsNone DEF IInv, TypeOK, HeldIsUntouched, StopOwns
  <2>5. TimerIsAlone'
    BY Zenon, <2>1, NoRequestIsNone DEF IInv, TypeOK, TimerIsAlone, TimerOwns
  <2>6. CallIsAlone'
    <3> SUFFICES ASSUME NEW e \in Deciders PROVE CallAlone(e)'
      BY Zenon DEF CallIsAlone
    <3>1. CallAlone(e)
      BY Zenon DEF IInv, CallIsAlone
    <3>2. Spares(e)
      BY Zenon, <2>1, NoRequestIsNone, <3>1 DEF IInv, TypeOK, CallAlone, Spares,
         StopOwns
    <3> QED BY Zenon, <3>1, <3>2, SparedCall
  <2>7. StopIsAlone'
    BY Zenon, <2>1, NoRequestIsNone DEF IInv, TypeOK, StopIsAlone
  <2>8. PoppedHasOwner'
    BY Zenon, <2>1, NoRequestIsNone DEF IInv, TypeOK, PoppedHasOwner, TimerOwns,
       StopOwns, DeciderOwns
  <2>9. PendingIsAccountedFor'
    BY Zenon, <2>1, NoRequestIsNone DEF IInv, TypeOK, PendingIsAccountedFor,
       TimerOwns, StopOwns
  <2>10. /\ RowsAreUnique'
         /\ DownIsEmpty'
         /\ AllowIsRecorded'
         /\ ToldOnce'
    BY Zenon, <2>1, NoRequestIsNone DEF IInv, RowsAreUnique, SameDest, DownIsEmpty,
       InFlight, AllowIsRecorded, ToldOnce
  <2> QED BY Zenon, <2>2, <2>3, <2>4, <2>5, <2>6, <2>7, <2>8, <2>9,
     <2>10 DEF IInv
<1> QED BY Zenon, <1>1, <1>2

\* _fail_close in stop(), with the row expired.
LEMMA StopExpiresKeeps ==
  ASSUME IInv, StopExpires
  PROVE  IInv'
<1>1. /\ stopReq \in Relays /\ fut[stopReq] = "pending"
      /\ told' \in [Relays -> Seq(Label)] /\ ToldOnce'
      /\ stopReq \notin holds /\ timer[stopReq] = "done" /\ up
      /\ \A e \in Deciders : step[e] # "idle" => req[e] # stopReq
      /\ row' = [row EXCEPT ![stopReq] =
                  IF row[stopReq] = "pending" THEN "expired" ELSE row[stopReq]]
      /\ fut' = [fut EXCEPT ![stopReq] = "deny"]
      /\ stopAt' = "scan"
      /\ stopReq' = NoRequest
      /\ UNCHANGED <<up, gone, relay, answer, holds, timer, step, req, say,
                     stopTodo, abandoned>>
  <2>1. /\ stopReq \in Relays /\ stopReq \notin holds
        /\ timer[stopReq] = "done" /\ fut[stopReq] = "pending"
    BY Zenon DEF StopExpires, IInv, StopIsAlone
  <2>2. \A e \in Deciders : step[e] # "idle" => req[e] # stopReq
    BY Zenon DEF StopExpires, IInv, CallIsAlone, CallAlone, StopOwns
  <2> QED
    BY Zenon, <2>1, <2>2, Settled DEF StopExpires, StopVisited, ExpirePending, IInv,
       Verdict, Label, call
<1>2. TypeOK'
  BY Zenon, <1>1, NoRequestIsNone DEF IInv, TypeOK, RelayState, Verdict, Label,
     TimerState, CallState, StopState
<1>3. FreshIsUntouched'
  BY Zenon, <1>1, NoRequestIsNone DEF IInv, TypeOK, FreshIsUntouched
<1>4. HeldIsUntouched'
  BY SMTT(30), <1>1, NoRequestIsNone DEF IInv, TypeOK, HeldIsUntouched, StopOwns
<1>5. TimerIsAlone'
  BY Zenon, <1>1, NoRequestIsNone DEF IInv, TypeOK, TimerIsAlone, TimerOwns
<1>6. CallIsAlone'
  <2> SUFFICES ASSUME NEW e \in Deciders PROVE CallAlone(e)'
    BY Zenon DEF CallIsAlone
  <2>1. CallAlone(e)
    BY Zenon DEF IInv, CallIsAlone
  <2>2. Spares(e)
    BY Zenon, <1>1, NoRequestIsNone, <2>1 DEF IInv, TypeOK, CallAlone, Spares, StopOwns
  <2> QED BY Zenon, <2>1, <2>2, SparedCall
<1>7. StopIsAlone'
  BY Zenon, <1>1, NoRequestIsNone DEF IInv, TypeOK, StopIsAlone
<1>8. PoppedHasOwner'
  <2> SUFFICES ASSUME NEW s \in Relays, fut'[s] = "pending", s \notin holds'
               PROVE  \/ TimerOwns(s)' \/ StopOwns(s)'
                      \/ \E e \in Deciders : DeciderOwns(e, s)'
    BY Zenon DEF PoppedHasOwner
  <2>1. fut[s] = "pending" /\ s \notin holds /\ s # stopReq
    BY Zenon, <1>1, NoRequestIsNone DEF IInv, TypeOK
  <2>2. \A e \in Deciders : DeciderOwns(e, s) => DeciderOwns(e, s)'
    BY Zenon, <1>1, NoRequestIsNone, <2>1
       DEF IInv, TypeOK, DeciderOwns, CallIsAlone,
       CallAlone, Verdict
  <2>3. TimerOwns(s) => TimerOwns(s)'
    BY Zenon, <1>1, NoRequestIsNone, <2>1 DEF IInv, TypeOK, TimerOwns
  <2>4. StopOwns(s) => StopOwns(s)'
    BY Zenon, <1>1, NoRequestIsNone, <2>1 DEF StopOwns
  <2> QED BY Zenon, <2>1, <2>2, <2>3, <2>4 DEF IInv, PoppedHasOwner
<1>9. RowsAreUnique'
  <2>1. \A s \in Relays : row'[s] \in {row[s], "allowed", "denied", "expired"}
    BY Zenon, <1>1, NoRequestIsNone DEF IInv, TypeOK
  <2> QED BY Zenon, <1>1, NoRequestIsNone, <2>1, RowsShrink DEF IInv
<1>10. AllowIsRecorded'
  BY Zenon, <1>1, NoRequestIsNone DEF IInv, TypeOK, AllowIsRecorded
<1>11. ToldOnce'
  BY Zenon, <1>1, NoRequestIsNone
<1>12. PendingIsAccountedFor'
  BY Zenon, <1>1, NoRequestIsNone
     DEF IInv, TypeOK, PendingIsAccountedFor, TimerOwns,
     StopOwns
<1>13. DownIsEmpty'
  BY Zenon, <1>1, NoRequestIsNone DEF IInv, DownIsEmpty, InFlight
<1> QED BY Zenon, <1>2, <1>3, <1>4, <1>5, <1>6, <1>7, <1>8, <1>9, <1>10, <1>11,
   <1>12, <1>13 DEF IInv

\* _expire_stranded raising in stop(), once or twice.
LEMMA StopExpireFailsKeeps ==
  ASSUME IInv, StopExpireFails
  PROVE  IInv'
<1>1. CASE stopAt = "expire1"
  <2>1. /\ stopAt = "expire1" /\ stopReq \notin holds
        /\ stopAt' = "expire2"
        /\ UNCHANGED <<up, gone, relay, answer, row, holds, fut, timer, told,
                       step, req, say, stopTodo, stopReq, abandoned>>
    BY Zenon, <1>1 DEF StopExpireFails, IInv, StopIsAlone, call
  <2>2. TypeOK'
    BY Zenon, <2>1 DEF IInv, TypeOK, RelayState, Verdict, Label, TimerState,
       CallState, StopState
  <2>3. HeldIsUntouched'
    BY Zenon, <2>1 DEF IInv, TypeOK, HeldIsUntouched, StopOwns
  <2>4. CallIsAlone'
    <3> SUFFICES ASSUME NEW e \in Deciders PROVE CallAlone(e)'
      BY Zenon DEF CallIsAlone
    <3>1. CallAlone(e)
      BY Zenon DEF IInv, CallIsAlone
    <3>2. Spares(e)
      BY Zenon, <2>1, <3>1 DEF IInv, TypeOK, CallAlone, Spares, StopOwns
    <3> QED BY Zenon, <3>1, <3>2, SparedCall
  <2>5. StopIsAlone'
    BY Zenon, <2>1 DEF IInv, TypeOK, StopIsAlone
  <2>6. PoppedHasOwner'
    BY Zenon, <2>1 DEF IInv, TypeOK, PoppedHasOwner, TimerOwns, StopOwns, DeciderOwns
  <2>7. PendingIsAccountedFor'
    BY Zenon, <2>1 DEF IInv, TypeOK, PendingIsAccountedFor, TimerOwns, StopOwns
  <2>8. /\ FreshIsUntouched'
        /\ TimerIsAlone'
        /\ RowsAreUnique'
        /\ DownIsEmpty'
        /\ AllowIsRecorded'
        /\ ToldOnce'
    BY <2>1 DEF IInv, FreshIsUntouched, TimerIsAlone, TimerOwns,
       RowsAreUnique, SameDest, DownIsEmpty, InFlight, AllowIsRecorded,
       ToldOnce
  <2> QED BY Zenon, <2>2, <2>3, <2>4, <2>5, <2>6, <2>7, <2>8 DEF IInv
<1>2. CASE stopAt = "expire2"
  <2>1. /\ stopReq \in Relays /\ fut[stopReq] = "pending"
        /\ told' \in [Relays -> Seq(Label)] /\ ToldOnce'
        /\ stopReq \notin holds /\ timer[stopReq] = "done" /\ up
        /\ \A e \in Deciders : step[e] # "idle" => req[e] # stopReq
        /\ fut' = [fut EXCEPT ![stopReq] = "deny"]
        /\ stopAt' = "scan"
        /\ stopReq' = NoRequest
        /\ abandoned' = IF row[stopReq] = "pending" THEN abandoned \cup {stopReq}
                        ELSE abandoned
        /\ UNCHANGED <<up, gone, relay, answer, row, holds, timer, step, req,
                       say, stopTodo>>
    <3>1. /\ stopReq \in Relays /\ stopReq \notin holds
          /\ timer[stopReq] = "done" /\ fut[stopReq] = "pending"
      BY Zenon, <1>2 DEF StopExpireFails, IInv, StopIsAlone
    <3>2. \A e \in Deciders : step[e] # "idle" => req[e] # stopReq
      BY Zenon, <1>2 DEF StopExpireFails, IInv, CallIsAlone, CallAlone, StopOwns
    <3> QED
      BY Zenon, <1>2, <3>1, <3>2, Settled
         DEF StopExpireFails, StopVisited, GiveUp,
         IInv,
         Verdict, Label, call
  <2>2. TypeOK'
    BY Zenon, <2>1, NoRequestIsNone DEF IInv, TypeOK, RelayState, Verdict, Label,
       TimerState, CallState, StopState
  <2>3. FreshIsUntouched'
    BY Zenon, <2>1, NoRequestIsNone DEF IInv, TypeOK, FreshIsUntouched
  <2>4. HeldIsUntouched'
    BY SMTT(30), <2>1, NoRequestIsNone DEF IInv, TypeOK, HeldIsUntouched, StopOwns
  <2>5. TimerIsAlone'
    BY Zenon, <2>1, NoRequestIsNone DEF IInv, TypeOK, TimerIsAlone, TimerOwns
  <2>6. CallIsAlone'
    <3> SUFFICES ASSUME NEW e \in Deciders PROVE CallAlone(e)'
      BY Zenon DEF CallIsAlone
    <3>1. CallAlone(e)
      BY Zenon DEF IInv, CallIsAlone
    <3>2. Spares(e)
      BY Zenon, <2>1, NoRequestIsNone, <3>1 DEF IInv, TypeOK, CallAlone, Spares,
         StopOwns
    <3> QED BY Zenon, <3>1, <3>2, SparedCall
  <2>7. StopIsAlone'
    BY Zenon, <2>1, NoRequestIsNone DEF IInv, TypeOK, StopIsAlone
  <2>8. PoppedHasOwner'
    <3> SUFFICES ASSUME NEW s \in Relays, fut'[s] = "pending", s \notin holds'
                 PROVE  \/ TimerOwns(s)' \/ StopOwns(s)'
                        \/ \E e \in Deciders : DeciderOwns(e, s)'
      BY Zenon DEF PoppedHasOwner
    <3>1. fut[s] = "pending" /\ s \notin holds /\ s # stopReq
      BY Zenon, <2>1, NoRequestIsNone DEF IInv, TypeOK
    <3>2. \A e \in Deciders : DeciderOwns(e, s) => DeciderOwns(e, s)'
      BY Zenon, <2>1, NoRequestIsNone, <3>1 DEF IInv, TypeOK, DeciderOwns,
         CallIsAlone, CallAlone, Verdict
    <3>3. TimerOwns(s) => TimerOwns(s)'
      BY Zenon, <2>1, NoRequestIsNone, <3>1 DEF IInv, TypeOK, TimerOwns
    <3>4. StopOwns(s) => StopOwns(s)'
      BY Zenon, <2>1, NoRequestIsNone, <3>1 DEF StopOwns
    <3> QED BY Zenon, <3>1, <3>2, <3>3, <3>4 DEF IInv, PoppedHasOwner
  <2>9. AllowIsRecorded'
    BY Zenon, <2>1, NoRequestIsNone DEF IInv, TypeOK, AllowIsRecorded
  <2>10. ToldOnce'
    BY Zenon, <2>1, NoRequestIsNone
  <2>11. PendingIsAccountedFor'
    BY Zenon, <2>1, NoRequestIsNone DEF IInv, TypeOK, PendingIsAccountedFor,
       TimerOwns, StopOwns
  <2>12. /\ RowsAreUnique'
         /\ DownIsEmpty'
    BY Zenon, <2>1, NoRequestIsNone
       DEF IInv, RowsAreUnique, SameDest, DownIsEmpty,
       InFlight
  <2> QED BY Zenon, <2>2, <2>3, <2>4, <2>5, <2>6, <2>7, <2>8, <2>9, <2>10, <2>11,
     <2>12 DEF IInv
<1> QED BY Zenon, <1>1, <1>2 DEF StopExpireFails

\* stop() returning.
LEMMA StopEndsKeeps ==
  ASSUME IInv, StopEnds
  PROVE  IInv'
<1>1. /\ stopAt = "scan" /\ stopReq = NoRequest
      /\ stopAt' = "done"
      /\ UNCHANGED <<up, gone, relay, answer, row, holds, fut, timer, told,
                     step, req, say, stopTodo, stopReq, abandoned>>
  BY Zenon DEF StopEnds, IInv, StopIsAlone, hold, call
<1>2. TypeOK'
  BY Zenon, <1>1 DEF IInv, TypeOK, RelayState, Verdict, Label, TimerState, CallState,
     StopState
<1>3. HeldIsUntouched'
  BY SMTT(30), <1>1 DEF IInv, TypeOK, HeldIsUntouched, StopOwns
<1>4. CallIsAlone'
  <2> SUFFICES ASSUME NEW e \in Deciders PROVE CallAlone(e)'
    BY Zenon DEF CallIsAlone
  <2>1. CallAlone(e)
    BY Zenon DEF IInv, CallIsAlone
  <2>2. Spares(e)
    BY Zenon, <1>1, <2>1 DEF IInv, TypeOK, CallAlone, Spares, StopOwns
  <2> QED BY Zenon, <2>1, <2>2, SparedCall
<1>5. StopIsAlone'
  BY Zenon, <1>1 DEF IInv, TypeOK, StopIsAlone
<1>6. PoppedHasOwner'
  BY Zenon, <1>1 DEF IInv, TypeOK, PoppedHasOwner, TimerOwns, StopOwns, DeciderOwns
<1>7. PendingIsAccountedFor'
  BY Zenon, <1>1 DEF IInv, TypeOK, PendingIsAccountedFor, TimerOwns, StopOwns
<1>8. /\ FreshIsUntouched'
      /\ TimerIsAlone'
      /\ RowsAreUnique'
      /\ DownIsEmpty'
      /\ AllowIsRecorded'
      /\ ToldOnce'
  BY <1>1 DEF IInv, FreshIsUntouched, TimerIsAlone, TimerOwns, RowsAreUnique,
     SameDest, DownIsEmpty, InFlight, AllowIsRecorded, ToldOnce
<1> QED BY Zenon, <1>2, <1>3, <1>4, <1>5, <1>6, <1>7, <1>8 DEF IInv

\* The process ending: nothing of the coordinator is left.
LEMMA ExitKeeps ==
  ASSUME IInv, Exit
  PROVE  IInv'
<1>1. /\ relay' \in [Relays -> RelayState]
      /\ \A r \in Relays : relay'[r] =
           IF relay[r] \in InFlight THEN "cancelled" ELSE relay[r]
      /\ fut' \in [Relays -> Verdict \cup {"none", "pending", "lost"}]
      /\ \A r \in Relays : fut'[r] = IF fut[r] = "pending" THEN "lost"
                                     ELSE fut[r]
      /\ up' = FALSE
      /\ holds' = {}
      /\ timer' = [r \in Relays |-> "none"]
      /\ step' = [d \in Deciders |-> "idle"]
      /\ req' = [d \in Deciders |-> NoRequest]
      /\ say' = [d \in Deciders |-> "deny"]
      /\ stopAt' = "no"
      /\ stopTodo' = {}
      /\ stopReq' = NoRequest
      /\ UNCHANGED <<gone, answer, row, told, abandoned>>
  <2>1. /\ relay \in [Relays -> RelayState]
        /\ fut \in [Relays -> Verdict \cup {"none", "pending", "lost"}]
    BY Zenon DEF IInv, TypeOK
  <2> QED BY Zenon, <2>1 DEF Exit, RelayState
<1>2. TypeOK'
  BY Zenon, <1>1, NoRequestIsNone
     DEF IInv, TypeOK, RelayState, Verdict, Label,
     TimerState, CallState, StopState
<1>3. FreshIsUntouched'
  BY SMTT(30), <1>1, NoRequestIsNone
     DEF IInv, TypeOK, FreshIsUntouched, InFlight
<1>4. HeldIsUntouched'
  BY Zenon, <1>1, NoRequestIsNone DEF IInv, TypeOK, HeldIsUntouched, StopOwns
<1>5. TimerIsAlone'
  BY Zenon, <1>1, NoRequestIsNone DEF IInv, TypeOK, TimerIsAlone, TimerOwns
<1>6. CallIsAlone'
  BY Zenon, <1>1, NoRequestIsNone
     DEF IInv, TypeOK, CallIsAlone, CallAlone, StopOwns,
     Verdict, Recorded
<1>7. StopIsAlone'
  BY Zenon, <1>1, NoRequestIsNone DEF IInv, TypeOK, StopIsAlone
<1>8. PoppedHasOwner'
  <2>1. \A s \in Relays : fut'[s] # "pending"
    BY Zenon, <1>1, NoRequestIsNone
  <2> QED BY Zenon, <2>1 DEF PoppedHasOwner
<1>9. DownIsEmpty'
  BY Zenon, <1>1, NoRequestIsNone DEF IInv, TypeOK, DownIsEmpty, InFlight
<1>10. AllowIsRecorded'
  BY Zenon, <1>1, NoRequestIsNone DEF IInv, TypeOK, AllowIsRecorded
<1>11. ToldOnce'
  BY Zenon, <1>1, NoRequestIsNone DEF IInv, TypeOK, ToldOnce
<1>12. PendingIsAccountedFor'
  BY Zenon, <1>1, NoRequestIsNone DEF IInv, TypeOK, PendingIsAccountedFor, TimerOwns,
     StopOwns
<1>13. RowsAreUnique'
  BY Zenon, <1>1, NoRequestIsNone DEF IInv, RowsAreUnique, SameDest
<1> QED BY Zenon, <1>2, <1>3, <1>4, <1>5, <1>6, <1>7, <1>8, <1>9, <1>10, <1>11,
   <1>12, <1>13 DEF IInv

\* Startup: expire_all_pending.
LEMMA RestartKeeps ==
  ASSUME IInv, Restart
  PROVE  IInv'
<1>1. /\ ~up /\ holds = {}
      /\ \A r \in Relays : relay[r] \notin InFlight /\ timer[r] = "none"
      /\ up' = TRUE
      /\ row' = [r \in Relays |-> IF row[r] = "pending" THEN "expired"
                                  ELSE row[r]]
      /\ abandoned' = {}
      /\ UNCHANGED <<gone, relay, answer, holds, fut, timer, told, step, req,
                     say, stopAt, stopTodo, stopReq>>
  BY Zenon DEF Restart, IInv, DownIsEmpty, hold, call, stop
<1>2. TypeOK'
  BY Zenon, <1>1 DEF IInv, TypeOK, RelayState, Verdict, Label, TimerState, CallState,
     StopState
<1>3. FreshIsUntouched'
  BY Zenon, <1>1 DEF IInv, TypeOK, FreshIsUntouched, InFlight
<1>4. HeldIsUntouched'
  BY Zenon, <1>1 DEF IInv, TypeOK, HeldIsUntouched, StopOwns
<1>5. CallIsAlone'
  <2> SUFFICES ASSUME NEW e \in Deciders PROVE CallAlone(e)'
    BY Zenon DEF CallIsAlone
  <2>1. CallAlone(e)
    BY Zenon DEF IInv, CallIsAlone
  <2>2. step[e] = "idle"
    BY Zenon, <1>1, <2>1 DEF CallAlone
  <2>3. step' = step /\ req' = req /\ say' = say
    BY Zenon, <1>1
  <2>4. Spares(e)
    BY Zenon, <2>2, <2>3 DEF Spares
  <2> QED BY Zenon, <2>1, <2>4, SparedCall
<1>6. RowsAreUnique'
  <2>1. \A s \in Relays : row'[s] \in {row[s], "allowed", "denied", "expired"}
    BY Zenon, <1>1 DEF IInv, TypeOK
  <2> QED BY Zenon, <1>1, <2>1, RowsShrink DEF IInv
<1>7. DownIsEmpty'
  BY Zenon, <1>1 DEF IInv, TypeOK, DownIsEmpty, InFlight
<1>8. AllowIsRecorded'
  BY Zenon, <1>1 DEF IInv, TypeOK, AllowIsRecorded
<1>9. PendingIsAccountedFor'
  BY Zenon, <1>1 DEF IInv, TypeOK, PendingIsAccountedFor, TimerOwns, StopOwns
<1>10. /\ TimerIsAlone'
       /\ StopIsAlone'
       /\ PoppedHasOwner'
       /\ ToldOnce'
  BY Zenon, <1>1 DEF IInv, TimerIsAlone, TimerOwns, StopIsAlone, PoppedHasOwner,
     StopOwns, DeciderOwns, ToldOnce
<1> QED BY Zenon, <1>2, <1>3, <1>4, <1>5, <1>6, <1>7, <1>8, <1>9, <1>10
   DEF IInv

\* A workspace going with its rows.
LEMMA DeleteKeeps ==
  ASSUME IInv, NEW w \in Workspaces, DeleteWorkspace(w)
  PROVE  IInv'
<1>1. /\ gone' = gone \cup {w}
      /\ row' = [r \in Relays |->
               IF WorkspaceOf[r] = w
               /\ row[r] # "none" THEN "deleted" ELSE row[r]]
      /\ abandoned' = {r \in abandoned : WorkspaceOf[r] # w}
      /\ UNCHANGED <<up, relay, answer, holds, fut, timer, told, step, req,
                     say, stopAt, stopTodo, stopReq>>
  BY Zenon DEF DeleteWorkspace, hold, call, stop
<1>2. TypeOK'
  BY Zenon, <1>1 DEF IInv, TypeOK, RelayState, Verdict, Label, TimerState, CallState,
     StopState
<1>3. FreshIsUntouched'
  BY Zenon, <1>1 DEF IInv, TypeOK, FreshIsUntouched
<1>4. HeldIsUntouched'
  BY <1>1 DEF IInv, TypeOK, HeldIsUntouched, StopOwns
<1>5. CallIsAlone'
  <2> SUFFICES ASSUME NEW e \in Deciders PROVE CallAlone(e)'
    BY Zenon DEF CallIsAlone
  <2>1. CallAlone(e)
    BY Zenon DEF IInv, CallIsAlone
  <2>2. Spares(e)
    BY Zenon, <1>1, <2>1 DEF IInv, TypeOK, CallAlone, Spares, StopOwns
  <2> QED BY Zenon, <2>1, <2>2, SparedCall
<1>6. RowsAreUnique'
  BY Zenon, <1>1 DEF IInv, TypeOK, RowsAreUnique, SameDest
<1>7. AllowIsRecorded'
  BY Zenon, <1>1 DEF IInv, TypeOK, AllowIsRecorded
<1>8. PendingIsAccountedFor'
  BY Zenon, <1>1 DEF IInv, TypeOK, PendingIsAccountedFor, TimerOwns, StopOwns
<1>9. /\ TimerIsAlone'
      /\ StopIsAlone'
      /\ PoppedHasOwner'
      /\ DownIsEmpty'
      /\ ToldOnce'
  BY Zenon, <1>1 DEF IInv, TimerIsAlone, TimerOwns, StopIsAlone, PoppedHasOwner,
     StopOwns, DeciderOwns, DownIsEmpty, InFlight, ToldOnce
<1> QED BY Zenon, <1>2, <1>3, <1>4, <1>5, <1>6, <1>7, <1>8, <1>9 DEF IInv

\* IInv is inductive: no step of any task breaks it.
LEMMA NextKeeps == ASSUME IInv, [Next]_vars PROVE IInv'
<1>1. CASE UNCHANGED vars
  BY SMTT(30), <1>1 DEF IInv, vars, hold, call, stop, TypeOK, FreshIsUntouched,
     HeldIsUntouched, TimerIsAlone, CallIsAlone, CallAlone, StopIsAlone,
     PoppedHasOwner, RowsAreUnique, DownIsEmpty, AllowIsRecorded, ToldOnce,
     PendingIsAccountedFor, TimerOwns, StopOwns, DeciderOwns
<1>2. ASSUME NEW r \in Relays, EgressFrame(r) \/ RelayStep(r) \/ CancelRelay(r)
      PROVE  IInv'
  BY Zenon, <1>2, RelayKeeps, CreateKeeps, RegisterKeeps, CancelRelayKeeps
     DEF RelayStep
<1>3. ASSUME NEW r \in Relays, TimerStep(r) PROVE IInv'
  BY Zenon, <1>3, TimerWakesKeeps, TimerCancelledKeeps, TimerExpiresKeeps,
     TimerExpireFailsKeeps DEF TimerStep
<1>4. ASSUME NEW d \in Deciders, ResolveStep(d) \/ CancelDecider(d) PROVE IInv'
  BY Zenon, <1>4, CallGoesOn, DecideKeeps, CallSettles, CallEnds DEF ResolveStep
<1>5. ASSUME StopStep PROVE IInv'
  BY Zenon, <1>5, StopNextKeeps, StopReapedKeeps, StopExpiresKeeps,
     StopExpireFailsKeeps, StopEndsKeeps DEF StopStep
<1> QED
  BY Zenon, <1>1, <1>2, <1>3, <1>4, <1>5, ResolveKeeps, StopBeginsKeeps,
     ExitKeeps,
     RestartKeeps, DeleteKeeps DEF Next

\* A coordinator that has just started satisfies IInv.
LEMMA InitKeeps == Init => IInv
<1> SUFFICES ASSUME Init PROVE IInv
  OBVIOUS
<1> USE NoRequestIsNone DEF Init
<1>1. TypeOK
  BY DEF TypeOK, RelayState, TimerState, CallState, StopState, Verdict
<1>2. ToldOnce
  BY Zenon DEF ToldOnce
<1> QED
  BY Zenon, <1>1, <1>2
     DEF IInv, FreshIsUntouched, HeldIsUntouched, TimerIsAlone,
     CallIsAlone, CallAlone, StopIsAlone, PoppedHasOwner, RowsAreUnique,
     DownIsEmpty, AllowIsRecorded, PendingIsAccountedFor, TimerOwns, StopOwns,
     DeciderOwns

\* The inductive invariant holds in every reachable state.
THEOREM Invariance == Spec => []IInv
BY InitKeeps, NextKeeps, PTL DEF Spec

\* Every variable keeps its type, whatever the tasks do.
THEOREM TypeCorrect == Spec => []TypeOK
BY Invariance, PTL DEF IInv

\* A hold in _holds is unanswered and has its timeout or stop() coming for it.
THEOREM HeldExpires == Spec => []HeldWillExpire
<1>1. IInv => HeldWillExpire
  BY Zenon DEF IInv, HeldIsUntouched, HeldWillExpire
<1> QED BY <1>1, Invariance, PTL

\* A popped hold without an answer has exactly one task that will answer it.
THEOREM OneOwner == Spec => []PoppedHasOneOwner
<1>1. IInv => PoppedHasOneOwner
  <2> SUFFICES ASSUME IInv, NEW r \in Relays, fut[r] = "pending", r \notin holds
               PROVE  /\ TimerOwns(r) \/ StopOwns(r)
                           \/ \E d \in Deciders : DeciderOwns(d, r)
                      /\ ~(TimerOwns(r) /\ StopOwns(r))
                      /\ \A d \in Deciders :
                           DeciderOwns(d, r) =>
                             /\ ~TimerOwns(r) /\ ~StopOwns(r)
                             /\ \A e \in Deciders : DeciderOwns(e, r) => e = d
    BY Zenon DEF PoppedHasOneOwner
  <2>1. TimerOwns(r) \/ StopOwns(r) \/ \E d \in Deciders : DeciderOwns(d, r)
    BY Zenon DEF IInv, PoppedHasOwner
  <2>2. ~(TimerOwns(r) /\ StopOwns(r))
    BY Zenon DEF IInv, TimerIsAlone, StopOwns
  <2>3. ASSUME NEW d \in Deciders, DeciderOwns(d, r)
        PROVE  /\ ~TimerOwns(r) /\ ~StopOwns(r)
               /\ \A e \in Deciders : DeciderOwns(e, r) => e = d
    BY Zenon, <2>3 DEF IInv, TimerIsAlone, CallIsAlone, CallAlone, DeciderOwns
  <2> QED BY Zenon, <2>1, <2>2, <2>3
<1> QED BY <1>1, Invariance, PTL

\* The Future of a hold is allow only after its row was recorded allowed.
THEOREM AllowRecorded == Spec => []AllowIsRecorded
BY Invariance, PTL DEF IInv

\* The deciders hear of each hold once, with the verdict its relay gets.
THEOREM TellsOnce == Spec => []ToldOnce
BY Invariance, PTL DEF IInv

\* No workspace has two live prompts about one destination.
THEOREM OnePrompt == Spec => []OnePromptPerDest
<1>1. IInv => OnePromptPerDest
  <2> SUFFICES ASSUME IInv, NEW r \in holds, NEW s \in holds, r # s,
  SameDest(r, s)
               PROVE  WorkspaceOf[r] \in gone
    BY Zenon DEF OnePromptPerDest
  <2>1. /\ r \in Relays /\ row[r] \in {"pending", "deleted"}
        /\ s \in Relays /\ row[s] \in {"pending", "deleted"}
    BY Zenon DEF IInv, TypeOK, HeldIsUntouched
  <2>2. CASE row[r] = "deleted"
    BY Zenon, <2>1, <2>2 DEF IInv, RowsAreUnique
  <2>3. CASE row[s] = "deleted"
    BY Zenon, <2>1, <2>3 DEF IInv, RowsAreUnique, SameDest
  <2>4. CASE row[r] = "pending" /\ row[s] = "pending"
    BY Zenon, <2>1, <2>4 DEF IInv, RowsAreUnique
  <2> QED BY Zenon, <2>1, <2>2, <2>3, <2>4
<1> QED BY <1>1, Invariance, PTL

\* A pending row always has someone who will end it, or was given up.
THEOREM PendingAccounted == Spec => []PendingIsAccountedFor
BY Invariance, PTL DEF IInv

\* A step that moves only request r, and r as promised, keeps the promise.
LEMMA OneMoves ==
  ASSUME NEW r \in Relays, Promise!Move(r),
         \A q \in Relays : q # r => fut'[q] = fut[q] /\ row'[q] = row[q]
  PROVE  Promise!Next
BY Zenon DEF Promise!Next, Promise!Move, Promise!Stay

\* Denying a held request, whether or not its row is expired too, is a Refuse.
LEMMA DenyRefuses ==
  ASSUME IInv, NEW r \in Relays, fut[r] = "pending", Settle(r, "deny", "expired"),
         row' = row \/ ExpirePending(r)
  PROVE  Promise!Next
<1>1. /\ fut'[r] = "deny"
      /\ \A q \in Relays : q # r => fut'[q] = fut[q]
  BY Zenon DEF IInv, TypeOK, Settle
<1>2. /\ \/ row'[r] = row[r]
         \/ row[r] = "pending" /\ row'[r] = "expired"
      /\ \A q \in Relays : q # r => row'[q] = row[q]
  BY Zenon DEF IInv, TypeOK, ExpirePending
<1>3. Promise!Move(r)
  BY Zenon, <1>1, <1>2 DEF Promise!Move, Promise!Refuse
<1> QED BY Zenon, <1>1, <1>2, <1>3, OneMoves

\* Asking, and holding what was asked.
LEMMA RelayRefines ==
  ASSUME IInv, NEW r \in Relays, EgressFrame(r) \/ RelayStep(r) \/ CancelRelay(r)
  PROVE  [Promise!Next]_(Promise!vars)
<1>1. CASE CreateRequest(r)
  <2>1. CASE row' = row
    BY Zenon, <1>1, <2>1 DEF CreateRequest, hold, Promise!vars
  <2>2. CASE row' # row
    <3>1. /\ row[r] = "none" /\ fut' = fut
          /\ row' = [row EXCEPT ![r] = "pending"]
      BY Zenon, <1>1, <2>2 DEF CreateRequest, hold, IInv, FreshIsUntouched
    <3>2. Promise!Move(r)
      BY Zenon, <3>1 DEF IInv, TypeOK, Promise!Move, Promise!Ask
    <3> QED BY Zenon, <3>1, <3>2, OneMoves DEF IInv, TypeOK
  <2> QED BY Zenon, <2>1, <2>2
<1>2. CASE RegisterHold(r)
  <2>1. /\ fut[r] = "none" /\ row[r] \in {"pending", "deleted"} /\ row' = row
        /\ fut' = [fut EXCEPT ![r] = "pending"]
    BY Zenon, <1>2 DEF RegisterHold, IInv, FreshIsUntouched
  <2>2. Promise!Move(r)
    BY Zenon, <2>1 DEF IInv, TypeOK, Promise!Move, Promise!Hold
  <2> QED BY Zenon, <2>1, <2>2, OneMoves DEF IInv, TypeOK
<1>3. CASE ~CreateRequest(r) /\ ~RegisterHold(r)
  BY Zenon, <1>3 DEF EgressFrame, RelayStep, CancelRelay, GateAnswers, GateInteractive,
     CountPending, HoldFails, RelayVerdict, hold, Promise!vars
<1> QED BY Zenon, <1>1, <1>2, <1>3

\* The timeout refuses.
LEMMA TimerRefines ==
  ASSUME IInv, NEW r \in Relays, TimerStep(r)
  PROVE  [Promise!Next]_(Promise!vars)
<1>1. CASE TimerExpires(r)
  BY Zenon, <1>1, DenyRefuses DEF TimerExpires, IInv, TimerIsAlone, TimerOwns
<1>2. CASE TimerExpireFails(r)
  <2>1. CASE timer[r] = "expire1"
    BY Zenon, <1>2, <2>1 DEF TimerExpireFails, Promise!vars
  <2>2. CASE timer[r] = "expire2"
    BY Zenon, <1>2, <2>2, DenyRefuses
       DEF TimerExpireFails, IInv, TimerIsAlone, TimerOwns
  <2> QED BY Zenon, <1>2, <2>1, <2>2 DEF TimerExpireFails
<1>3. CASE TimerWakes(r) \/ TimerCancelled(r)
  BY Zenon, <1>3 DEF TimerWakes, TimerCancelled, Promise!vars
<1> QED BY Zenon, <1>1, <1>2, <1>3 DEF TimerStep

\* A verdict is recorded first and granted next; every failure refuses.
LEMMA ResolveRefines ==
  ASSUME IInv, NEW d \in Deciders, ResolveStep(d) \/ CancelDecider(d)
  PROVE  [Promise!Next]_(Promise!vars)
<1> DEFINE q == req[d]
<1>1. step[d] # "idle" /\ CallAlone(d)
  BY Zenon DEF IInv, CallIsAlone, ResolveStep, CancelDecider, Reaped, Decide,
     DecideFails, FinishResolve, FinishGone, AfterVerdict, DeciderExpires,
     DeciderExpireFails
<1>2. q \in Relays
  BY Zenon, <1>1 DEF CallAlone
<1>3. CASE Decide(d)
  <2>1. CASE row[q] = "pending"
    <3>1. /\ fut' = fut /\ row' = [row EXCEPT ![q] = Recorded(say[d])]
          /\ Recorded(say[d]) \in {"allowed", "denied"}
      BY Zenon, <1>3, <2>1 DEF Decide, hold, Recorded
    <3>2. Promise!Move(q)
      BY Zenon, <1>2, <2>1, <3>1 DEF IInv, TypeOK, Promise!Move, Promise!Decide
    <3> QED BY Zenon, <1>2, <3>1, <3>2, OneMoves DEF IInv, TypeOK
  <2>2. CASE row[q] # "pending"
    BY Zenon, <1>3, <2>2 DEF Decide, hold, Promise!vars
  <2> QED BY Zenon, <2>1, <2>2
<1>4. CASE DecideFails(d) \/ FinishGone(d)
  BY Zenon, <1>1, <1>2, <1>4, DenyRefuses DEF DecideFails, FinishGone, CallAlone
<1>5. CASE FinishResolve(d)
  <2>1. /\ fut[q] = "pending" /\ row[q] \in {Recorded(say[d]), "deleted"}
        /\ fut' = [fut EXCEPT ![q] = say[d]] /\ row' = row
    BY Zenon, <1>1, <1>2, <1>5 DEF FinishResolve, Settle, CallAlone
  <2>2. say[d] \in Verdict
    BY Zenon DEF IInv, TypeOK
  <2>3. Promise!Move(q)
    BY Zenon, <1>2, <2>1, <2>2 DEF IInv, TypeOK, Verdict, Recorded, Promise!Move,
       Promise!Grant, Promise!Refuse
  <2> QED BY Zenon, <1>2, <2>1, <2>3, OneMoves DEF IInv, TypeOK
<1>6. CASE CancelDecider(d)
  BY Zenon, <1>2, <1>6, DenyRefuses DEF CancelDecider, FailClosePopped, Promise!vars
<1>7. CASE DeciderExpires(d)
  <2>1. CASE row[q] = "pending"
    <3>1. fut' = fut /\ row' = [row EXCEPT ![q] = "expired"]
      BY Zenon, <1>7, <2>1 DEF DeciderExpires, ExpirePending, hold
    <3>2. Promise!Move(q)
      BY Zenon, <1>2, <2>1, <3>1 DEF IInv, TypeOK, Promise!Move, Promise!Decide
    <3> QED BY Zenon, <1>2, <3>1, <3>2, OneMoves DEF IInv, TypeOK
  <2>2. CASE row[q] # "pending"
    <3>1. fut' = fut /\ row' = row
      BY Zenon, <1>2, <1>7, <2>2 DEF DeciderExpires, ExpirePending, hold, IInv, TypeOK
    <3> QED BY Zenon, <3>1 DEF Promise!vars
  <2> QED BY Zenon, <2>1, <2>2
<1>8. CASE Reaped(d) \/ AfterVerdict(d) \/ DeciderExpireFails(d)
  BY Zenon, <1>8 DEF Reaped, AfterVerdict, DeciderExpireFails, hold, Promise!vars
<1> QED BY Zenon, <1>3, <1>4, <1>5, <1>6, <1>7, <1>8 DEF ResolveStep

\* A shutdown refuses.
LEMMA StopRefines ==
  ASSUME IInv, StopStep
  PROVE  [Promise!Next]_(Promise!vars)
<1>1. CASE StopExpires
  BY Zenon, <1>1, DenyRefuses DEF StopExpires, IInv, StopIsAlone
<1>2. CASE StopExpireFails
  <2>1. CASE stopAt = "expire1"
    BY Zenon, <1>2, <2>1 DEF StopExpireFails, Promise!vars
  <2>2. CASE stopAt = "expire2"
    BY Zenon, <1>2, <2>2, DenyRefuses DEF StopExpireFails, IInv, StopIsAlone
  <2> QED BY Zenon, <1>2, <2>1, <2>2 DEF StopExpireFails
<1>3. CASE (\E r \in Relays : StopNext(r)) \/ StopReaped \/ StopEnds
  BY Zenon, <1>3 DEF StopNext, StopReaped, StopEnds, hold, Promise!vars
<1> QED BY Zenon, <1>1, <1>2, <1>3 DEF StopStep

\* A crash loses, a restart expires and a deletion deletes, all at once.
LEMMA ProcessRefines ==
  ASSUME IInv, Exit \/ Restart \/ \E w \in Workspaces : DeleteWorkspace(w)
  PROVE  [Promise!Next]_(Promise!vars)
<1> SUFFICES ASSUME NEW q \in Relays PROVE Promise!Move(q)
  BY Zenon DEF Promise!Next
<1>1. CASE Exit
  BY Zenon, <1>1 DEF Exit, IInv, TypeOK, Promise!Move, Promise!Stay, Promise!Lose
<1>2. CASE Restart
  BY Zenon, <1>2 DEF Restart, hold, IInv, TypeOK, Promise!Move, Promise!Stay,
     Promise!Decide
<1>3. CASE \E w \in Workspaces : DeleteWorkspace(w)
  BY Zenon, <1>3 DEF DeleteWorkspace, hold, IInv, TypeOK, Promise!Move, Promise!Stay,
     Promise!Delete
<1> QED BY Zenon, <1>1, <1>2, <1>3

\* The coordinator implements its promise: a request is recorded before it is
\* held, answered once, granted only on a recorded allow, and a decision once
\* recorded stands.
THEOREM KeepsPromise == Spec => ImplementsPromise
<1>1. Init => Promise!Init
  BY Zenon DEF Init, Promise!Init
<1>2. ASSUME IInv, [Next]_vars PROVE [Promise!Next]_(Promise!vars)
  <2>1. CASE UNCHANGED vars
    BY Zenon, <2>1 DEF vars, hold, Promise!vars
  <2>2. CASE \E d \in Deciders, r \in Relays, v \in Verdict : Resolve(d, r, v)
    BY Zenon, <2>2 DEF Resolve, Promise!vars
  <2>3. CASE StopBegins
    BY Zenon, <2>3 DEF StopBegins, hold, Promise!vars
  <2> QED
    BY Zenon, <1>2, <2>1, <2>2, <2>3, RelayRefines, TimerRefines, ResolveRefines,
       StopRefines, ProcessRefines DEF Next
<1> QED
  BY <1>1, <1>2, Invariance, PTL DEF Spec, ImplementsPromise, Promise!Spec
=============================================================================
