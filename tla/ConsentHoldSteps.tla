-------------------------- MODULE ConsentHoldSteps --------------------------
(***************************************************************************)
(* ConsentHold is correct for any number of relays, deciders and workspaces*)
(* and any rate limit: the proof, in two modules, that its inductive       *)
(* invariant IInv is kept by every action.  The lemma of an action first   *)
(* says what the action does to the variables, then takes the conjuncts of *)
(* IInv in turn.  Here: the lemmas they share, the relays, the timers and  *)
(* the resolve() of the deciders.                                          *)
(***************************************************************************)
EXTENDS ConsentHold, TLAPS

\* The idle mark of a decider and of stop() is no request.
LEMMA NoRequestIsNone == NoRequest \notin Relays
BY Zenon, ConstantsAssumption

\* The first frame broadcast about a request is the whole history of it.
LEMMA AppendFirst == ASSUME NEW l PROVE Append(<<>>, l) = <<l>>
OBVIOUS

\* Settling a pending hold: what it does to the Future and the broadcasts, and
\* that the two agree afterwards if the label fits the verdict.
LEMMA Settled ==
  ASSUME TypeOK, ToldOnce, NEW r \in Relays, NEW v \in Verdict, NEW l \in Label,
         fut[r] = "pending", Settle(r, v, l),
         v = "allow" => l = "allowed", v = "deny" => l # "allowed"
  PROVE  /\ fut' = [fut EXCEPT ![r] = v]
         /\ told' \in [Relays -> Seq(Label)]
         /\ ToldOnce'
<1>1. told[r] = <<>>
  BY Zenon DEF ToldOnce
<1>2. fut' = [fut EXCEPT ![r] = v]
  BY Zenon DEF Settle
<1>3. told' = [told EXCEPT ![r] = <<l>>]
  BY Zenon, <1>1, AppendFirst DEF Settle
<1>4. told' \in [Relays -> Seq(Label)]
  BY <1>3 DEF TypeOK
<1>5. ToldOnce'
  <2> SUFFICES ASSUME NEW s \in Relays
               PROVE  told'[s] \in CASE fut'[s] = "allow" -> {<<"allowed">>}
                        [] fut'[s] = "deny" -> {<<"denied">>, <<"expired">>}
                        [] OTHER -> {<<>>}
    BY Zenon DEF ToldOnce
  <2>1. CASE s = r
    BY Zenon, <2>1, <1>2, <1>3 DEF TypeOK, Verdict, Label
  <2>2. CASE s # r
    BY Zenon, <2>2, <1>2, <1>3 DEF TypeOK, ToldOnce
  <2> QED BY Zenon, <2>1, <2>2
<1> QED BY Zenon, <1>2, <1>4, <1>5

\* A step leaves alone what the resolve() of decider e relies on.
Spares(e) ==
  /\ step'[e] = step[e] /\ req'[e] = req[e] /\ say'[e] = say[e]
  /\ step[e] # "idle" =>
       /\ req[e] \notin holds'
       /\ timer'[req[e]] \in {"cancelling", "done"}
       /\ fut'[req[e]] = fut[req[e]]
       /\ row'[req[e]] \in {row[req[e]], "deleted"}
       /\ ~StopOwns(req[e])'
       /\ \A f \in Deciders : f # e => req'[f] # req[e]

\* A resolve() that a step spares still has its request to itself.
LEMMA SparedCall ==
  ASSUME NEW e \in Deciders, CallAlone(e), Spares(e)
  PROVE  CallAlone(e)'
BY Zenon DEF CallAlone, Spares

\* No second pending row comes of rows being decided or expired.
LEMMA RowsShrink ==
  ASSUME RowsAreUnique, gone' = gone,
         \A s \in Relays : row'[s] \in {row[s], "allowed", "denied", "expired"}
  PROVE  RowsAreUnique'
BY Zenon DEF RowsAreUnique, SameDest

\* A relay that moves on without touching the coordinator or a row: it has no
\* request yet and gets none, or it has had its verdict.
LEMMA RelayMoves ==
  ASSUME IInv, NEW r \in Relays, NEW at \in RelayState,
         up, relay[r] # "created", at \notin {"idle", "created", "wait"},
         at \in {"gate", "count", "create"} =>
           relay[r] \in {"idle", "gate", "count"},
         relay' = [relay EXCEPT ![r] = at],
         answer' \in [Relays -> Verdict \cup {"none"}],
         UNCHANGED <<up, gone, row, hold, call, stop, abandoned>>
  PROVE  IInv'
<1>1. UNCHANGED <<up, gone, row, holds, fut, timer, told, step, req, say,
                  stopAt, stopTodo, stopReq, abandoned>>
  BY Zenon DEF hold, call, stop
<1>2. TypeOK'
  BY Zenon, <1>1 DEF IInv, TypeOK, RelayState, Verdict, Label, TimerState,
     CallState,
     StopState
<1>3. FreshIsUntouched'
  BY Zenon, <1>1 DEF IInv, TypeOK, FreshIsUntouched
<1>4. DownIsEmpty'
  BY <1>1 DEF IInv, TypeOK, DownIsEmpty, InFlight
<1>5. PendingIsAccountedFor'
  BY Zenon, <1>1 DEF IInv, TypeOK, PendingIsAccountedFor, TimerOwns, StopOwns
<1>6. /\ HeldIsUntouched'
      /\ TimerIsAlone'
      /\ CallIsAlone'
      /\ StopIsAlone'
      /\ PoppedHasOwner'
      /\ RowsAreUnique'
      /\ AllowIsRecorded'
      /\ ToldOnce'
  BY <1>1 DEF IInv, HeldIsUntouched, StopOwns, TimerIsAlone, TimerOwns,
     CallIsAlone, CallAlone, Verdict, Recorded, StopIsAlone, PoppedHasOwner,
     DeciderOwns, RowsAreUnique, SameDest, AllowIsRecorded, ToldOnce
<1> QED BY Zenon, <1>2, <1>3, <1>4, <1>5, <1>6 DEF IInv

\* Every action of a relay before it has a request, and the ones that end it.
LEMMA RelayKeeps ==
  ASSUME IInv, NEW r \in Relays,
         \/ EgressFrame(r)
         \/ \E v \in Verdict : GateAnswers(r, v)
         \/ GateInteractive(r)
         \/ CountPending(r)
         \/ HoldFails(r)
         \/ RelayVerdict(r)
         \/ CancelRelay(r) /\ relay[r] # "created"
         \/ CreateRequest(r) /\ relay'[r] = "done"
  PROVE  IInv'
<1>0. /\ relay \in [Relays -> RelayState]
      /\ answer \in [Relays -> Verdict \cup {"none"}]
      /\ fut \in [Relays -> Verdict \cup {"none", "pending", "lost"}]
  BY Zenon DEF IInv, TypeOK
<1>1. CASE EgressFrame(r)
  BY Zenon, <1>0, <1>1, RelayMoves DEF EgressFrame, Serving, RelayState
<1>2. CASE \E v \in Verdict : GateAnswers(r, v)
  <2>1. PICK v \in Verdict : GateAnswers(r, v)
    BY Zenon, <1>2
  <2> QED BY Zenon, <1>0, <2>1, RelayMoves DEF GateAnswers, Answer, RelayState
<1>3. CASE GateInteractive(r)
  BY Zenon, <1>0, <1>3, RelayMoves DEF GateInteractive, RelayState
<1>4. CASE CountPending(r)
  BY <1>0, <1>4, RelayMoves DEF CountPending, Answer, RelayState, Verdict
<1>5. CASE HoldFails(r)
  BY Zenon, <1>0, <1>5, RelayMoves DEF HoldFails, Answer, RelayState, Verdict
<1>6. CASE RelayVerdict(r)
  BY Zenon, <1>0, <1>6, RelayMoves DEF RelayVerdict, Answer, RelayState
<1>7. CASE CancelRelay(r) /\ relay[r] # "created"
  BY Zenon, <1>0, <1>7, RelayMoves DEF CancelRelay, RelayState, InFlight
<1>8. CASE CreateRequest(r) /\ relay'[r] = "done"
  BY <1>0, <1>8, RelayMoves DEF CreateRequest, Answer, RelayState, Verdict
<1> QED BY Zenon, <1>1, <1>2, <1>3, <1>4, <1>5, <1>6, <1>7, <1>8

\* create_request inserting the row of a request.
LEMMA CreateKeeps ==
  ASSUME IInv, NEW r \in Relays, CreateRequest(r)
  PROVE  IInv'
<1>1. SUFFICES ASSUME relay'[r] # "done" PROVE IInv'
  BY Zenon, RelayKeeps
<1>2. /\ up /\ relay[r] = "create" /\ row[r] = "none" /\ fut[r] = "none"
      /\ WorkspaceOf[r] \notin gone
      /\ \A s \in Relays : SameDest(r, s) => row[s] # "pending"
      /\ relay' = [relay EXCEPT ![r] = "created"]
      /\ row' = [row EXCEPT ![r] = "pending"]
      /\ UNCHANGED <<up, gone, answer, holds, fut, timer, told, step, req,
                     say, stopAt, stopTodo, stopReq, abandoned>>
  <2>1. ASSUME \/ WorkspaceOf[r] \in gone
               \/ \E s \in Relays : SameDest(r, s) /\ row[s] = "pending"
        PROVE  FALSE
    <3>1. relay' = [relay EXCEPT ![r] = "done"]
      BY Zenon, <2>1 DEF CreateRequest, Answer
    <3> QED BY Zenon, <1>1, <3>1 DEF IInv, TypeOK
  <2>2. relay[r] = "create"
    BY Zenon DEF CreateRequest
  <2>3. row[r] = "none" /\ fut[r] = "none"
    BY Zenon, <2>2 DEF IInv, FreshIsUntouched
  <2> QED BY Zenon, <2>1, <2>3 DEF CreateRequest, hold, call, stop
<1>3. TypeOK'
  BY Zenon, <1>2, <1>1 DEF IInv, TypeOK, RelayState, Verdict, Label, TimerState,
     CallState, StopState
<1>4. FreshIsUntouched'
  BY <1>2, <1>1 DEF IInv, TypeOK, FreshIsUntouched
<1>5. HeldIsUntouched'
  BY <1>2, <1>1 DEF IInv, TypeOK, HeldIsUntouched, StopOwns, FreshIsUntouched
<1>6. CallIsAlone'
  <2> SUFFICES ASSUME NEW e \in Deciders PROVE CallAlone(e)'
    BY Zenon DEF CallIsAlone
  <2>1. CallAlone(e) /\ (step[e] # "idle" => req[e] # r)
    BY Zenon, <1>2, <1>1 DEF IInv, CallIsAlone, CallAlone, FreshIsUntouched
  <2>2. Spares(e)
    BY Zenon, <1>2, <1>1, <2>1 DEF IInv, TypeOK, CallAlone, Spares, StopOwns
  <2> QED BY Zenon, <2>1, <2>2, SparedCall
<1>7. RowsAreUnique'
  BY <1>2, <1>1 DEF IInv, TypeOK, RowsAreUnique, SameDest
<1>8. DownIsEmpty'
  BY Zenon, <1>2, <1>1 DEF IInv, TypeOK, DownIsEmpty, InFlight
<1>9. AllowIsRecorded'
  BY Zenon, <1>2, <1>1 DEF IInv, TypeOK, AllowIsRecorded
<1>10. PendingIsAccountedFor'
  BY Zenon, <1>2, <1>1 DEF IInv, TypeOK, PendingIsAccountedFor, TimerOwns, StopOwns
<1>11. /\ TimerIsAlone'
       /\ StopIsAlone'
       /\ PoppedHasOwner'
       /\ ToldOnce'
  BY Zenon, <1>2, <1>1 DEF IInv, TimerIsAlone, TimerOwns, StopIsAlone,
     PoppedHasOwner, StopOwns, DeciderOwns, ToldOnce
<1> QED BY Zenon, <1>3, <1>4, <1>5, <1>6, <1>7, <1>8, <1>9, <1>10, <1>11 DEF IInv

\* _register_hold: a fresh request becomes a hold with a sleeping timer.
LEMMA RegisterKeeps ==
  ASSUME IInv, NEW r \in Relays, RegisterHold(r)
  PROVE  IInv'
<1>1. /\ up /\ relay[r] = "created" /\ row[r] \in {"pending", "deleted"}
      /\ fut[r] = "none" /\ timer[r] = "none" /\ stopReq # r
      /\ \A e \in Deciders : req[e] # r
      /\ relay' = [relay EXCEPT ![r] = "wait"]
      /\ holds' = holds \cup {r}
      /\ fut' = [fut EXCEPT ![r] = "pending"]
      /\ timer' = [timer EXCEPT ![r] = "sleeping"]
      /\ UNCHANGED <<up, gone, answer, row, told, step, req, say, stopAt,
                     stopTodo, stopReq, abandoned>>
  BY Zenon DEF RegisterHold, IInv, FreshIsUntouched, call, stop
<1>2. TypeOK'
  BY Zenon, <1>1 DEF IInv, TypeOK, RelayState, Verdict, Label, TimerState, CallState,
     StopState
<1>3. FreshIsUntouched'
  BY Zenon, <1>1 DEF IInv, TypeOK, FreshIsUntouched
<1>4. HeldIsUntouched'
  BY <1>1 DEF IInv, TypeOK, HeldIsUntouched, StopOwns
<1>5. TimerIsAlone'
  BY Zenon, <1>1 DEF IInv, TypeOK, TimerIsAlone, TimerOwns
<1>6. CallIsAlone'
  <2> SUFFICES ASSUME NEW e \in Deciders PROVE CallAlone(e)'
    BY Zenon DEF CallIsAlone
  <2>1. CallAlone(e) /\ (step[e] # "idle" => req[e] # r)
    BY Zenon, <1>1 DEF IInv, CallIsAlone, CallAlone
  <2>2. Spares(e)
    BY Zenon, <1>1, <2>1 DEF IInv, TypeOK, CallAlone, Spares, StopOwns
  <2> QED BY Zenon, <2>1, <2>2, SparedCall
<1>7. StopIsAlone'
  BY Zenon, <1>1 DEF IInv, TypeOK, StopIsAlone
<1>8. PoppedHasOwner'
  BY <1>1 DEF IInv, TypeOK, PoppedHasOwner, TimerOwns, StopOwns, DeciderOwns
<1>9. DownIsEmpty'
  BY Zenon, <1>1 DEF IInv, TypeOK, DownIsEmpty, InFlight
<1>10. AllowIsRecorded'
  BY Zenon, <1>1 DEF IInv, TypeOK, AllowIsRecorded
<1>11. ToldOnce'
  BY Zenon, <1>1 DEF IInv, TypeOK, ToldOnce
<1>12. PendingIsAccountedFor'
  BY Zenon, <1>1 DEF IInv, TypeOK, PendingIsAccountedFor, TimerOwns, StopOwns
<1>13. RowsAreUnique'
  BY Zenon, <1>1 DEF IInv, RowsAreUnique, SameDest
<1> QED BY Zenon, <1>2, <1>3, <1>4, <1>5, <1>6, <1>7, <1>8, <1>9, <1>10, <1>11,
   <1>12, <1>13 DEF IInv

\* A relay cancelled between the INSERT and the registration abandons its row.
LEMMA CancelRelayKeeps ==
  ASSUME IInv, NEW r \in Relays, CancelRelay(r)
  PROVE  IInv'
<1>1. SUFFICES ASSUME relay[r] = "created" PROVE IInv'
  BY Zenon, RelayKeeps
<1>2. /\ relay' = [relay EXCEPT ![r] = "cancelled"]
      /\ abandoned' = IF row[r] = "pending" THEN abandoned \cup {r}
                      ELSE abandoned
      /\ UNCHANGED <<up, gone, answer, row, holds, fut, timer, told, step,
                     req, say, stopAt, stopTodo, stopReq>>
  BY Zenon, <1>1 DEF CancelRelay, GiveUp, hold, call, stop
<1>3. TypeOK'
  BY Zenon, <1>2, <1>1 DEF IInv, TypeOK, RelayState, Verdict, Label, TimerState,
     CallState, StopState
<1>4. FreshIsUntouched'
  BY Zenon, <1>2, <1>1 DEF IInv, TypeOK, FreshIsUntouched
<1>5. DownIsEmpty'
  BY Zenon, <1>2, <1>1 DEF IInv, TypeOK, DownIsEmpty, InFlight
<1>6. PendingIsAccountedFor'
  BY Zenon, <1>2, <1>1 DEF IInv, TypeOK, PendingIsAccountedFor, TimerOwns, StopOwns
<1>7. /\ HeldIsUntouched'
      /\ TimerIsAlone'
      /\ CallIsAlone'
      /\ StopIsAlone'
      /\ PoppedHasOwner'
      /\ RowsAreUnique'
      /\ AllowIsRecorded'
      /\ ToldOnce'
  BY <1>2, <1>1 DEF IInv, HeldIsUntouched, StopOwns, TimerIsAlone, TimerOwns,
     CallIsAlone, CallAlone, Verdict, Recorded, StopIsAlone, PoppedHasOwner,
     DeciderOwns, RowsAreUnique, SameDest, AllowIsRecorded, ToldOnce
<1> QED BY Zenon, <1>3, <1>4, <1>5, <1>6, <1>7 DEF IInv

\* _timeout waking up: it pops its hold.
LEMMA TimerWakesKeeps ==
  ASSUME IInv, NEW r \in Relays, TimerWakes(r)
  PROVE  IInv'
<1>1. /\ r \in holds /\ fut[r] = "pending" /\ timer[r] = "sleeping"
      /\ stopReq # r
      /\ \A e \in Deciders : req[e] # r
      /\ holds' = holds \ {r}
      /\ timer' = [timer EXCEPT ![r] = "expire1"]
      /\ UNCHANGED <<up, gone, relay, answer, row, fut, told, step, req, say,
                     stopAt, stopTodo, stopReq, abandoned>>
  <2>1. timer[r] = "sleeping" /\ r \in holds
    BY Zenon DEF TimerWakes, IInv, TimerIsAlone
  <2>2. stopReq # r
    BY Zenon, <2>1, NoRequestIsNone DEF IInv, TypeOK, StopIsAlone, StopState
  <2> QED
    BY Zenon, <2>1, <2>2 DEF TimerWakes, IInv, HeldIsUntouched, call, stop
<1>2. TypeOK'
  BY Zenon, <1>1 DEF IInv, TypeOK, RelayState, Verdict, Label, TimerState, CallState,
     StopState
<1>3. FreshIsUntouched'
  BY Zenon, <1>1 DEF IInv, TypeOK, FreshIsUntouched
<1>4. HeldIsUntouched'
  BY <1>1 DEF IInv, TypeOK, HeldIsUntouched, StopOwns
<1>5. TimerIsAlone'
  BY Zenon, <1>1 DEF IInv, TypeOK, TimerIsAlone, TimerOwns
<1>6. CallIsAlone'
  <2> SUFFICES ASSUME NEW e \in Deciders PROVE CallAlone(e)'
    BY Zenon DEF CallIsAlone
  <2>1. CallAlone(e) /\ (step[e] # "idle" => req[e] # r)
    BY Zenon, <1>1 DEF IInv, CallIsAlone, CallAlone
  <2>2. Spares(e)
    BY Zenon, <1>1, <2>1 DEF IInv, TypeOK, CallAlone, Spares, StopOwns
  <2> QED BY Zenon, <2>1, <2>2, SparedCall
<1>7. StopIsAlone'
  BY Zenon, <1>1 DEF IInv, TypeOK, StopIsAlone
<1>8. PoppedHasOwner'
  BY ZenonT(30), <1>1 DEF IInv, TypeOK, PoppedHasOwner, TimerOwns, StopOwns, DeciderOwns
<1>9. DownIsEmpty'
  BY Zenon, <1>1 DEF IInv, TypeOK, DownIsEmpty, InFlight
<1>10. PendingIsAccountedFor'
  BY Zenon, <1>1 DEF IInv, TypeOK, PendingIsAccountedFor, TimerOwns, StopOwns
<1>11. /\ RowsAreUnique'
       /\ AllowIsRecorded'
       /\ ToldOnce'
  BY Zenon, <1>1 DEF IInv, RowsAreUnique, SameDest, AllowIsRecorded, ToldOnce
<1> QED BY Zenon, <1>2, <1>3, <1>4, <1>5, <1>6, <1>7, <1>8, <1>9, <1>10, <1>11 DEF IInv

\* _timeout ending on its cancellation.
LEMMA TimerCancelledKeeps ==
  ASSUME IInv, NEW r \in Relays, TimerCancelled(r)
  PROVE  IInv'
<1>1. /\ timer[r] = "cancelling" /\ up
      /\ timer' = [timer EXCEPT ![r] = "done"]
      /\ UNCHANGED <<up, gone, relay, answer, row, holds, fut, told, step,
                     req, say, stopAt, stopTodo, stopReq, abandoned>>
  BY Zenon DEF TimerCancelled, call, stop
<1>2. TypeOK'
  BY Zenon, <1>1 DEF IInv, TypeOK, RelayState, Verdict, Label, TimerState, CallState,
     StopState
<1>3. FreshIsUntouched'
  BY Zenon, <1>1 DEF IInv, TypeOK, FreshIsUntouched
<1>4. HeldIsUntouched'
  BY SMTT(30), <1>1 DEF IInv, TypeOK, HeldIsUntouched, StopOwns
<1>5. TimerIsAlone'
  BY Zenon, <1>1 DEF IInv, TypeOK, TimerIsAlone, TimerOwns
<1>6. CallIsAlone'
  <2> SUFFICES ASSUME NEW e \in Deciders PROVE CallAlone(e)'
    BY Zenon DEF CallIsAlone
  <2>1. CallAlone(e)
    BY Zenon DEF IInv, CallIsAlone
  <2>2. Spares(e)
    BY Zenon, <1>1, <2>1 DEF IInv, TypeOK, CallAlone, Spares, StopOwns
  <2> QED BY Zenon, <2>1, <2>2, SparedCall
<1>7. StopIsAlone'
  BY Zenon, <1>1 DEF IInv, TypeOK, StopIsAlone
<1>8. PoppedHasOwner'
  BY <1>1 DEF IInv, TypeOK, PoppedHasOwner, TimerOwns, StopOwns, DeciderOwns
<1>9. DownIsEmpty'
  BY Zenon, <1>1 DEF IInv, TypeOK, DownIsEmpty, InFlight
<1>10. PendingIsAccountedFor'
  BY Zenon, <1>1 DEF IInv, TypeOK, PendingIsAccountedFor, TimerOwns, StopOwns
<1>11. /\ RowsAreUnique'
       /\ AllowIsRecorded'
       /\ ToldOnce'
  BY Zenon, <1>1 DEF IInv, RowsAreUnique, SameDest, AllowIsRecorded, ToldOnce
<1> QED BY Zenon, <1>2, <1>3, <1>4, <1>5, <1>6, <1>7, <1>8, <1>9, <1>10, <1>11 DEF IInv

\* _fail_close in the timer, with the row expired.
LEMMA TimerExpiresKeeps ==
  ASSUME IInv, NEW r \in Relays, TimerExpires(r)
  PROVE  IInv'
<1>1. /\ r \in Relays /\ fut[r] = "pending"
      /\ told' \in [Relays -> Seq(Label)] /\ ToldOnce'
      /\ timer[r] \in {"expire1", "expire2"} /\ r \notin holds
      /\ stopReq # r /\ up
      /\ \A e \in Deciders : req[e] # r
      /\ row' = [row EXCEPT ![r] =
                  IF row[r] = "pending" THEN "expired" ELSE row[r]]
      /\ fut' = [fut EXCEPT ![r] = "deny"]
      /\ timer' = [timer EXCEPT ![r] = "done"]
      /\ UNCHANGED <<up, gone, relay, answer, holds, step, req, say, stopAt,
                     stopTodo, stopReq, abandoned>>
  <2>1. /\ r \notin holds /\ fut[r] = "pending" /\ stopReq # r
        /\ \A e \in Deciders : req[e] # r
    BY Zenon DEF TimerExpires, IInv, TimerIsAlone, TimerOwns
  <2> QED
    BY Zenon, <2>1, Settled
       DEF TimerExpires, ExpirePending, IInv, Verdict, Label,
       call,
       stop
<1>2. TypeOK'
  BY Zenon, <1>1 DEF IInv, TypeOK, RelayState, Verdict, Label, TimerState, CallState,
     StopState
<1>3. FreshIsUntouched'
  BY Zenon, <1>1 DEF IInv, TypeOK, FreshIsUntouched
<1>4. HeldIsUntouched'
  BY SMTT(30), <1>1 DEF IInv, TypeOK, HeldIsUntouched, StopOwns
<1>5. TimerIsAlone'
  BY Zenon, <1>1 DEF IInv, TypeOK, TimerIsAlone, TimerOwns
<1>6. CallIsAlone'
  <2> SUFFICES ASSUME NEW e \in Deciders PROVE CallAlone(e)'
    BY Zenon DEF CallIsAlone
  <2>1. CallAlone(e) /\ (step[e] # "idle" => req[e] # r)
    BY Zenon, <1>1 DEF IInv, CallIsAlone, CallAlone
  <2>2. Spares(e)
    BY Zenon, <1>1, <2>1 DEF IInv, TypeOK, CallAlone, Spares, StopOwns
  <2> QED BY Zenon, <2>1, <2>2, SparedCall
<1>7. StopIsAlone'
  BY Zenon, <1>1 DEF IInv, TypeOK, StopIsAlone
<1>8. PoppedHasOwner'
  <2> SUFFICES ASSUME NEW s \in Relays, fut'[s] = "pending", s \notin holds'
               PROVE  \/ TimerOwns(s)' \/ StopOwns(s)'
                      \/ \E e \in Deciders : DeciderOwns(e, s)'
    BY Zenon DEF PoppedHasOwner
  <2>1. fut[s] = "pending" /\ s \notin holds
    BY Zenon, <1>1 DEF IInv, TypeOK
  <2>2. \A e \in Deciders : DeciderOwns(e, s) => DeciderOwns(e, s)'
    BY Zenon, <1>1, <2>1 DEF IInv, TypeOK, DeciderOwns, CallIsAlone, CallAlone, Verdict
  <2>3. TimerOwns(s) => TimerOwns(s)'
    BY Zenon, <1>1, <2>1 DEF IInv, TypeOK, TimerOwns
  <2>4. StopOwns(s) => StopOwns(s)'
    BY Zenon, <1>1, <2>1 DEF StopOwns
  <2> QED BY Zenon, <2>1, <2>2, <2>3, <2>4 DEF IInv, PoppedHasOwner
<1>9. RowsAreUnique'
  <2>1. \A s \in Relays : row'[s] \in {row[s], "allowed", "denied", "expired"}
    BY Zenon, <1>1 DEF IInv, TypeOK
  <2> QED BY Zenon, <1>1, <2>1, RowsShrink DEF IInv
<1>10. DownIsEmpty'
  BY Zenon, <1>1 DEF IInv, TypeOK, DownIsEmpty, InFlight
<1>11. AllowIsRecorded'
  BY Zenon, <1>1 DEF IInv, TypeOK, AllowIsRecorded
<1>12. ToldOnce'
  BY Zenon, <1>1
<1>13. PendingIsAccountedFor'
  BY Zenon, <1>1 DEF IInv, TypeOK, PendingIsAccountedFor, TimerOwns, StopOwns
<1> QED BY Zenon, <1>2, <1>3, <1>4, <1>5, <1>6, <1>7, <1>8, <1>9, <1>10,
   <1>11,
   <1>12, <1>13 DEF IInv

\* _expire_stranded raising in the timer: once, it is retried; twice, the row is
\* abandoned and the hold denied all the same.
LEMMA TimerExpireFailsKeeps ==
  ASSUME IInv, NEW r \in Relays, TimerExpireFails(r)
  PROVE  IInv'
<1>1. CASE timer[r] = "expire1"
  <2>1. /\ timer[r] = "expire1" /\ fut[r] = "pending" /\ r \notin holds
        /\ stopReq # r
        /\ up /\ \A e \in Deciders : req[e] # r
        /\ timer' = [timer EXCEPT ![r] = "expire2"]
        /\ UNCHANGED <<up, gone, relay, answer, row, holds, fut, told, step,
                       req, say, stopAt, stopTodo, stopReq, abandoned>>
    BY Zenon, <1>1 DEF TimerExpireFails, IInv, TimerIsAlone, TimerOwns, call, stop
  <2>2. TypeOK'
    BY Zenon, <2>1 DEF IInv, TypeOK, RelayState, Verdict, Label, TimerState,
       CallState, StopState
  <2>3. FreshIsUntouched'
    BY Zenon, <2>1 DEF IInv, TypeOK, FreshIsUntouched
  <2>4. HeldIsUntouched'
    BY SMTT(30), <2>1 DEF IInv, TypeOK, HeldIsUntouched, StopOwns
  <2>5. TimerIsAlone'
    BY Zenon, <2>1 DEF IInv, TypeOK, TimerIsAlone, TimerOwns
  <2>6. CallIsAlone'
    <3> SUFFICES ASSUME NEW e \in Deciders PROVE CallAlone(e)'
      BY Zenon DEF CallIsAlone
    <3>1. CallAlone(e) /\ (step[e] # "idle" => req[e] # r)
      BY Zenon, <2>1 DEF IInv, CallIsAlone, CallAlone
    <3>2. Spares(e)
      BY Zenon, <2>1, <3>1 DEF IInv, TypeOK, CallAlone, Spares, StopOwns
    <3> QED BY Zenon, <3>1, <3>2, SparedCall
  <2>7. StopIsAlone'
    BY Zenon, <2>1 DEF IInv, TypeOK, StopIsAlone
  <2>8. PoppedHasOwner'
    BY SMTT(30), <2>1 DEF IInv, TypeOK, PoppedHasOwner, TimerOwns, StopOwns, DeciderOwns
  <2>9. DownIsEmpty'
    BY Zenon, <2>1 DEF IInv, TypeOK, DownIsEmpty, InFlight
  <2>10. PendingIsAccountedFor'
    BY Zenon, <2>1 DEF IInv, TypeOK, PendingIsAccountedFor, TimerOwns, StopOwns
  <2>11. /\ RowsAreUnique'
         /\ AllowIsRecorded'
         /\ ToldOnce'
    BY Zenon, <2>1
       DEF IInv, RowsAreUnique, SameDest, AllowIsRecorded, ToldOnce
  <2> QED
    BY Zenon, <2>2, <2>3, <2>4, <2>5, <2>6, <2>7, <2>8, <2>9, <2>10, <2>11 DEF IInv
<1>2. CASE timer[r] = "expire2"
  <2>1. /\ r \in Relays /\ fut[r] = "pending"
        /\ told' \in [Relays -> Seq(Label)] /\ ToldOnce'
        /\ timer[r] = "expire2" /\ r \notin holds /\ stopReq # r
        /\ up /\ \A e \in Deciders : req[e] # r
        /\ fut' = [fut EXCEPT ![r] = "deny"]
        /\ timer' = [timer EXCEPT ![r] = "done"]
        /\ abandoned' = IF row[r] = "pending" THEN abandoned \cup {r}
                        ELSE abandoned
        /\ UNCHANGED <<up, gone, relay, answer, row, holds, step, req, say,
                       stopAt, stopTodo, stopReq>>
    <3>1. /\ r \notin holds /\ fut[r] = "pending" /\ stopReq # r
          /\ \A e \in Deciders : req[e] # r
      BY Zenon, <1>2 DEF IInv, TimerIsAlone, TimerOwns
    <3> QED
      BY Zenon, <1>2, <3>1, Settled DEF TimerExpireFails, GiveUp, IInv, Verdict, Label,
         call, stop
  <2>2. TypeOK'
    BY Zenon, <2>1 DEF IInv, TypeOK, RelayState, Verdict, Label, TimerState,
       CallState, StopState
  <2>3. FreshIsUntouched'
    BY Zenon, <2>1 DEF IInv, TypeOK, FreshIsUntouched
  <2>4. HeldIsUntouched'
    BY SMTT(30), <2>1 DEF IInv, TypeOK, HeldIsUntouched, StopOwns
  <2>5. TimerIsAlone'
    BY Zenon, <2>1 DEF IInv, TypeOK, TimerIsAlone, TimerOwns
  <2>6. CallIsAlone'
    <3> SUFFICES ASSUME NEW e \in Deciders PROVE CallAlone(e)'
      BY Zenon DEF CallIsAlone
    <3>1. CallAlone(e) /\ (step[e] # "idle" => req[e] # r)
      BY Zenon, <2>1 DEF IInv, CallIsAlone, CallAlone
    <3>2. Spares(e)
      BY Zenon, <2>1, <3>1 DEF IInv, TypeOK, CallAlone, Spares, StopOwns
    <3> QED BY Zenon, <3>1, <3>2, SparedCall
  <2>7. StopIsAlone'
    BY Zenon, <2>1 DEF IInv, TypeOK, StopIsAlone
  <2>8. PoppedHasOwner'
    <3> SUFFICES ASSUME NEW s \in Relays, fut'[s] = "pending", s \notin holds'
                 PROVE  \/ TimerOwns(s)' \/ StopOwns(s)'
                        \/ \E e \in Deciders : DeciderOwns(e, s)'
      BY Zenon DEF PoppedHasOwner
    <3>1. fut[s] = "pending" /\ s \notin holds
      BY Zenon, <2>1 DEF IInv, TypeOK
    <3>2. \A e \in Deciders : DeciderOwns(e, s) => DeciderOwns(e, s)'
      BY Zenon, <2>1, <3>1 DEF IInv, TypeOK, DeciderOwns, CallIsAlone, CallAlone,
         Verdict
    <3>3. TimerOwns(s) => TimerOwns(s)'
      BY Zenon, <2>1, <3>1 DEF IInv, TypeOK, TimerOwns
    <3>4. StopOwns(s) => StopOwns(s)'
      BY Zenon, <2>1, <3>1 DEF StopOwns
    <3> QED BY Zenon, <3>1, <3>2, <3>3, <3>4 DEF IInv, PoppedHasOwner
  <2>9. DownIsEmpty'
    BY Zenon, <2>1 DEF IInv, TypeOK, DownIsEmpty, InFlight
  <2>10. AllowIsRecorded'
    BY Zenon, <2>1 DEF IInv, TypeOK, AllowIsRecorded
  <2>11. ToldOnce'
    BY Zenon, <2>1
  <2>12. PendingIsAccountedFor'
    BY Zenon, <2>1
       DEF IInv, TypeOK, PendingIsAccountedFor, TimerOwns, StopOwns
  <2>13. RowsAreUnique'
    BY Zenon, <2>1 DEF IInv, RowsAreUnique, SameDest
  <2> QED BY Zenon, <2>2, <2>3, <2>4, <2>5, <2>6, <2>7, <2>8, <2>9, <2>10, <2>11,
     <2>12, <2>13 DEF IInv
<1> QED BY Zenon, <1>1, <1>2 DEF TimerExpireFails

\* resolve popping a hold: the decider is now its only owner.
LEMMA ResolveKeeps ==
  ASSUME IInv, NEW d \in Deciders, NEW r \in Relays, NEW v \in Verdict,
     Resolve(d, r, v)
  PROVE  IInv'
<1>1. PICK t \in {"cancelling", "done"} : timer' = [timer EXCEPT ![r] = t]
  <2>1. timer[r] \in {"sleeping", "cancelling", "done"}
    BY Zenon DEF Resolve, IInv, HeldIsUntouched
  <2> QED BY Zenon, <2>1 DEF Resolve, CancelTimer
<1>2. /\ step[d] = "idle" /\ req[d] = NoRequest /\ up
      /\ r \in holds /\ fut[r] = "pending" /\ ~StopOwns(r)
      /\ \A e \in Deciders : req[e] # r
      /\ holds' = holds \ {r}
      /\ timer' = [timer EXCEPT ![r] = t]
      /\ step' = [step EXCEPT ![d] = "reap"]
      /\ req' = [req EXCEPT ![d] = r]
      /\ say' = [say EXCEPT ![d] = v]
      /\ UNCHANGED <<up, gone, relay, answer, row, fut, told, stopAt,
                     stopTodo, stopReq, abandoned>>
  <2>1. req[d] = NoRequest
    BY Zenon DEF Resolve, IInv, CallIsAlone, CallAlone
  <2> QED
    BY Zenon, <1>1, <2>1 DEF Resolve, Serving, IInv, HeldIsUntouched, stop
<1>3. TypeOK'
  BY SMTT(30), <1>2, <1>1 DEF IInv, TypeOK, RelayState, Verdict, Label, TimerState,
     CallState, StopState
<1>4. FreshIsUntouched'
  BY SMTT(30), <1>2, <1>1, NoRequestIsNone DEF IInv, TypeOK, FreshIsUntouched
<1>5. HeldIsUntouched'
  BY SMTT(30), <1>2, <1>1, NoRequestIsNone DEF IInv, TypeOK, HeldIsUntouched, StopOwns
<1>6. TimerIsAlone'
  BY <1>2, <1>1, NoRequestIsNone DEF IInv, TypeOK, TimerIsAlone, TimerOwns
<1>7. CallIsAlone'
  <2> SUFFICES ASSUME NEW e \in Deciders PROVE CallAlone(e)'
    BY Zenon DEF CallIsAlone
  <2>1. CallAlone(d) /\ CallAlone(e)
    BY Zenon DEF IInv, CallIsAlone
  <2>2. CASE e = d
    BY <1>2, <1>1, <2>1, <2>2 DEF IInv, TypeOK, CallAlone, StopOwns, Verdict,
       Recorded
  <2>3. CASE e # d
    <3>1. Spares(e)
      BY SMTT(30), <1>2, <1>1, NoRequestIsNone, <2>1, <2>3 DEF IInv, TypeOK, CallAlone,
         Spares, StopOwns
    <3> QED BY Zenon, <2>1, <3>1, SparedCall
  <2> QED BY Zenon, <2>2, <2>3
<1>8. StopIsAlone'
  BY Zenon, <1>2, <1>1 DEF IInv, TypeOK, StopIsAlone
<1>9. PoppedHasOwner'
  <2> SUFFICES ASSUME NEW s \in Relays, fut'[s] = "pending", s \notin holds'
               PROVE  \/ TimerOwns(s)' \/ StopOwns(s)'
                      \/ \E e \in Deciders : DeciderOwns(e, s)'
    BY Zenon DEF PoppedHasOwner
  <2>1. CASE s = r
    BY Zenon, <1>2, <1>1, <2>1 DEF IInv, TypeOK, DeciderOwns
  <2>2. CASE s # r
    <3>1. fut[s] = "pending" /\ s \notin holds
      BY Zenon, <1>2, <1>1, <2>2
    <3>2. \A e \in Deciders : DeciderOwns(e, s) => DeciderOwns(e, s)'
      BY ZenonT(30), <1>2, <1>1, <2>2 DEF IInv, TypeOK, DeciderOwns
    <3>3. TimerOwns(s) => TimerOwns(s)'
      BY Zenon, <1>2, <1>1, <2>2 DEF IInv, TypeOK, TimerOwns
    <3> QED BY Zenon, <1>2, <1>1, <3>1, <3>2, <3>3 DEF IInv, PoppedHasOwner, StopOwns
  <2> QED BY Zenon, <2>1, <2>2
<1>10. DownIsEmpty'
  BY Zenon, <1>2, <1>1 DEF IInv, TypeOK, DownIsEmpty, InFlight
<1>11. PendingIsAccountedFor'
  <2> SUFFICES ASSUME NEW s \in Relays, up, row[s] = "pending"
               PROVE  \/ relay[s] = "created" \/ s \in holds' \/ TimerOwns(s)'
                      \/ StopOwns(s)' \/ (\E e \in Deciders : req'[e] = s)
                      \/ s \in abandoned
    BY Zenon, <1>2, <1>1 DEF PendingIsAccountedFor
  <2>1. CASE s = r
    BY Zenon, <1>2, <1>1, <2>1 DEF IInv, TypeOK
  <2>2. CASE s # r
    <3>1. TimerOwns(s) => TimerOwns(s)'
      BY Zenon, <1>2, <1>1, <2>2 DEF IInv, TypeOK, TimerOwns
    <3>2. \A e \in Deciders : req[e] = s => req'[e] = s
      BY <1>2, <1>1, NoRequestIsNone DEF IInv, TypeOK, CallIsAlone, CallAlone
    <3> QED
      BY Zenon, <1>2, <1>1, <2>2, <3>1, <3>2 DEF IInv, PendingIsAccountedFor, StopOwns
  <2> QED BY Zenon, <2>1, <2>2
<1>12. /\ RowsAreUnique'
       /\ AllowIsRecorded'
       /\ ToldOnce'
  BY Zenon, <1>2, <1>1 DEF IInv, RowsAreUnique, SameDest, AllowIsRecorded, ToldOnce
<1> QED
  BY Zenon, <1>3, <1>4, <1>5, <1>6, <1>7, <1>8, <1>9, <1>10, <1>11, <1>12 DEF IInv

\* What every later step of a resolve() has in common: it moves the call of
\* decider d to at, and touches the Future (to f) and the row (to w) of no
\* request but its own.
CallStep(d, at, f, w) ==
  /\ up /\ step[d] # "idle"
  /\ step' = [step EXCEPT ![d] = at]
  /\ at # "idle" => UNCHANGED <<req, say>>
  /\ at = "idle" => /\ req' = [req EXCEPT ![d] = NoRequest]
                    /\ say' = [say EXCEPT ![d] = "deny"]
  /\ CallAlone(d)'
  /\ fut' = [fut EXCEPT ![req[d]] = f]
  /\ f = "pending" => at \in {"reap", "decide", "decided", "missed"}
  /\ f = "allow" => w \in {"allowed", "deleted"}
  /\ row' = [row EXCEPT ![req[d]] = w]
  /\ w = row[req[d]] \/ (row[req[d]] = "pending" /\ w \in Label)
  /\ w = "pending" /\ at = "idle" => req[d] \in abandoned'
  /\ abandoned \subseteq abandoned' /\ abandoned' \subseteq Relays
  /\ told' \in [Relays -> Seq(Label)] /\ ToldOnce'
  /\ UNCHANGED <<up, gone, relay, answer, holds, timer, stop>>

\* Such a step preserves the invariant.
LEMMA CallMoves ==
  ASSUME IInv, NEW d \in Deciders, NEW at \in CallState,
         NEW f \in Verdict \cup {"pending"}, NEW w, CallStep(d, at, f, w)
  PROVE  IInv'
<1> USE DEF CallStep
<1> DEFINE q == req[d]
<1>1. /\ q \in Relays /\ q \notin holds /\ ~StopOwns(q)
      /\ timer[q] \in {"cancelling", "done"}
      /\ fut[q] \in Verdict \cup {"pending"}
      /\ \A e \in Deciders : e # d => req[e] # q
  BY ZenonT(30) DEF IInv, CallIsAlone, CallAlone, TypeOK, CallState
<1>2. UNCHANGED <<stopAt, stopTodo, stopReq>>
  BY Zenon DEF stop
<1>3. \A e \in Deciders :
        e # d => step'[e] = step[e] /\ req'[e] = req[e] /\ say'[e] = say[e]
  BY Zenon DEF IInv, TypeOK
<1>4. req'[d] \in {q, NoRequest} /\ (at # "idle" => req'[d] = q)
  BY Zenon DEF IInv, TypeOK
<1>5. \A s \in Relays : s # q => fut'[s] = fut[s] /\ row'[s] = row[s]
  BY Zenon DEF IInv, TypeOK
<1>6. fut'[q] = f /\ row'[q] = w
  BY Zenon, <1>1 DEF IInv, TypeOK
<1>7. TypeOK'
  BY Zenon, <1>1, <1>2 DEF IInv, TypeOK, Verdict, Label
<1>8. relay[q] \in {"wait", "done", "cancelled"}
  BY Zenon, <1>1 DEF IInv, TypeOK, FreshIsUntouched, RelayState, Verdict
<1>9. FreshIsUntouched'
  BY SMTT(60), <1>2, <1>3, <1>4, <1>5, <1>8, NoRequestIsNone DEF IInv, FreshIsUntouched
<1>10. HeldIsUntouched'
  <2> SUFFICES ASSUME NEW s \in holds
               PROVE  /\ fut'[s] = "pending"
                      /\ row'[s] \in {"pending", "deleted"}
                      /\ \A e \in Deciders : req'[e] # s
                      /\ ~StopOwns(s)'
                      /\ \/ timer'[s] = "sleeping"
                         \/ /\ stopAt' = "reap" /\ stopReq' = s
                            /\ timer'[s] \in {"cancelling", "done"}
    BY Zenon DEF HeldIsUntouched
  <2>1. s \in Relays /\ s # q
    BY Zenon, <1>1 DEF IInv, TypeOK
  <2>2. \A e \in Deciders : req'[e] # s
    BY SMTT(60), <1>3, <1>4, <2>1, NoRequestIsNone DEF IInv, HeldIsUntouched
  <2> QED BY Zenon, <1>2, <1>5, <2>1, <2>2 DEF IInv, HeldIsUntouched, StopOwns
<1>11. TimerIsAlone'
  <2>1. ASSUME NEW s \in Relays, TimerOwns(s)
        PROVE  /\ fut'[s] = "pending" /\ s \notin holds /\ stopReq # s
               /\ \A e \in Deciders : req'[e] # s
    BY SMTT(30), <1>1, <1>3, <1>4, <1>5, <2>1, NoRequestIsNone
       DEF IInv, TimerIsAlone, TimerOwns
  <2> QED BY Zenon, <1>2, <2>1 DEF IInv, TimerIsAlone, TimerOwns
<1>12. CallIsAlone'
  <2> SUFFICES ASSUME NEW e \in Deciders, e # d PROVE CallAlone(e)'
    BY Zenon DEF CallIsAlone
  <2>1. CallAlone(e)
    BY Zenon DEF IInv, CallIsAlone
  <2>2. step[e] # "idle" =>
          /\ req[e] \in Relays /\ req[e] # q
          /\ \A g \in Deciders : g # e => req'[g] # req[e]
    BY SMTT(60), <1>1, <1>3, <1>4, <2>1, NoRequestIsNone DEF CallAlone
  <2>3. Spares(e)
    BY Zenon, <1>2, <1>3, <1>5, <2>1, <2>2 DEF CallAlone, Spares, StopOwns
  <2> QED BY Zenon, <2>1, <2>3, SparedCall
<1>13. StopIsAlone'
  BY Zenon, <1>1, <1>2, <1>5 DEF IInv, StopIsAlone, StopOwns
<1>14. PoppedHasOwner'
  <2> SUFFICES ASSUME NEW s \in Relays, fut'[s] = "pending", s \notin holds
               PROVE  \/ TimerOwns(s)' \/ StopOwns(s)'
                      \/ \E e \in Deciders : DeciderOwns(e, s)'
    BY Zenon DEF PoppedHasOwner
  <2>1. CASE s = q
    <3>1. f = "pending" /\ at \in {"reap", "decide", "decided", "missed"}
      BY Zenon, <1>6, <2>1
    <3>2. req'[d] = q /\ step'[d] = at
      BY Zenon, <1>4, <3>1 DEF IInv, TypeOK
    <3> QED BY Zenon, <2>1, <3>1, <3>2 DEF DeciderOwns
  <2>2. CASE s # q
    <3>1. fut[s] = "pending"
      BY Zenon, <1>5, <2>2
    <3>2. \A e \in Deciders : DeciderOwns(e, s) => DeciderOwns(e, s)'
      BY Zenon, <1>3, <2>2 DEF DeciderOwns
    <3> QED BY Zenon, <1>2, <3>1, <3>2 DEF IInv, PoppedHasOwner, TimerOwns, StopOwns
  <2> QED BY Zenon, <2>1, <2>2
<1>15. RowsAreUnique'
  <2>1. \A s \in Relays : row'[s] \in {row[s], "allowed", "denied", "expired"}
    BY Zenon, <1>5, <1>6 DEF Label
  <2> QED BY Zenon, <2>1, RowsShrink DEF IInv
<1>16. DownIsEmpty'
  BY Zenon DEF DownIsEmpty
<1>17. AllowIsRecorded'
  BY Zenon, <1>5, <1>6 DEF IInv, AllowIsRecorded
<1>18. PendingIsAccountedFor'
  <2> SUFFICES ASSUME NEW s \in Relays, row'[s] = "pending"
               PROVE  \/ relay[s] = "created" \/ s \in holds
                      \/ TimerOwns(s)' \/ StopOwns(s)'
                      \/ \E e \in Deciders : req'[e] = s
                      \/ s \in abandoned'
    BY Zenon DEF PendingIsAccountedFor
  <2>1. CASE s = q
    BY Zenon, <1>4, <1>6, <2>1
  <2>2. CASE s # q
    <3>1. row[s] = "pending"
      BY Zenon, <1>5, <2>2
    <3>2. \A e \in Deciders : req[e] = s => req'[e] = s
      BY Zenon, <1>3, <2>2
    <3> QED
      BY Zenon, <1>2, <3>1, <3>2 DEF IInv, PendingIsAccountedFor, TimerOwns, StopOwns
  <2> QED BY Zenon, <2>1, <2>2
<1> QED
  BY Zenon, <1>7, <1>9, <1>10, <1>11, <1>12, <1>13, <1>14, <1>15, <1>16,
     <1>17, <1>18
     DEF IInv

\* What a resolve() in progress knows of its request.
LEMMA CallKnows ==
  ASSUME IInv, NEW d \in Deciders, step[d] # "idle"
  PROVE  /\ CallAlone(d) /\ req[d] \in Relays
         /\ fut[req[d]] \in Verdict \cup {"pending"}
         /\ fut' = fut => fut' = [fut EXCEPT ![req[d]] = fut[req[d]]]
         /\ row' = row => row' = [row EXCEPT ![req[d]] = row[req[d]]]
         /\ fut[req[d]] = "allow" => row[req[d]] \in {"allowed", "deleted"}
         /\ told' = told => told' \in [Relays -> Seq(Label)]
         /\ told' = told /\ fut' = fut => ToldOnce'
<1>1. CallAlone(d)
  BY Zenon DEF IInv, CallIsAlone
<1>2. req[d] \in Relays /\ fut[req[d]] \in Verdict \cup {"pending"}
  BY Zenon, <1>1 DEF CallAlone, IInv, TypeOK, CallState
<1>3. told' = told /\ fut' = fut => ToldOnce'
  BY Zenon DEF IInv, ToldOnce
<1> QED BY Zenon, <1>1, <1>2, <1>3 DEF IInv, TypeOK, AllowIsRecorded

\* _cancel_hold_task returns, or decide finds the row no longer pending.
LEMMA CallGoesOn ==
  ASSUME IInv, NEW d \in Deciders,
         Reaped(d) \/ (Decide(d) /\ row[req[d]] # "pending")
  PROVE  IInv'
<1>1. PICK at \in {"decide", "missed"} :
        /\ step' = [step EXCEPT ![d] = at]
        /\ step[d] \in {"reap", "decide"} /\ up
        /\ at = "missed" => row[req[d]] # "pending"
        /\ UNCHANGED <<up, gone, relay, answer, row, hold, req, say, stop,
                       abandoned>>
  BY Zenon DEF Reaped, Decide, Goto
<1>2. CallAlone(d) /\ req[d] \in Relays
  BY Zenon, <1>1, CallKnows
<1>3. CallAlone(d)'
  BY Zenon, <1>1, <1>2 DEF IInv, TypeOK, CallAlone, hold, stop, StopOwns
<1>4. fut[req[d]] = "pending"
  BY Zenon, <1>1, <1>2 DEF CallAlone
<1>5. /\ fut' = [fut EXCEPT ![req[d]] = "pending"]
      /\ row' = [row EXCEPT ![req[d]] = row[req[d]]]
      /\ told' \in [Relays -> Seq(Label)] /\ ToldOnce'
  BY Zenon, <1>1, <1>4, CallKnows DEF hold
<1>6. CallStep(d, at, "pending", row[req[d]])
  BY Zenon, <1>1, <1>3, <1>5 DEF CallStep, hold, IInv, TypeOK
<1>7. at \in CallState
  BY Zenon DEF CallState
<1> QED BY Zenon, <1>6, <1>7, CallMoves

\* decide recording the verdict.
LEMMA DecideKeeps ==
  ASSUME IInv, NEW d \in Deciders, Decide(d), row[req[d]] = "pending"
  PROVE  IInv'
<1>1. /\ step' = [step EXCEPT ![d] = "decided"] /\ step[d] = "decide" /\ up
      /\ row' = [row EXCEPT ![req[d]] = Recorded(say[d])]
      /\ UNCHANGED <<up, gone, relay, answer, hold, req, say, stop, abandoned>>
  BY Zenon DEF Decide, Goto
<1>2. CallAlone(d) /\ req[d] \in Relays /\ fut[req[d]] = "pending"
  BY Zenon, <1>1, CallKnows DEF CallAlone
<1>3. CallAlone(d)'
  BY Zenon, <1>1, <1>2 DEF IInv, TypeOK, CallAlone, hold, stop, StopOwns, Recorded
<1>4. Recorded(say[d]) \in Label
  BY Zenon DEF Recorded, Label
<1>5. /\ fut' = [fut EXCEPT ![req[d]] = "pending"]
      /\ told' \in [Relays -> Seq(Label)] /\ ToldOnce'
  BY Zenon, <1>1, <1>2, CallKnows DEF hold
<1>6. CallStep(d, "decided", "pending", Recorded(say[d]))
  BY Zenon, <1>1, <1>2, <1>3, <1>4, <1>5 DEF CallStep, hold, IInv, TypeOK
<1>7. "decided" \in CallState
  BY Zenon DEF CallState
<1> QED BY Zenon, <1>6, <1>7, CallMoves

\* The steps that set the Future: the recorded verdict, or a deny when decide
\* raised, the row was gone, or the resolve was cancelled.
LEMMA CallSettles ==
  ASSUME IInv, NEW d \in Deciders,
         \/ DecideFails(d) \/ FinishResolve(d) \/ FinishGone(d)
         \/ CancelDecider(d) /\ fut[req[d]] = "pending"
  PROVE  IInv'
<1>1. PICK at \in {"idle", "after", "strand1", "rescue1"}, v \in Verdict,
           l \in Label :
        /\ step' = [step EXCEPT ![d] = at] /\ Settle(req[d], v, l)
        /\ v = "allow" => l = "allowed"
        /\ v = "allow" => row[req[d]] \in {"allowed", "deleted"}
        /\ v = "deny" => l # "allowed"
        /\ at \in {"idle", "after"} => row[req[d]] # "pending"
        /\ IF at = "idle"
           THEN /\ req' = [req EXCEPT ![d] = NoRequest]
                /\ say' = [say EXCEPT ![d] = "deny"]
           ELSE UNCHANGED <<req, say>>
  <2>1. CASE DecideFails(d)
    BY Zenon, <2>1 DEF DecideFails, Goto, Verdict, Label
  <2>2. CASE FinishResolve(d)
    <3>1. CallAlone(d) /\ step[d] = "decided" /\ say[d] \in Verdict
      BY Zenon, <2>2, CallKnows DEF FinishResolve, IInv, TypeOK
    <3>2. /\ Recorded(say[d]) \in Label
          /\ row[req[d]] \in {Recorded(say[d]), "deleted"}
          /\ row[req[d]] # "pending"
          /\ say[d] = "allow" => Recorded(say[d]) = "allowed"
          /\ say[d] = "deny" => Recorded(say[d]) = "denied"
      BY Zenon, <3>1 DEF CallAlone, Recorded, Label
    <3> QED BY Zenon, <2>2, <3>1, <3>2 DEF FinishResolve, Goto
  <2>3. CASE FinishGone(d)
    <3>1. row[req[d]] # "pending"
      BY Zenon, <2>3, CallKnows DEF FinishGone, CallAlone
    <3> QED BY Zenon, <2>3, <3>1 DEF FinishGone, Return, Verdict, Label
  <2>4. CASE CancelDecider(d) /\ fut[req[d]] = "pending"
    BY Zenon, <2>4 DEF CancelDecider, FailClosePopped, Goto, Verdict, Label
  <2> QED BY Zenon, <2>1, <2>2, <2>3, <2>4
<1>2. /\ step[d] # "idle" /\ up
      /\ UNCHANGED <<up, gone, relay, answer, row, holds, timer, stop,
                     abandoned>>
  BY Zenon DEF DecideFails, FinishResolve, FinishGone, CancelDecider
<1>3. CallAlone(d) /\ req[d] \in Relays
  BY Zenon, <1>2, CallKnows
<1>4. fut[req[d]] = "pending"
  BY Zenon, <1>3 DEF CallAlone, DecideFails, FinishResolve, FinishGone
<1>5. /\ fut' = [fut EXCEPT ![req[d]] = v]
      /\ told' \in [Relays -> Seq(Label)] /\ ToldOnce'
  BY Zenon, <1>1, <1>3, <1>4, Settled DEF IInv
<1>6. CallAlone(d)'
  BY Zenon, <1>1, <1>2, <1>3, <1>5, NoRequestIsNone
     DEF IInv, TypeOK, CallAlone, stop, StopOwns
<1>7. row' = [row EXCEPT ![req[d]] = row[req[d]]]
  BY Zenon, <1>2, CallKnows
<1>8. CallStep(d, at, v, row[req[d]])
  BY Zenon, <1>1, <1>2, <1>5, <1>6, <1>7
     DEF CallStep, IInv, TypeOK, Verdict
<1>9. at \in CallState
  BY Zenon DEF CallState
<1> QED BY Zenon, <1>8, <1>9, CallMoves

\* The steps after the Future is set: resolve returns, the row is expired, or
\* the expiry raises once or twice, or the resolve is cancelled.
LEMMA CallEnds ==
  ASSUME IInv, NEW d \in Deciders,
         \/ AfterVerdict(d) \/ DeciderExpires(d) \/ DeciderExpireFails(d)
         \/ CancelDecider(d) /\ fut[req[d]] # "pending"
  PROVE  IInv'
<1>1. step[d] # "idle" /\ up
  BY Zenon DEF AfterVerdict, DeciderExpires, DeciderExpireFails, CancelDecider
<1>2. CallAlone(d) /\ req[d] \in Relays /\ fut[req[d]] \in Verdict
  BY Zenon, <1>1, CallKnows DEF CallAlone, AfterVerdict, DeciderExpires,
     DeciderExpireFails
<1>3. /\ fut' = fut /\ told' = told
      /\ UNCHANGED <<up, gone, relay, answer, holds, timer, stop>>
  BY Zenon DEF AfterVerdict, DeciderExpires, DeciderExpireFails, CancelDecider,
     FailClosePopped, hold
<1>4. PICK at \in {"idle", "strand2", "rescue1", "rescue2"} :
        /\ step' = [step EXCEPT ![d] = at]
        /\ IF at = "idle"
           THEN /\ req' = [req EXCEPT ![d] = NoRequest]
                /\ say' = [say EXCEPT ![d] = "deny"]
           ELSE UNCHANGED <<req, say>>
  BY Zenon DEF AfterVerdict, DeciderExpires, DeciderExpireFails, CancelDecider, Goto,
     Return
<1>5. PICK w \in {row[req[d]], "expired"} :
        /\ row' = [row EXCEPT ![req[d]] = w]
        /\ w # row[req[d]] => row[req[d]] = "pending"
        /\ w = "pending" /\ step'[d] = "idle" => req[d] \in abandoned'
  <2>1. CASE AfterVerdict(d)
    BY Zenon, <1>1, <1>2, <2>1, CallKnows DEF AfterVerdict, CallAlone
  <2>2. CASE DeciderExpires(d)
    BY Zenon, <2>2 DEF DeciderExpires, ExpirePending
  <2>3. CASE DeciderExpireFails(d)
    <3>1. row' = [row EXCEPT ![req[d]] = row[req[d]]]
      BY Zenon, <1>1, <2>3, CallKnows DEF DeciderExpireFails
    <3>2. step \in [Deciders -> CallState]
      BY Zenon DEF IInv, TypeOK
    <3>3. row[req[d]] = "pending" /\ step'[d] = "idle"
            => req[d] \in abandoned'
      BY Zenon, <2>3, <3>2 DEF DeciderExpireFails, Goto, GiveUp
    <3> QED BY Zenon, <3>1, <3>3
  <2>4. CASE CancelDecider(d) /\ fut[req[d]] # "pending"
    <3>1. row' = [row EXCEPT ![req[d]] = row[req[d]]]
      BY Zenon, <1>1, <2>4, CallKnows DEF CancelDecider
    <3>2. step \in [Deciders -> CallState]
      BY Zenon DEF IInv, TypeOK
    <3>3. step'[d] # "idle"
      BY Zenon, <2>4, <3>2 DEF CancelDecider, Goto
    <3> QED BY Zenon, <3>1, <3>3
  <2> QED BY Zenon, <2>1, <2>2, <2>3, <2>4
<1>6. abandoned \subseteq abandoned' /\ abandoned' \subseteq Relays
  BY Zenon, <1>2
     DEF AfterVerdict, DeciderExpires, DeciderExpireFails, CancelDecider,
     GiveUp, IInv, TypeOK
<1>7. CallAlone(d)'
  BY Zenon, <1>1, <1>2, <1>3, <1>4, <1>5, NoRequestIsNone
     DEF IInv, TypeOK, CallAlone, stop, StopOwns
<1>8. /\ fut' = [fut EXCEPT ![req[d]] = fut[req[d]]]
      /\ told' \in [Relays -> Seq(Label)] /\ ToldOnce'
      /\ fut[req[d]] = "allow" => w \in {"allowed", "deleted"}
  BY Zenon, <1>1, <1>3, <1>5, CallKnows
<1>9. step'[d] = at
  BY Zenon, <1>4 DEF IInv, TypeOK
<1>10. CallStep(d, at, fut[req[d]], w)
  BY Zenon, <1>1, <1>2, <1>3, <1>4, <1>5, <1>6, <1>7, <1>8, <1>9
     DEF CallStep, Verdict, Label
<1>11. at \in CallState
  BY Zenon DEF CallState
<1> QED BY Zenon, <1>2, <1>10, <1>11, CallMoves
=============================================================================
