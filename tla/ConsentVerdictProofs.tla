------------------------ MODULE ConsentVerdictProofs ------------------------
(***************************************************************************)
(* The recorded verdicts, for any rows, users, calls of revoke and         *)
(* sockets.                                                                *)
(*                                                                         *)
(* Every step of ConsentVerdict is a step of ConsentPolicy.  Three facts   *)
(* are needed beside the types: a row that was not asked for has no        *)
(* decider, a revoke under way is one that was asked for, and what the     *)
(* retention sweep is about to delete without looking again is out of      *)
(* effect for good.                                                        *)
(*                                                                         *)
(* The answer of a revoke and the domain lists need more: where a verdict  *)
(* and a drop can be between klangkd and the sidecar, what an ack stands   *)
(* for, and who is about to change a list.                                 *)
(***************************************************************************)
EXTENDS ConsentVerdict, TLAPS

Call == [step : Steps, row : Rows \cup {NoRow}, ok : BOOLEAN,
         via : {"none", "ack"}, dropped : BOOLEAN, heard : BOOLEAN]

PolicyInv ==
  /\ dec \in [Rows -> Decisions]
  /\ dur \in [Rows -> Durations \cup {"null"}]
  /\ by \in [Rows -> Users \cup {NoUser}]
  /\ call \in [Calls -> Call]
  /\ \A q \in Rows : dec[q] = "none" => by[q] = NoUser
  /\ \A c \in Calls : Busy(c) => call[c].row \in Rows \cap asked
  /\ \A q \in sweep.decided : q \in Rows /\ Effect(q) = "out"

Span(q) == IF InEffect(q) THEN dur[q] ELSE "null"

-----------------------------------------------------------------------------
(* How a row moves, in the terms of the policy.                            *)

\* A row nothing happened to.
LEMMA Keeps ==
  ASSUME NEW q \in Rows, Effect(q)' = Effect(q), Span(q)' = Span(q)
  PROVE  Policy!Keep(q)
BY Zenon DEF Policy!Keep, Span

\* A verdict comes into effect.
LEMMA Enters ==
  ASSUME NEW q \in Rows, Effect(q) = "new", Effect(q)' = "in", InEffect(q)', dur'[q] \in Policy!Spans
  PROVE  Policy!Enter(q)
BY Zenon DEF Policy!Enter

\* A request ends without a verdict in effect.
LEMMA Closes ==
  ASSUME NEW q \in Rows, Effect(q) = "new", Effect(q)' = "out", ~InEffect(q)'
  PROVE  Policy!Close(q)
BY Zenon DEF Policy!Close

\* A verdict goes out of effect.
LEMMA Ends ==
  ASSUME NEW q \in Rows, Effect(q) = "in", Effect(q)' = "out", ~InEffect(q)'
  PROVE  Policy!End(q)
BY Zenon DEF Policy!End

\* A row whose columns and clock do not change.
LEMMA Unmoved ==
  ASSUME NEW q \in Rows, dec'[q] = dec[q], dur'[q] = dur[q], by'[q] = by[q],
         q \in lapsed' <=> q \in lapsed
  PROVE  Policy!Keep(q)
<1>1. InEffect(q)' <=> InEffect(q)
  BY Zenon DEF InEffect, Decided, DurationInEffect
<1>2. Effect(q)' = Effect(q) /\ Span(q)' = Span(q)
  BY Zenon, <1>1 DEF Effect, Span
<1> QED BY Zenon, <1>2, Keeps

\* A verdict out of effect that is marked or deleted.
LEMMA StaysOut ==
  ASSUME NEW q \in Rows, Effect(q) = "out", ~InEffect(q)',
         dec'[q] \notin {"none", "pending"}
  PROVE  Policy!Keep(q)
<1>1. ~InEffect(q)
  BY Zenon DEF Effect
<1>2. Effect(q)' = "out" /\ Span(q)' = Span(q)
  BY Zenon, <1>1 DEF Effect, Span
<1> QED BY Zenon, <1>2, Keeps

\* A policy step never brings back a verdict that is out of effect.
LEMMA OutIsForGood ==
  ASSUME Policy!Next, NEW q \in Rows, Effect(q) = "out"
  PROVE  Effect(q)' = "out"
<1>1. Policy!Keep(q) \/ Policy!Enter(q) \/ Policy!Close(q) \/ Policy!End(q)
  BY Zenon DEF Policy!Next, Policy!One, Policy!Tidy, Policy!Ask, Policy!Restart, Policy!Offboard, Policy!Keep
<1> QED BY Zenon, <1>1 DEF Policy!Keep, Policy!Enter, Policy!Close, Policy!End

-----------------------------------------------------------------------------
(* Every step is a step of the policy.                                     *)

\* A step that leaves the rows alone.
LEMMA RowsUnmoved ==
  ASSUME UNCHANGED rowVars, UNCHANGED left
  PROVE  UNCHANGED asked => Policy!Next
<1>1. \A q \in Rows : Policy!Keep(q)
  BY Zenon, Unmoved DEF rowVars
<1> QED BY Zenon, <1>1 DEF Policy!Next, Policy!Tidy

\* A step that moves only row q, and q as the policy allows.
LEMMA OneMoves ==
  ASSUME NEW q \in Rows, UNCHANGED asked, UNCHANGED left,
         \A p \in Rows \ {q} : Policy!Keep(p),
         \/ Policy!Keep(q) \/ Policy!Close(q) \/ Policy!Enter(q)
         \/ Policy!End(q) /\ (Span(q) = "timed" \/ q \in asked)
  PROVE  Policy!Next
<1>1. CASE Policy!Keep(q) \/ Policy!Close(q)
  BY Zenon, <1>1 DEF Policy!Next, Policy!Tidy
<1>2. CASE Policy!Enter(q)
  BY Zenon, <1>2 DEF Policy!Next, Policy!One
<1>3. CASE Policy!End(q) /\ (Span(q) = "timed" \/ q \in asked)
  BY Zenon, <1>3 DEF Policy!Next, Policy!One, Span
<1> QED BY Zenon, <1>1, <1>2, <1>3

\* The steps of one row.
LEMMA RowRefines ==
  ASSUME PolicyInv, NEW q \in Rows, RowStep(q)
  PROVE  Policy!Next
<1>1. CASE Ask(q)
  <2>1. \A p \in Rows \ {q} : Policy!Keep(p)
    BY Zenon, <1>1, Unmoved DEF Ask, PolicyInv
  <2>2. dec[q] = "none" /\ dec'[q] = "pending"
    BY Zenon, <1>1 DEF Ask, PolicyInv
  <2>3. Effect(q)' = Effect(q) /\ Span(q)' = Span(q)
    BY Zenon, <2>2 DEF Effect, Span, InEffect, Decided, Verdicts
  <2> QED BY Zenon, <1>1, <2>1, <2>3, Keeps, OneMoves DEF Ask, histVars
<1>2. ASSUME NEW d \in Verdicts, NEW t \in Durations, NEW u \in Users, Decide(q, d, t, u)
      PROVE  Policy!Next
  <2>1. \A p \in Rows \ {q} : Policy!Keep(p)
    BY Zenon, <1>2, Unmoved DEF Decide, PolicyInv
  <2>2. dec[q] = "pending" /\ dec'[q] = d /\ dur'[q] = t /\ by'[q] = u
    BY Zenon, <1>2 DEF Decide, PolicyInv
  <2>3. Effect(q) = "new"
    BY Zenon, <2>2 DEF Effect
  <2>4. CASE InEffect(q)'
    <3>1. Effect(q)' = "in"
      BY Zenon, <2>2, <2>4 DEF Effect, Verdicts
    <3>2. t \in Policy!Spans
      BY Zenon, <2>2, <2>4 DEF InEffect, DurationInEffect, Policy!Spans
    <3> QED BY Zenon, <1>2, <2>1, <2>2, <2>3, <2>4, <3>1, <3>2, Enters, OneMoves DEF Decide
  <2>5. CASE ~InEffect(q)'
    <3>1. Effect(q)' = "out"
      BY Zenon, <2>2, <2>5 DEF Effect, Verdicts
    <3> QED BY Zenon, <1>2, <2>1, <2>3, <2>5, <3>1, Closes, OneMoves DEF Decide
  <2> QED BY Zenon, <2>4, <2>5
<1>3. CASE Expire(q)
  <2>1. \A p \in Rows \ {q} : Policy!Keep(p)
    BY Zenon, <1>3, Unmoved DEF Expire, PolicyInv
  <2>2. dec[q] = "pending" /\ dec'[q] = "expired"
    BY Zenon, <1>3 DEF Expire, PolicyInv
  <2>3. Effect(q) = "new" /\ Effect(q)' = "out" /\ ~InEffect(q)'
    BY Zenon, <2>2 DEF Effect, InEffect, Decided, Verdicts
  <2> QED BY Zenon, <1>3, <2>1, <2>3, Closes, OneMoves DEF Expire, histVars
<1>4. ASSUME NEW d \in Verdicts, RecordStatic(q, d) PROVE Policy!Next
  <2>1. \A p \in Rows \ {q} : Policy!Keep(p)
    BY Zenon, <1>4, Unmoved DEF RecordStatic, PolicyInv
  <2>2. dec[q] = "none" /\ dec'[q] = d /\ by'[q] = NoUser
    BY Zenon, <1>4 DEF RecordStatic, PolicyInv
  <2>3. Effect(q) = "new" /\ Effect(q)' = "out" /\ ~InEffect(q)'
    BY Zenon, <2>2 DEF Effect, InEffect, Verdicts
  <2> QED BY Zenon, <1>4, <2>1, <2>3, Closes, OneMoves DEF RecordStatic, histVars
<1>5. CASE Lapse(q)
  <2>1. \A p \in Rows \ {q} : Policy!Keep(p)
    BY Zenon, <1>5, Unmoved DEF Lapse
  <2>2. dec'[q] = dec[q] /\ dur'[q] = "timed" /\ dur[q] = "timed" /\ q \in lapsed'
    BY Zenon, <1>5 DEF Lapse
  <2>3. ~InEffect(q)'
    BY Zenon, <2>2 DEF InEffect, DurationInEffect
  <2>4. CASE InEffect(q)
    <3>1. Effect(q) = "in" /\ Effect(q)' = "out" /\ Span(q) = "timed"
      BY Zenon, <2>2, <2>3, <2>4 DEF Effect, Span, InEffect, Decided, Verdicts
    <3> QED BY Zenon, <1>5, <2>1, <2>3, <3>1, Ends, OneMoves DEF Lapse, histVars
  <2>5. CASE ~InEffect(q)
    <3>1. Effect(q)' = Effect(q) /\ Span(q)' = Span(q)
      BY Zenon, <2>2, <2>3, <2>5 DEF Effect, Span
    <3> QED BY Zenon, <1>5, <2>1, <3>1, Keeps, OneMoves DEF Lapse, histVars
  <2> QED BY Zenon, <2>4, <2>5
<1>6. CASE Persist(q) \/ PersistFails(q) \/ Relay(q) \/ VerdictLapses(q)
  BY Zenon, <1>6, RowsUnmoved DEF Persist, PersistFails, Relay, VerdictLapses, histVars
<1> QED BY Zenon, <1>1, <1>2, <1>3, <1>4, <1>5, <1>6 DEF RowStep

\* The steps of a revoke.
LEMMA CallRefines ==
  ASSUME PolicyInv, NEW c \in Calls, CallStep(c)
  PROVE  Policy!Next
<1>1. ASSUME NEW q \in Rows, RevokeReads(c, q) PROVE Policy!Next
  <2>1. UNCHANGED rowVars /\ UNCHANGED left
    BY Zenon, <1>1 DEF RevokeReads
  <2>2. CASE Decided(q)
    <3>1. \A p \in Rows : Effect(p)' = Effect(p) /\ Span(p)' = Span(p)
      BY Zenon, <2>1 DEF rowVars, Effect, Span, InEffect, Decided, DurationInEffect
    <3>2. asked' = asked \cup {q}
      BY Zenon, <1>1, <2>2 DEF RevokeReads
    <3>3. Policy!Ask(q)
      BY Zenon, <2>1, <3>1, <3>2 DEF Policy!Ask, Span
    <3> QED BY Zenon, <3>3 DEF Policy!Next
  <2>3. CASE ~Decided(q)
    BY Zenon, <1>1, <2>1, <2>3, RowsUnmoved DEF RevokeReads
  <2> QED BY Zenon, <2>2, <2>3
<1>2. CASE RevokeMarks(c) /\ Decided(call[c].row)
  <2>1. PICK q \in Rows : q = call[c].row /\ q \in asked
    BY Zenon, <1>2 DEF PolicyInv, Busy, RevokeMarks
  <2>2. dec' = [dec EXCEPT ![q] = "revoked"] /\ UNCHANGED <<dur, by, lapsed, asked, left>>
    BY Zenon, <1>2, <2>1 DEF RevokeMarks, histVars
  <2>3. \A p \in Rows \ {q} : Policy!Keep(p)
    BY Zenon, <2>2, Unmoved DEF PolicyInv
  <2>4. dec'[q] = "revoked"
    BY Zenon, <2>1, <2>2 DEF PolicyInv
  <2>5. ~InEffect(q)' /\ Effect(q)' = "out"
    BY Zenon, <2>4 DEF InEffect, Decided, Verdicts, Effect
  <2>6. dec[q] \in Verdicts
    BY Zenon, <1>2, <2>1 DEF Decided
  <2>7. CASE InEffect(q)
    BY Zenon, <2>1, <2>2, <2>3, <2>5, <2>6, <2>7, Ends, OneMoves DEF Effect, Verdicts
  <2>8. CASE ~InEffect(q)
    BY Zenon, <2>1, <2>2, <2>3, <2>4, <2>5, <2>6, <2>8, StaysOut, OneMoves DEF Effect, Verdicts
  <2> QED BY Zenon, <2>7, <2>8
<1>3. CASE RevokeMarks(c) /\ ~Decided(call[c].row)
  BY Zenon, <1>3, RowsUnmoved DEF RevokeMarks, rowVars, histVars
<1>4. CASE \/ RevokeSends(c) \/ RevokeSkips(c) \/ (\E s \in Socks : AckArrives(s, c))
           \/ AckTimesOut(c)
  BY Zenon, <1>4, RowsUnmoved DEF RevokeSends, RevokeSkips, AckArrives, AckTimesOut, histVars
<1>5. CASE RevokeRereads(c) \/ RevokeShares(c) \/ RevokeRetracts(c) \/ RetractFails(c)
  BY Zenon, <1>5, RowsUnmoved DEF RevokeRereads, RevokeShares, RevokeRetracts, RetractFails,
     histVars
<1> QED BY Zenon, <1>1, <1>2, <1>3, <1>4, <1>5 DEF CallStep

\* The steps of the sidecar and its socket.
LEMMA LinkRefines ==
  ASSUME LinkStep
  PROVE  Policy!Next
BY Zenon, RowsUnmoved DEF LinkStep, Connect, HandlerEnds, Disconnect, SidecarApplies,
   SidecarDrops, histVars

\* The container, the retention sweep, a deleted user, a restart of klangkd.
LEMMA HouseRefines ==
  ASSUME PolicyInv, HouseStep
  PROVE  Policy!Next
<1>1. CASE ContainerStops \/ StartReads \/ \E old \in SUBSET Rows : PruneReads(old)
  BY Zenon, <1>1, RowsUnmoved DEF ContainerStops, StartReads, PruneReads, histVars
<1>2. CASE ContainerStarts
  <2>1. ASSUME NEW q \in Rows
        PROVE  Policy!Keep(q) \/ (Span(q) = "tilrestart" /\ Policy!End(q))
    <3>1. dur'[q] = dur[q] /\ by'[q] = by[q] /\ (q \in lapsed' <=> q \in lapsed)
      BY Zenon, <1>2 DEF ContainerStarts
    <3>2. CASE Decided(q) /\ dur[q] = "tilrestart"
      <4>1. dec'[q] = "gone"
        BY Zenon, <1>2, <3>2 DEF ContainerStarts
      <4>2. ~InEffect(q)' /\ Effect(q)' = "out"
        BY Zenon, <4>1 DEF InEffect, Decided, Verdicts, Effect
      <4>3. InEffect(q) => Effect(q) = "in" /\ Span(q) = "tilrestart"
        BY Zenon, <3>2 DEF Effect, Span, Decided, Verdicts
      <4>4. ~InEffect(q) => Effect(q) = "out"
        BY Zenon, <3>2 DEF Effect, Decided, Verdicts
      <4> QED BY Zenon, <4>1, <4>2, <4>3, <4>4, Ends, StaysOut
    <3>3. CASE ~(Decided(q) /\ dur[q] = "tilrestart")
      <4>1. dec'[q] = dec[q]
        BY Zenon, <1>2, <3>3 DEF ContainerStarts
      <4> QED BY Zenon, <3>1, <4>1, Unmoved
    <3> QED BY Zenon, <3>2, <3>3
  <2>2. Policy!Restart
    BY Zenon, <1>2, <2>1 DEF Policy!Restart, Span, ContainerStarts, histVars
  <2> QED BY Zenon, <2>2 DEF Policy!Next
<1>3. CASE PruneDeletesPending \/ PruneDeletesDecided \/ ServerRestarts
  <2>1. ASSUME NEW q \in Rows PROVE Policy!Keep(q) \/ Policy!Close(q)
    <3>1. dur'[q] = dur[q] /\ by'[q] = by[q] /\ (q \in lapsed' <=> q \in lapsed)
      BY Zenon, <1>3 DEF PruneDeletesPending, PruneDeletesDecided, ServerRestarts
    <3>2. CASE dec'[q] = dec[q]
      BY Zenon, <3>1, <3>2, Unmoved
    <3>3. CASE dec'[q] # dec[q]
      <4>1. dec'[q] \in {"gone", "expired"}
        BY Zenon, <1>3, <3>3 DEF PruneDeletesPending, PruneDeletesDecided, ServerRestarts
      <4>2. ~InEffect(q)' /\ Effect(q)' = "out"
        BY Zenon, <4>1 DEF InEffect, Decided, Verdicts, Effect
      <4>3. dec[q] = "pending" \/ Effect(q) = "out"
        BY Zenon, <1>3, <3>3 DEF PruneDeletesPending, PruneDeletesDecided, ServerRestarts,
           PolicyInv
      <4>4. dec[q] = "pending" => Effect(q) = "new"
        BY Zenon DEF Effect
      <4> QED BY Zenon, <4>1, <4>2, <4>3, <4>4, Closes, StaysOut
    <3> QED BY Zenon, <3>2, <3>3
  <2> QED BY Zenon, <1>3, <2>1 DEF Policy!Next, Policy!Tidy, PruneDeletesPending,
             PruneDeletesDecided, ServerRestarts, histVars
<1>4. ASSUME NEW u \in Users, DeleteUser(u) PROVE Policy!Next
  <2> DEFINE gone == {q \in Rows : by[q] = u}
  <2>1. ASSUME NEW q \in Rows PROVE Policy!Keep(q) \/ (q \in gone /\ Policy!End(q))
    <3>1. dec'[q] = dec[q] /\ dur'[q] = dur[q] /\ (q \in lapsed' <=> q \in lapsed)
      BY Zenon, <1>4 DEF DeleteUser
    <3>2. CASE by[q] # u
      <4>1. by'[q] = by[q]
        BY Zenon, <1>4, <3>2 DEF DeleteUser
      <4> QED BY Zenon, <3>1, <4>1, Unmoved
    <3>3. CASE by[q] = u
      <4>1. by'[q] = NoUser
        BY Zenon, <1>4, <3>3 DEF DeleteUser
      <4>2. ~InEffect(q)'
        BY Zenon, <4>1 DEF InEffect
      <4>3. CASE InEffect(q)
        <5>1. Effect(q) = "in" /\ Effect(q)' = "out"
          BY Zenon, <3>1, <4>2, <4>3 DEF Effect, InEffect, Decided, Verdicts
        <5> QED BY Zenon, <3>3, <4>2, <5>1, Ends
      <4>4. CASE ~InEffect(q)
        <5>1. Effect(q)' = Effect(q) /\ Span(q)' = Span(q)
          BY Zenon, <3>1, <4>2, <4>4 DEF Effect, Span
        <5> QED BY Zenon, <5>1, Keeps
      <4> QED BY Zenon, <4>3, <4>4
    <3> QED BY Zenon, <3>2, <3>3
  <2>2. left' = left \cup gone /\ UNCHANGED asked /\ gone \in SUBSET Rows
    BY Zenon, <1>4 DEF DeleteUser
  <2> HIDE DEF gone
  <2> QED BY Zenon, <2>1, <2>2 DEF Policy!Next, Policy!Offboard
<1> QED BY Zenon, <1>1, <1>2, <1>3, <1>4 DEF HouseStep

\* All of them.
LEMMA StepRefines ==
  ASSUME PolicyInv, Next
  PROVE  Policy!Next
BY Zenon, RowRefines, CallRefines, LinkRefines, HouseRefines DEF Next

-----------------------------------------------------------------------------
(* The invariant.                                                          *)

\* Whoever is busy with a revoke asked for it.
LEMMA CallsKept ==
  ASSUME PolicyInv, Next
  PROVE  /\ call' \in [Calls -> Call]
         /\ \A c \in Calls : Busy(c)' => call'[c].row \in Rows \cap asked'
<1> DEFINE P == /\ call' \in [Calls -> Call]
                /\ \A c \in Calls : Busy(c)' => call'[c].row \in Rows \cap asked'
<1>0. call \in [Calls -> Call] /\ \A c \in Calls : Busy(c) => call[c].row \in Rows \cap asked
  BY Zenon DEF PolicyInv
<1>a. \A ok \in BOOLEAN : Ended(ok) \in Call /\ Ended(ok).step = "done"
  BY Zenon DEF Ended, Call, Steps
<1>b. \A q \in Rows : Begun(q) \in Call /\ Begun(q).row = q
  BY DEF Begun, Call, Steps
<1>c. \A r \in Call, k \in Steps : /\ [r EXCEPT !.step = k] \in Call
                                    /\ [r EXCEPT !.step = k].row = r.row
  BY Zenon DEF Call
<1>1. ASSUME UNCHANGED call, asked \subseteq asked' PROVE P
  BY Zenon, <1>0, <1>1 DEF Busy
<1>2. ASSUME NEW c \in Calls, NEW ok \in BOOLEAN, Return(c, ok), UNCHANGED asked PROVE P
  BY Zenon, <1>0, <1>2, <1>a DEF Busy, Return
<1>3. ASSUME NEW c \in Calls, NEW k \in Steps, Busy(c), Goto(c, k), UNCHANGED asked PROVE P
  BY <1>0, <1>3, <1>c DEF Busy, Goto
<1>4. ASSUME NEW c \in Calls, NEW q \in Rows, RevokeReads(c, q) PROVE P
  BY Zenon, <1>0, <1>4, <1>a, <1>b DEF RevokeReads, Busy
<1>5. ASSUME NEW c \in Calls, RevokeSends(c) PROVE P
  <2>1. \A r \in Call : /\ [r EXCEPT !.step = "ack", !.via = "ack"] \in Call
                        /\ [r EXCEPT !.step = "ack", !.via = "ack"].row = r.row
    BY Zenon DEF Call, Steps
  <2> QED BY Zenon, <1>0, <1>5, <2>1 DEF RevokeSends, Busy, histVars
<1>6. ASSUME NEW c \in Calls, Marked(c), Busy(c), UNCHANGED asked PROVE P
  BY Zenon, <1>6, <1>2, <1>3 DEF Marked, Steps
<1>7. ASSUME NEW s \in Socks, Deregister(s), UNCHANGED asked PROVE P
  BY Zenon, <1>0, <1>1, <1>7, <1>a DEF Deregister, Busy
<1>8. ASSUME SidecarDrops PROVE P
  <2>1. \A r \in Call, b \in BOOLEAN : /\ [r EXCEPT !.dropped = b] \in Call
                                        /\ [r EXCEPT !.dropped = b].row = r.row
                                        /\ [r EXCEPT !.dropped = b].step = r.step
    BY Zenon DEF Call
  <2>2. PICK id : call' = [call EXCEPT ![id].dropped = @ \/ call[id].step = "ack"]
    BY Zenon, <1>8 DEF SidecarDrops
  <2>3. \A c \in Calls : \E b \in BOOLEAN :
          call'[c] = call[c] \/ call'[c] = [call[c] EXCEPT !.dropped = b]
    <3>1. \A c \in Calls : (call[c].dropped \/ call[c].step = "ack") \in BOOLEAN
      BY Zenon
    <3> QED BY Zenon, <1>0, <2>2, <3>1
  <2>4. UNCHANGED asked /\ DOMAIN call' = Calls /\ call' = [c \in Calls |-> call'[c]]
    BY Zenon, <1>0, <1>8, <2>2 DEF SidecarDrops, histVars
  <2>5. \A c \in Calls : /\ call'[c] \in Call /\ call'[c].row = call[c].row
                          /\ call'[c].step = call[c].step
    <3> SUFFICES ASSUME NEW c \in Calls
                 PROVE  /\ call'[c] \in Call /\ call'[c].row = call[c].row
                        /\ call'[c].step = call[c].step
      OBVIOUS
    <3>1. PICK b \in BOOLEAN : call'[c] = call[c] \/ call'[c] = [call[c] EXCEPT !.dropped = b]
      BY Zenon, <2>3
    <3>2. call[c] \in Call
      BY Zenon, <1>0
    <3>3. CASE call'[c] = [call[c] EXCEPT !.dropped = b]
      BY <2>1, <3>2, <3>3
    <3> QED BY Zenon, <3>1, <3>2, <3>3
  <2> QED BY Zenon, <1>0, <2>4, <2>5 DEF Busy
<1>9. ASSUME ServerRestarts PROVE P
  BY Zenon, <1>0, <1>9, <1>a DEF ServerRestarts, Busy
<1>10. ASSUME NEW c \in Calls, CallStep(c) PROVE P
  <2>1. CASE RevokeSkips(c)
    BY Zenon, <1>3, <2>1 DEF RevokeSkips, Busy, Steps, histVars
  <2>2. ASSUME NEW s \in Socks, AckArrives(s, c) PROVE P
    BY Zenon, <1>1, <1>3, <2>2 DEF AckArrives, Busy, Steps, histVars
  <2>3. CASE AckTimesOut(c)
    BY Zenon, <1>2, <2>3 DEF AckTimesOut, histVars
  <2>4. CASE RevokeMarks(c)
    BY Zenon, <1>3, <1>6, <2>4 DEF RevokeMarks, Busy, Steps, histVars
  <2>5. CASE RevokeRereads(c)
    BY Zenon, <1>2, <1>6, <2>5 DEF RevokeRereads, Busy, histVars
  <2>6. CASE RevokeShares(c)
    BY Zenon, <1>2, <1>3, <2>6 DEF RevokeShares, Busy, Steps, histVars
  <2>7. CASE RevokeRetracts(c) \/ RetractFails(c)
    BY Zenon, <1>2, <2>7 DEF RevokeRetracts, RetractFails, histVars
  <2> QED BY Zenon, <1>4, <1>5, <1>10, <2>1, <2>2, <2>3, <2>4, <2>5, <2>6, <2>7 DEF CallStep
<1>11. ASSUME NEW q \in Rows, RowStep(q) PROVE P
  BY Zenon, <1>1, <1>11 DEF RowStep, Ask, Decide, Expire, RecordStatic, Lapse, Persist,
     PersistFails, Relay, VerdictLapses, histVars
<1>12. ASSUME LinkStep PROVE P
  BY Zenon, <1>1, <1>7, <1>8, <1>12 DEF LinkStep, Connect, HandlerEnds, Disconnect,
     SidecarApplies, histVars
<1>13. ASSUME HouseStep PROVE P
  BY Zenon, <1>1, <1>9, <1>13 DEF HouseStep, ContainerStops, StartReads, ContainerStarts,
     PruneReads, PruneDeletesPending, PruneDeletesDecided, DeleteUser, histVars
<1> QED BY Zenon, <1>10, <1>11, <1>12, <1>13 DEF Next

\* What the refinement rests on is kept.
LEMMA PolicyInvKept ==
  ASSUME PolicyInv, [Next]_vars
  PROVE  PolicyInv'
<1>1. CASE Next
  <2>1. Policy!Next
    BY Zenon, <1>1, StepRefines
  <2>2. /\ dec' \in [Rows -> Decisions]
        /\ dur' \in [Rows -> Durations \cup {"null"}]
        /\ by' \in [Rows -> Users \cup {NoUser}]
        /\ \A q \in Rows : dec'[q] = "none" => by'[q] = NoUser
    <3> DEFINE P == /\ dec' \in [Rows -> Decisions]
                    /\ dur' \in [Rows -> Durations \cup {"null"}]
                    /\ by' \in [Rows -> Users \cup {NoUser}]
                    /\ \A q \in Rows : dec'[q] = "none" => by'[q] = NoUser
    <3>1. ASSUME UNCHANGED rowVars PROVE P
      BY Zenon, <3>1 DEF rowVars, PolicyInv
    <3>2. ASSUME NEW q \in Rows, RowStep(q) PROVE P
      <4>1. CASE Ask(q) \/ Expire(q) \/ Lapse(q)
        BY Zenon, <4>1 DEF Ask, Expire, Lapse, PolicyInv, Decisions, Durations
      <4>2. ASSUME NEW d \in Verdicts, NEW t \in Durations, NEW u \in Users,
                   Decide(q, d, t, u)
            PROVE  P
        BY Zenon, <4>2 DEF Decide, PolicyInv, Decisions, Verdicts
      <4>3. ASSUME NEW d \in Verdicts, RecordStatic(q, d) PROVE P
        BY Zenon, <4>3 DEF RecordStatic, PolicyInv, Decisions, Verdicts
      <4>4. CASE Persist(q) \/ PersistFails(q) \/ Relay(q) \/ VerdictLapses(q)
        BY Zenon, <3>1, <4>4 DEF Persist, PersistFails, Relay, VerdictLapses
      <4> QED BY Zenon, <3>2, <4>1, <4>2, <4>3, <4>4 DEF RowStep
    <3>3. ASSUME NEW c \in Calls, RevokeMarks(c) PROVE P
      BY Zenon, <3>3 DEF RevokeMarks, PolicyInv, Decisions
    <3>4. ASSUME NEW c \in Calls, CallStep(c) PROVE P
      BY Zenon, <3>1, <3>3, <3>4 DEF CallStep, RevokeReads, RevokeSends, RevokeSkips,
         AckArrives, AckTimesOut, RevokeRereads, RevokeShares, RevokeRetracts,
         RetractFails
    <3>5. ASSUME LinkStep PROVE P
      BY Zenon, <3>1, <3>5 DEF LinkStep, Connect, HandlerEnds, Disconnect, SidecarApplies,
         SidecarDrops
    <3>6. ASSUME ContainerStarts PROVE P
      BY Zenon, <3>6 DEF ContainerStarts, PolicyInv, Decisions
    <3>7. ASSUME PruneDeletesPending \/ PruneDeletesDecided \/ ServerRestarts PROVE P
      BY ZenonT(30), <3>7 DEF PruneDeletesPending, PruneDeletesDecided, ServerRestarts, PolicyInv,
         Decisions
    <3>8. ASSUME NEW u \in Users, DeleteUser(u) PROVE P
      BY Zenon, <3>8 DEF DeleteUser, PolicyInv
    <3>9. ASSUME HouseStep PROVE P
      BY Zenon, <3>1, <3>6, <3>7, <3>8, <3>9 DEF HouseStep, ContainerStops, StartReads, PruneReads
    <3> QED BY Zenon, <1>1, <3>2, <3>4, <3>5, <3>9 DEF Next
  <2>3. \A q \in sweep'.decided : q \in Rows /\ Effect(q)' = "out"
    <3>1. ASSUME \A q \in sweep'.decided : q \in Rows /\ Effect(q) = "out"
          PROVE  \A q \in sweep'.decided : q \in Rows /\ Effect(q)' = "out"
      BY Zenon, <2>1, <3>1, OutIsForGood
    <3>2. \A q \in sweep.decided : q \in Rows /\ Effect(q) = "out"
      BY Zenon DEF PolicyInv
    <3>3. CASE UNCHANGED sweep
      BY Zenon, <3>1, <3>2, <3>3
    <3>4. CASE PruneDeletesDecided \/ ServerRestarts
      <4>1. sweep' = NoSweep
        BY Zenon, <3>4 DEF PruneDeletesDecided, ServerRestarts
      <4> QED BY Zenon, <4>1 DEF NoSweep
    <3>5. CASE PruneDeletesPending
      BY Zenon, <3>1, <3>2, <3>5 DEF PruneDeletesPending
    <3>6. ASSUME NEW old \in SUBSET Rows, PruneReads(old)
          PROVE  \A q \in sweep'.decided : q \in Rows /\ Effect(q)' = "out"
      <4>1. sweep'.decided = {q \in old : dec[q] # "pending"}
        BY Zenon, <3>6 DEF PruneReads
      <4>2. \A q \in old : PruneEligible(q)
        BY Zenon, <3>6 DEF PruneReads
      <4> QED BY Zenon, <3>1, <4>1, <4>2 DEF PruneEligible, Effect
    <3>7. ASSUME NEW q \in Rows, RowStep(q) PROVE UNCHANGED sweep
      BY Zenon, <3>7 DEF RowStep, Ask, Decide, Expire, RecordStatic, Lapse, Persist,
         PersistFails, Relay, VerdictLapses
    <3>8. ASSUME NEW c \in Calls, CallStep(c) PROVE UNCHANGED sweep
      BY Zenon, <3>8 DEF CallStep, RevokeReads, RevokeSends, RevokeSkips, AckArrives,
         AckTimesOut, RevokeMarks, RevokeRereads, RevokeShares, RevokeRetracts,
         RetractFails
    <3>9. ASSUME LinkStep PROVE UNCHANGED sweep
      BY Zenon, <3>9 DEF LinkStep, Connect, HandlerEnds, Disconnect, SidecarApplies,
         SidecarDrops
    <3>10. ASSUME HouseStep
           PROVE  \/ UNCHANGED sweep \/ PruneDeletesDecided \/ ServerRestarts
                  \/ PruneDeletesPending \/ \E old \in SUBSET Rows : PruneReads(old)
      BY Zenon, <3>10 DEF HouseStep, ContainerStops, StartReads, ContainerStarts, DeleteUser
    <3> QED BY Zenon, <1>1, <3>3, <3>4, <3>5, <3>6, <3>7, <3>8, <3>9, <3>10 DEF Next
  <2> QED BY Zenon, <1>1, <2>2, <2>3, CallsKept DEF PolicyInv
<1>2. CASE UNCHANGED vars
  BY Zenon, <1>2 DEF PolicyInv, Busy, Effect, InEffect, Decided, DurationInEffect, vars,
     rowVars, histVars
<1> QED BY Zenon, <1>1, <1>2

\* The verdicts on record keep the policy for any number of rows, users,
\* revokes and sockets: one in effect ends only by its time, a revoke, a
\* container start or the deletion of its decider, whatever the retention
\* sweep finds stale when it deletes (EgressConsent.prune).
THEOREM KeepsPolicy == Spec => PolicySpec
<1>1. Init => PolicyInv
  <2> SUFFICES ASSUME Init PROVE PolicyInv
    OBVIOUS
  <2>1. Idle \in Call /\ Idle.step = "idle"
    BY Zenon DEF Idle, Call, Steps
  <2> QED BY Zenon, <2>1 DEF Init, PolicyInv, NoSweep, Busy, Decisions
<1>2. Init => Policy!Init
  BY Zenon DEF Init, Policy!Init, Effect, InEffect, Decided, Verdicts
<1>3. PolicyInv /\ [Next]_vars => PolicyInv'
  BY Zenon, PolicyInvKept
<1>4. PolicyInv /\ [Next]_vars => [Policy!Next]_(Policy!vars)
  <2> SUFFICES ASSUME UNCHANGED vars PROVE UNCHANGED Policy!vars
    BY Zenon, StepRefines
  <2> QED BY Zenon DEF vars, rowVars, histVars, Policy!vars, Effect, InEffect, Decided,
             DurationInEffect
<1> QED BY <1>1, <1>2, <1>3, <1>4, PTL DEF Spec, PolicySpec, Policy!Spec

-----------------------------------------------------------------------------
(* Frames on a socket.                                                     *)

VerdictFrame(q) == [type |-> "verdict", row |-> q]
DropFrame(q, c) == [type |-> "drop", row |-> q, id |-> c]

OnWire(s, f) == \E i \in DOMAIN wire[s] : wire[s][i] = f

\* A frame is at one place at most.
Once(f) ==
  \A s, t \in Socks : \A i \in DOMAIN wire[s], j \in DOMAIN wire[t] :
    wire[s][i] = f /\ wire[t][j] = f => s = t /\ i = j

WireType == wire \in [Socks -> Seq(Frames)]

\* Where the elements of a longer sequence are.
LEMMA AppendAt ==
  ASSUME NEW S, NEW u \in Seq(S), NEW f \in S
  PROVE  /\ Append(u, f) \in Seq(S)
         /\ \A i \in DOMAIN u : i \in DOMAIN Append(u, f) /\ Append(u, f)[i] = u[i]
         /\ \A i \in DOMAIN Append(u, f) :
              (i \in DOMAIN u /\ Append(u, f)[i] = u[i]) \/ (i = Len(u) + 1 /\ Append(u, f)[i] = f)
         /\ \E i \in DOMAIN Append(u, f) : Append(u, f)[i] = f
<1>1. /\ Append(u, f) \in Seq(S) /\ Len(u) \in Nat /\ DOMAIN u = 1 .. Len(u)
      /\ DOMAIN Append(u, f) = 1 .. Len(u) + 1
      /\ \A i \in 1 .. Len(u) : Append(u, f)[i] = u[i]
      /\ Append(u, f)[Len(u) + 1] = f
  OBVIOUS
<1>2. \A i \in 1 .. Len(u) + 1 : i \in 1 .. Len(u) \/ i = Len(u) + 1
  BY <1>1
<1>3. Len(u) + 1 \in 1 .. Len(u) + 1 /\ \A i \in 1 .. Len(u) : i \in 1 .. Len(u) + 1
  BY <1>1
<1>4. \A i \in DOMAIN u : i \in DOMAIN Append(u, f) /\ Append(u, f)[i] = u[i]
  BY Zenon, <1>1, <1>3
<1>5. ASSUME NEW i \in DOMAIN Append(u, f)
      PROVE  (i \in DOMAIN u /\ Append(u, f)[i] = u[i]) \/ (i = Len(u) + 1 /\ Append(u, f)[i] = f)
  <2>1. i \in 1 .. Len(u) + 1
    BY Zenon, <1>1
  <2>2. i \in 1 .. Len(u) \/ i = Len(u) + 1
    BY Zenon, <1>2, <2>1
  <2>3. CASE i = Len(u) + 1
    BY Zenon, <1>1, <2>3
  <2> QED BY Zenon, <1>1, <2>2, <2>3
<1>6. \E i \in DOMAIN Append(u, f) : Append(u, f)[i] = f
  BY <1>1, <1>3
<1> QED BY Zenon, <1>1, <1>4, <1>5, <1>6

\* Where the elements of a shorter one were.
LEMMA TailAt ==
  ASSUME NEW S, NEW u \in Seq(S), u # <<>>
  PROVE  /\ Tail(u) \in Seq(S) /\ Head(u) \in S /\ 1 \in DOMAIN u /\ Head(u) = u[1]
         /\ \A i \in DOMAIN Tail(u) : i + 1 \in DOMAIN u /\ i + 1 # 1 /\ Tail(u)[i] = u[i + 1]
         /\ \A i, j \in DOMAIN Tail(u) : i + 1 = j + 1 => i = j
OBVIOUS

\* Frames of different kinds, or about different things, differ.
LEMMA FramesDiffer ==
  ASSUME NEW p, NEW q, NEW c
  PROVE  /\ VerdictFrame(p) # DropFrame(q, c)
         /\ VerdictFrame(p) = VerdictFrame(q) => p = q
<1>1. /\ VerdictFrame(p).type = "verdict" /\ VerdictFrame(p).row = p
      /\ VerdictFrame(q).row = q /\ DropFrame(q, c).type = "drop"
  BY DEF VerdictFrame, DropFrame
<1> QED BY <1>1

\* The drops of different calls, or about different rows, are different frames.
LEMMA DropsDiffer ==
  ASSUME NEW p, NEW q, NEW b, NEW c, DropFrame(p, b) = DropFrame(q, c)
  PROVE  p = q /\ b = c
<1>1. DropFrame(q, c).row = q /\ DropFrame(q, c).id = c
  BY DEF DropFrame
<1>2. DropFrame(p, b).row = p /\ DropFrame(p, b).id = b
  BY DEF DropFrame
<1> QED BY <1>1, <1>2

\* What a frame is.
LEMMA FrameKinds ==
  /\ \A q \in Rows : VerdictFrame(q) \in Frames
  /\ \A q \in Rows, c \in Calls : DropFrame(q, c) \in Frames
  /\ \A f \in Frames : f.type = "verdict" => f.row \in Rows /\ f = VerdictFrame(f.row)
  /\ \A f \in Frames : f.type = "drop" =>
       f.row \in Rows /\ f.id \in Calls /\ f = DropFrame(f.row, f.id)
<1>1. \A q \in Rows : VerdictFrame(q) \in Frames
  BY DEF VerdictFrame, Frames
<1>2. \A q \in Rows, c \in Calls : DropFrame(q, c) \in Frames
  BY DEF DropFrame, Frames
<1>3. ASSUME NEW f \in Frames, f.type = "verdict"
      PROVE  f.row \in Rows /\ f = VerdictFrame(f.row)
  <2>1. f \in [type : {"verdict"}, row : Rows]
    BY <1>3 DEF Frames
  <2> QED BY <2>1 DEF VerdictFrame
<1>4. ASSUME NEW f \in Frames, f.type = "drop"
      PROVE  f.row \in Rows /\ f.id \in Calls /\ f = DropFrame(f.row, f.id)
  <2>1. f \in [type : {"drop"}, row : Rows, id : Calls]
    BY <1>4 DEF Frames
  <2> QED BY <2>1 DEF DropFrame
<1> QED BY Zenon, <1>1, <1>2, <1>3, <1>4

\* A frame is sent.
LEMMA WireSends ==
  ASSUME WireType, NEW s \in Socks, NEW f \in Frames,
         wire' = [wire EXCEPT ![s] = Append(@, f)]
  PROVE  /\ WireType'
         /\ \A g : \A t \in Socks : OnWire(t, g)' => OnWire(t, g) \/ g = f
         /\ \A g : g # f /\ Once(g) => Once(g)'
         /\ (\A t \in Socks : ~ OnWire(t, f)) => Once(f)'
<1>1. /\ wire[s] \in Seq(Frames) /\ wire'[s] = Append(wire[s], f)
      /\ \A t \in Socks \ {s} : wire'[t] = wire[t]
  BY Zenon DEF WireType
<1>2. /\ wire'[s] \in Seq(Frames)
      /\ \A i \in DOMAIN wire'[s] :
           \/ i \in DOMAIN wire[s] /\ wire'[s][i] = wire[s][i]
           \/ i = Len(wire[s]) + 1 /\ wire'[s][i] = f
  BY SMTT(30), <1>1, AppendAt
<1>3. WireType'
  BY Zenon, <1>2 DEF WireType
<1>4. ASSUME NEW t \in Socks, NEW i \in DOMAIN wire'[t]
      PROVE  \/ i \in DOMAIN wire[t] /\ wire'[t][i] = wire[t][i]
             \/ t = s /\ i = Len(wire[s]) + 1 /\ wire'[t][i] = f
  BY Zenon, <1>1, <1>2
<1>5. ASSUME NEW t \in Socks, NEW g, OnWire(t, g)'
      PROVE  OnWire(t, g) \/ g = f
  BY Zenon, <1>4, <1>5 DEF OnWire
<1>6. ASSUME NEW g, g # f, Once(g)
      PROVE  Once(g)'
  BY SMTT(30), <1>4, <1>6 DEF Once
<1>7. ASSUME \A t \in Socks : ~ OnWire(t, f)
      PROVE  Once(f)'
  <2> SUFFICES ASSUME NEW t \in Socks, NEW r \in Socks, NEW i \in DOMAIN wire'[t],
                      NEW j \in DOMAIN wire'[r], wire'[t][i] = f, wire'[r][j] = f
               PROVE  t = r /\ i = j
    BY SMTT(30) DEF Once
  <2>1. t = s /\ i = Len(wire[s]) + 1
    BY ZenonT(30), <1>4, <1>7 DEF OnWire
  <2>2. r = s /\ j = Len(wire[s]) + 1
    BY ZenonT(30), <1>4, <1>7 DEF OnWire
  <2> QED BY Zenon, <2>1, <2>2
<1> QED BY Zenon, <1>3, <1>5, <1>6, <1>7

\* A frame is taken.
LEMMA WireTakes ==
  ASSUME WireType, NEW s \in Socks, wire[s] # <<>>,
         wire' = [wire EXCEPT ![s] = Tail(@)]
  PROVE  /\ WireType'
         /\ Head(wire[s]) \in Frames /\ OnWire(s, Head(wire[s]))
         /\ \A g : \A t \in Socks : OnWire(t, g)' => OnWire(t, g)
         /\ \A g : Once(g) => Once(g)'
         /\ \A g : g = Head(wire[s]) /\ Once(g) => \A t \in Socks : ~ OnWire(t, g)'
<1>1. /\ wire[s] \in Seq(Frames) /\ wire'[s] = Tail(wire[s])
      /\ \A t \in Socks \ {s} : wire'[t] = wire[t]
  BY Zenon DEF WireType
<1>2. /\ wire'[s] \in Seq(Frames) /\ Head(wire[s]) \in Frames
      /\ 1 \in DOMAIN wire[s] /\ Head(wire[s]) = wire[s][1]
      /\ \A i \in DOMAIN wire'[s] :
           i + 1 \in DOMAIN wire[s] /\ i + 1 # 1 /\ wire'[s][i] = wire[s][i + 1]
      /\ \A i, j \in DOMAIN wire'[s] : i + 1 = j + 1 => i = j
  <2> DEFINE u == wire[s]
  <2>1. u \in Seq(Frames) /\ u # <<>> /\ wire'[s] = Tail(u)
    BY Zenon, <1>1
  <2> HIDE DEF u
  <2>2. /\ Tail(u) \in Seq(Frames) /\ Head(u) \in Frames /\ 1 \in DOMAIN u /\ Head(u) = u[1]
        /\ \A i \in DOMAIN Tail(u) : i + 1 \in DOMAIN u /\ i + 1 # 1 /\ Tail(u)[i] = u[i + 1]
        /\ \A i, j \in DOMAIN Tail(u) : i + 1 = j + 1 => i = j
    BY <2>1, TailAt
  <2>3. ASSUME NEW i \in DOMAIN wire'[s]
        PROVE  i + 1 \in DOMAIN u /\ i + 1 # 1 /\ wire'[s][i] = u[i + 1]
    BY Zenon, <2>1, <2>2
  <2>4. ASSUME NEW i \in DOMAIN wire'[s], NEW j \in DOMAIN wire'[s], i + 1 = j + 1
        PROVE  i = j
    BY Zenon, <2>1, <2>2, <2>4
  <2>5. u = wire[s]
    BY Zenon DEF u
  <2> QED BY SMTT(30), <2>1, <2>2, <2>3, <2>4, <2>5
<1>3. WireType'
  BY Zenon, <1>2 DEF WireType
<1>4. OnWire(s, Head(wire[s]))
  BY Zenon, <1>2 DEF OnWire
<1>5. ASSUME NEW t \in Socks, NEW i \in DOMAIN wire'[t]
      PROVE  \/ t # s /\ i \in DOMAIN wire[t] /\ wire'[t][i] = wire[t][i]
             \/ t = s /\ i + 1 \in DOMAIN wire[s] /\ wire'[t][i] = wire[s][i + 1]
  BY Zenon, <1>1, <1>2
<1>6. ASSUME NEW t \in Socks, NEW g, OnWire(t, g)'
      PROVE  OnWire(t, g)
  BY SMTT(30), <1>5, <1>6 DEF OnWire
<1>7. ASSUME NEW g, Once(g)
      PROVE  Once(g)'
  <2> SUFFICES ASSUME NEW t \in Socks, NEW r \in Socks, NEW i \in DOMAIN wire'[t],
                      NEW j \in DOMAIN wire'[r], wire'[t][i] = g, wire'[r][j] = g
               PROVE  t = r /\ i = j
    BY SMTT(30) DEF Once
  <2>1. t = r
    BY SMTT(30), <1>5, <1>7 DEF Once
  <2>2. CASE t # s
    BY SMTT(30), <1>5, <1>7, <2>1, <2>2 DEF Once
  <2>3. CASE t = s
    <3>1. i + 1 \in DOMAIN wire[s] /\ j + 1 \in DOMAIN wire[s]
          /\ wire[s][i + 1] = g /\ wire[s][j + 1] = g
      BY Zenon, <1>2, <2>1, <2>3
    <3>2. i + 1 = j + 1
      BY SMTT(30), <1>7, <3>1 DEF Once
    <3> QED BY Zenon, <1>2, <2>1, <2>3, <3>2
  <2> QED BY Zenon, <2>2, <2>3
<1>8. ASSUME NEW g, g = Head(wire[s]), Once(g), NEW t \in Socks, OnWire(t, g)'
      PROVE  FALSE
  <2>1. PICK i \in DOMAIN wire'[t] : wire'[t][i] = g
    BY Zenon, <1>8 DEF OnWire
  <2>2. t = s
    BY SMTT(30), <1>2, <1>5, <1>8, <2>1 DEF Once
  <2>3. i + 1 \in DOMAIN wire[s] /\ i + 1 # 1 /\ wire[s][i + 1] = g
    BY Zenon, <1>2, <2>1, <2>2
  <2> QED BY SMTT(30), <1>2, <1>8, <2>3 DEF Once
<1> QED BY Zenon, <1>2, <1>3, <1>4, <1>6, <1>7, <1>8

\* Sockets are cleared.
LEMMA WireClears ==
  ASSUME WireType, wire' \in [Socks -> Seq(Frames)],
         \A s \in Socks : wire'[s] = wire[s] \/ wire'[s] = <<>>
  PROVE  /\ \A g : \A t \in Socks : OnWire(t, g)' => OnWire(t, g)
         /\ \A g : Once(g) => Once(g)'
<1>1. ASSUME NEW s \in Socks, NEW i \in DOMAIN wire'[s]
      PROVE  i \in DOMAIN wire[s] /\ wire'[s][i] = wire[s][i]
  <2>1. wire'[s] # <<>>
    OBVIOUS
  <2> QED BY Zenon, <2>1
<1> QED BY SMTT(30), <1>1 DEF OnWire, Once

-----------------------------------------------------------------------------
(* Types.                                                                  *)

LinkType ==
  /\ WireType
  /\ asker \in [Rows -> Socks \cup {NoSock}]
  /\ conn \in Socks \cup {NoSock}
  /\ side \in Socks \cup {NoSock}
  /\ open \subseteq Socks
  /\ back \subseteq Socks \X Calls

SetType ==
  /\ lapsed \subseteq Rows /\ persisting \subseteq Rows /\ relaying \subseteq Rows
  /\ told \subseteq Rows /\ asked \subseteq Rows /\ left \subseteq Rows
  /\ box \in {"up", "down", "read"}
  /\ sweep \in [step : {"idle", "pending", "decided"}, pending : SUBSET Rows, decided : SUBSET Rows]
  /\ may \in Scenarios

\* What is on the sockets, and how it got there.
LEMMA WireMoves ==
  ASSUME PolicyInv, LinkType, SetType, Next
  PROVE  /\ WireType'
         /\ \A q \in Rows, s \in Socks :
              OnWire(s, VerdictFrame(q))' =>
                OnWire(s, VerdictFrame(q)) \/ (q \in relaying /\ q \notin relaying')
         /\ \A q \in Rows, c \in Calls, s \in Socks :
              OnWire(s, DropFrame(q, c))' =>
                OnWire(s, DropFrame(q, c)) \/ (RevokeSends(c) /\ q = call[c].row)
         /\ \A q \in Rows :
              Once(VerdictFrame(q)) /\ (q \in relaying => \A s \in Socks : ~ OnWire(s, VerdictFrame(q)))
                => Once(VerdictFrame(q))'
<1> DEFINE Goal ==
      /\ WireType'
      /\ \A q \in Rows, s \in Socks :
           OnWire(s, VerdictFrame(q))' =>
             OnWire(s, VerdictFrame(q)) \/ (q \in relaying /\ q \notin relaying')
      /\ \A q \in Rows, c \in Calls, s \in Socks :
           OnWire(s, DropFrame(q, c))' =>
             OnWire(s, DropFrame(q, c)) \/ (RevokeSends(c) /\ q = call[c].row)
      /\ \A q \in Rows :
           Once(VerdictFrame(q)) /\ (q \in relaying => \A s \in Socks : ~ OnWire(s, VerdictFrame(q)))
             => Once(VerdictFrame(q))'
<1>1. WireType /\ Len(<<>>) = 0 /\ <<>> \in Seq(Frames)
  BY DEF LinkType
<1>2. ASSUME WireType',
             \A s \in Socks : wire'[s] = wire[s] \/ wire'[s] = <<>>
      PROVE  Goal
  <2>1. /\ \A g : \A t \in Socks : OnWire(t, g)' => OnWire(t, g)
        /\ \A g : Once(g) => Once(g)'
    BY Zenon, <1>1, <1>2, WireClears DEF WireType
  <2>2. \A q \in Rows, s \in Socks : OnWire(s, VerdictFrame(q))' => OnWire(s, VerdictFrame(q))
    BY Zenon, <2>1 DEF VerdictFrame
  <2>3. \A q \in Rows, c \in Calls, s \in Socks :
          OnWire(s, DropFrame(q, c))' => OnWire(s, DropFrame(q, c))
    BY Zenon, <2>1 DEF DropFrame
  <2>4. \A q \in Rows : Once(VerdictFrame(q)) => Once(VerdictFrame(q))'
    BY Zenon, <2>1 DEF VerdictFrame
  <2> QED BY Zenon, <1>2, <2>2, <2>3, <2>4
<1>3. CASE UNCHANGED wire
  BY Zenon, <1>1, <1>2, <1>3 DEF WireType
<1>4. ASSUME NEW q \in Rows, Relay(q)
      PROVE  Goal
  <2>1. /\ q \in relaying /\ relaying' = relaying \ {q}
        /\ wire' = [wire EXCEPT ![asker[q]] = Append(@, VerdictFrame(q))]
    BY Zenon, <1>4 DEF Relay, VerdictFrame
  <2>2. CASE asker[q] \notin Socks
    <3>1. wire' \in [Socks -> Seq(Frames)] /\ \A s \in Socks : wire'[s] = wire[s]
      BY Zenon, <1>1, <2>1, <2>2 DEF WireType
    <3> QED BY Zenon, <1>2, <3>1 DEF WireType
  <2>3. CASE asker[q] \in Socks
    <3>1. PICK s \in Socks : s = asker[q]
      BY Zenon, <2>3
    <3>2. PICK f : f = VerdictFrame(q)
      OBVIOUS
    <3>3. f \in Frames /\ wire' = [wire EXCEPT ![s] = Append(@, f)]
      BY Zenon, <2>1, <3>1, <3>2, FrameKinds
    <3>4. /\ WireType'
          /\ \A g : \A t \in Socks : OnWire(t, g)' => OnWire(t, g) \/ g = f
          /\ \A g : g # f /\ Once(g) => Once(g)'
          /\ (\A t \in Socks : ~ OnWire(t, f)) => Once(f)'
      BY Zenon, <1>1, <3>3, WireSends
    <3>5. ASSUME NEW p \in Rows, NEW t \in Socks, OnWire(t, VerdictFrame(p))'
          PROVE  OnWire(t, VerdictFrame(p)) \/ (p \in relaying /\ p \notin relaying')
      <4>1. PICK g : g = VerdictFrame(p)
        OBVIOUS
      <4>2. OnWire(t, g)'
        BY Zenon, <3>5, <4>1 DEF VerdictFrame
      <4>3. g = f => p = q
        BY Zenon, <3>2, <4>1, FramesDiffer
      <4> QED BY Zenon, <2>1, <3>4, <4>1, <4>2, <4>3
    <3>6. ASSUME NEW p \in Rows, NEW c \in Calls, NEW t \in Socks, OnWire(t, DropFrame(p, c))'
          PROVE  OnWire(t, DropFrame(p, c))
      <4>1. PICK g : g = DropFrame(p, c)
        OBVIOUS
      <4>2. OnWire(t, g)'
        BY Zenon, <3>6, <4>1 DEF DropFrame
      <4>3. g # f
        BY Zenon, <3>2, <4>1, FramesDiffer
      <4> QED BY Zenon, <3>4, <4>1, <4>2, <4>3
    <3>7. ASSUME NEW p \in Rows, Once(VerdictFrame(p)),
                 p \in relaying => \A t \in Socks : ~ OnWire(t, VerdictFrame(p))
          PROVE  Once(VerdictFrame(p))'
      <4>1. PICK g : g = VerdictFrame(p)
        OBVIOUS
      <4>2. Once(g)'
        <5>1. CASE p = q
          BY Zenon, <2>1, <3>2, <3>4, <3>7, <4>1, <5>1
        <5>2. CASE p # q
          BY Zenon, <3>2, <3>4, <3>7, <4>1, <5>2, FramesDiffer
        <5> QED BY Zenon, <5>1, <5>2
      <4> QED BY Zenon, <4>1, <4>2 DEF VerdictFrame
    <3> QED BY Zenon, <3>4, <3>5, <3>6, <3>7
  <2> QED BY Zenon, <2>2, <2>3
<1>5. ASSUME NEW c \in Calls, RevokeSends(c)
      PROVE  Goal
  <2>1. PICK s \in Socks, q \in Rows : s = conn /\ q = call[c].row
    BY Zenon, <1>5 DEF RevokeSends, LinkType, PolicyInv, Busy
  <2>2. PICK f : f = DropFrame(q, c)
    OBVIOUS
  <2>3. f \in Frames /\ wire' = [wire EXCEPT ![s] = Append(@, f)]
    BY Zenon, <1>5, <2>1, <2>2, FrameKinds DEF RevokeSends, DropFrame
  <2>4. /\ WireType'
        /\ \A g : \A t \in Socks : OnWire(t, g)' => OnWire(t, g) \/ g = f
        /\ \A g : g # f /\ Once(g) => Once(g)'
    BY Zenon, <1>1, <2>3, WireSends
  <2>5. ASSUME NEW p \in Rows, NEW t \in Socks, OnWire(t, VerdictFrame(p))'
        PROVE  OnWire(t, VerdictFrame(p))
    <3>1. PICK g : g = VerdictFrame(p)
      OBVIOUS
    <3>2. OnWire(t, g)'
      BY Zenon, <2>5, <3>1 DEF VerdictFrame
    <3>3. g # f
      BY Zenon, <2>2, <3>1, FramesDiffer
    <3> QED BY Zenon, <2>4, <3>1, <3>2, <3>3
  <2>6. ASSUME NEW p \in Rows, NEW b \in Calls, NEW t \in Socks, OnWire(t, DropFrame(p, b))'
        PROVE  OnWire(t, DropFrame(p, b)) \/ (RevokeSends(b) /\ p = call[b].row)
    <3>1. PICK g : g = DropFrame(p, b)
      OBVIOUS
    <3>2. OnWire(t, g)'
      BY Zenon, <2>6, <3>1 DEF DropFrame
    <3>3. ASSUME DropFrame(p, b) = DropFrame(q, c) PROVE p = q /\ b = c
      BY SMT, <3>3 DEF DropFrame
    <3> QED BY Zenon, <1>5, <2>1, <2>2, <2>4, <3>1, <3>2, <3>3
  <2>7. ASSUME NEW p \in Rows, Once(VerdictFrame(p))
        PROVE  Once(VerdictFrame(p))'
    <3>1. PICK g : g = VerdictFrame(p)
      OBVIOUS
    <3>2. Once(g)'
      BY Zenon, <2>2, <2>4, <2>7, <3>1, FramesDiffer
    <3> QED BY Zenon, <3>1, <3>2 DEF VerdictFrame
  <2> QED BY Zenon, <2>4, <2>5, <2>6, <2>7
<1>6. CASE SidecarApplies \/ SidecarDrops
  <2>1. PICK s \in Socks : s = side /\ wire[s] # <<>> /\ wire' = [wire EXCEPT ![s] = Tail(@)]
    BY Zenon, <1>6 DEF SidecarApplies, SidecarDrops, LinkType
  <2>2. /\ WireType'
        /\ \A g : \A t \in Socks : OnWire(t, g)' => OnWire(t, g)
        /\ \A g : Once(g) => Once(g)'
    BY Zenon, <1>1, <2>1, WireTakes
  <2>3. \A q \in Rows, t \in Socks : OnWire(t, VerdictFrame(q))' => OnWire(t, VerdictFrame(q))
    BY Zenon, <2>2 DEF VerdictFrame
  <2>4. \A q \in Rows, c \in Calls, t \in Socks :
          OnWire(t, DropFrame(q, c))' => OnWire(t, DropFrame(q, c))
    BY Zenon, <2>2 DEF DropFrame
  <2>5. \A q \in Rows : Once(VerdictFrame(q)) => Once(VerdictFrame(q))'
    BY Zenon, <2>2 DEF VerdictFrame
  <2> QED BY Zenon, <2>2, <2>3, <2>4, <2>5
<1>7. ASSUME NEW s \in Socks, HandlerEnds(s)
      PROVE  Goal
  <2>1. wire' = [wire EXCEPT ![s] = <<>>]
    BY Zenon, <1>7 DEF HandlerEnds
  <2>2. wire' \in [Socks -> Seq(Frames)] /\ \A t \in Socks : wire'[t] = wire[t] \/ wire'[t] = <<>>
    BY Zenon, <1>1, <2>1 DEF WireType
  <2> QED BY Zenon, <1>2, <2>2 DEF WireType
<1>8. CASE ServerRestarts
  <2>1. wire' \in [Socks -> Seq(Frames)] /\ \A t \in Socks : wire'[t] = wire[t] \/ wire'[t] = <<>>
    BY Zenon, <1>1, <1>8 DEF ServerRestarts
  <2> QED BY Zenon, <1>2, <2>1 DEF WireType
<1>9. ASSUME NEW q \in Rows, RowStep(q)
      PROVE  Goal
  BY Zenon, <1>3, <1>4, <1>9 DEF RowStep, Ask, Decide, Expire, RecordStatic, Lapse, Persist,
     PersistFails, VerdictLapses, linkVars
<1>10. ASSUME NEW c \in Calls, CallStep(c)
       PROVE  Goal
  BY Zenon, <1>3, <1>5, <1>10 DEF CallStep, RevokeReads, RevokeSkips, AckArrives,
     AckTimesOut, RevokeMarks, RevokeRereads, RevokeShares, RevokeRetracts, RetractFails, linkVars
<1>11. CASE LinkStep
  BY Zenon, <1>3, <1>6, <1>7, <1>11 DEF LinkStep, Connect, Disconnect, linkVars
<1>12. CASE HouseStep
  BY Zenon, <1>3, <1>8, <1>12 DEF HouseStep, ContainerStops, StartReads, ContainerStarts,
     PruneReads, PruneDeletesPending, PruneDeletesDecided, DeleteUser, linkVars
<1> QED BY Zenon, <1>9, <1>10, <1>11, <1>12 DEF Next

\* The sockets.
LEMMA LinkKept ==
  ASSUME PolicyInv, LinkType, SetType, Next
  PROVE  LinkType'
<1>1. WireType'
  BY Zenon, WireMoves
<1>2. ASSUME UNCHANGED <<asker, conn, open, back, side>>
      PROVE  LinkType'
  BY Zenon, <1>1, <1>2 DEF LinkType
<1>3. ASSUME NEW q \in Rows, RowStep(q)
      PROVE  LinkType'
  <2>1. CASE Ask(q)
    <3>1. side \in Socks /\ asker' = [asker EXCEPT ![q] = side] /\ UNCHANGED <<conn, open, back, side>>
      BY Zenon, <2>1 DEF Ask, LinkType, sideVars
    <3> QED BY Zenon, <1>1, <3>1 DEF LinkType
  <2>2. CASE ~ Ask(q)
    BY Zenon, <1>2, <1>3, <2>2 DEF RowStep, Decide, Expire, RecordStatic, Lapse, Persist,
       PersistFails, Relay, VerdictLapses, linkVars, sideVars
  <2> QED BY Zenon, <2>1, <2>2
<1>4. ASSUME NEW c \in Calls, CallStep(c)
      PROVE  LinkType'
  <2>1. ASSUME NEW s \in Socks, AckArrives(s, c)
        PROVE  LinkType'
    BY Zenon, <1>1, <2>1 DEF AckArrives, LinkType, sideVars
  <2>2. CASE ~ \E s \in Socks : AckArrives(s, c)
    BY Zenon, <1>2, <1>4, <2>2 DEF CallStep, RevokeReads, RevokeSends, RevokeSkips, AckTimesOut,
       RevokeMarks, RevokeRereads, RevokeShares, RevokeRetracts, RetractFails, linkVars, sideVars
  <2> QED BY Zenon, <2>1, <2>2
<1>5. CASE LinkStep
  <2>1. ASSUME NEW s \in Socks, Connect(s)
        PROVE  LinkType'
    BY Zenon, <1>1, <2>1 DEF Connect, LinkType
  <2>2. ASSUME NEW s \in Socks, HandlerEnds(s)
        PROVE  LinkType'
    <3>1. asker' \in [Rows -> Socks \cup {NoSock}]
      BY Zenon, <2>2 DEF HandlerEnds, LinkType
    <3>2. conn' \in Socks \cup {NoSock}
      BY Zenon, <2>2 DEF HandlerEnds, Deregister, LinkType
    <3>3. open' \subseteq Socks /\ back' \subseteq Socks \X Calls /\ side' = side
      BY Zenon, <2>2 DEF HandlerEnds, LinkType, sideVars
    <3> QED BY Zenon, <1>1, <3>1, <3>2, <3>3 DEF LinkType
  <2>3. CASE Disconnect
    BY Zenon, <1>1, <2>3 DEF Disconnect, LinkType, linkVars
  <2>4. CASE SidecarApplies
    BY Zenon, <1>2, <2>4 DEF SidecarApplies
  <2>5. CASE SidecarDrops
    <3>1. PICK s \in Socks : s = side /\ wire[s] # <<>> /\ wire' = [wire EXCEPT ![s] = Tail(@)]
      BY Zenon, <2>5 DEF SidecarDrops, LinkType
    <3>2. Head(wire[s]) \in Frames
      BY Zenon, <3>1, WireTakes DEF LinkType
    <3>3. /\ Head(wire[s]).type = "drop" /\ back' = back \cup {<<s, Head(wire[s]).id>>}
          /\ UNCHANGED <<asker, conn, open, side>>
      BY Zenon, <2>5, <3>1 DEF SidecarDrops
    <3>4. Head(wire[s]).id \in Calls
      BY Zenon, <3>2, <3>3, FrameKinds
    <3>5. back' \subseteq Socks \X Calls
      BY SMTT(30), <3>3, <3>4 DEF LinkType
    <3> QED BY Zenon, <1>1, <3>3, <3>5 DEF LinkType
  <2> QED BY Zenon, <1>5, <2>1, <2>2, <2>3, <2>4, <2>5 DEF LinkStep
<1>6. CASE HouseStep
  <2>1. CASE ServerRestarts
    BY Zenon, <1>1, <2>1 DEF ServerRestarts, LinkType
  <2>2. CASE ContainerStops
    BY Zenon, <1>1, <2>2 DEF ContainerStops, LinkType, linkVars
  <2>3. CASE ~ ServerRestarts /\ ~ ContainerStops
    BY Zenon, <1>2, <1>6, <2>3 DEF HouseStep, StartReads, ContainerStarts, PruneReads,
       PruneDeletesPending, PruneDeletesDecided, DeleteUser, linkVars, sideVars
  <2> QED BY Zenon, <2>1, <2>2, <2>3
<1> QED BY Zenon, <1>3, <1>4, <1>5, <1>6 DEF Next

\* The sets of rows, the container and the sweep.
LEMMA SetKept ==
  ASSUME PolicyInv, LinkType, SetType, Next
  PROVE  SetType'
<1>1. ASSUME UNCHANGED <<lapsed, asked, left, box, sweep, may>>,
             persisting' \subseteq Rows, relaying' \subseteq Rows, told' \subseteq Rows
      PROVE  SetType'
  BY Zenon, <1>1 DEF SetType
<1>2. ASSUME NEW q \in Rows, RowStep(q)
      PROVE  SetType'
  <2>1. CASE Lapse(q)
    BY Zenon, <2>1 DEF Lapse, SetType, listVars, sideVars, histVars
  <2>2. ASSUME NEW d, NEW t, NEW u, Decide(q, d, t, u)
        PROVE  SetType'
    BY Zenon, <1>1, <2>2 DEF Decide, SetType, sideVars
  <2>3. CASE Ask(q) \/ Expire(q) \/ \E d \in Verdicts \cap may : RecordStatic(q, d)
    BY Zenon, <1>1, <2>3 DEF Ask, Expire, RecordStatic, SetType, listVars, sideVars, histVars
  <2>4. CASE Persist(q) \/ PersistFails(q)
    BY Zenon, <1>1, <2>4 DEF Persist, PersistFails, SetType, rowVars, sideVars, histVars
  <2>5. CASE Relay(q) \/ VerdictLapses(q)
    BY Zenon, <1>1, <2>5 DEF Relay, VerdictLapses, SetType, rowVars, listVars, sideVars, histVars
  <2> QED BY Zenon, <1>2, <2>1, <2>2, <2>3, <2>4, <2>5 DEF RowStep
<1>3. ASSUME NEW c \in Calls, CallStep(c)
      PROVE  SetType'
  <2>1. ASSUME NEW q \in Rows, RevokeReads(c, q)
        PROVE  SetType'
    BY Zenon, <2>1 DEF RevokeReads, SetType, rowVars, listVars, sideVars
  <2>2. CASE ~ \E q \in Rows : RevokeReads(c, q)
    <3>1. UNCHANGED <<lapsed, asked, left, box, sweep, may, persisting, relaying, told>>
      BY Zenon, <1>3, <2>2 DEF CallStep, RevokeSends, RevokeSkips, AckArrives, AckTimesOut,
         RevokeMarks, RevokeRereads, RevokeShares, RevokeRetracts, RetractFails,
         rowVars, listVars, sideVars, histVars
    <3> QED BY Zenon, <1>1, <3>1 DEF SetType
  <2> QED BY Zenon, <2>1, <2>2
<1>4. CASE LinkStep
  <2>1. CASE SidecarApplies
    <3>1. PICK s \in Socks : s = side /\ wire[s] # <<>> /\ wire' = [wire EXCEPT ![s] = Tail(@)]
      BY Zenon, <2>1 DEF SidecarApplies, LinkType
    <3>2. Head(wire[s]) \in Frames
      BY Zenon, <3>1, WireTakes DEF LinkType
    <3>3. /\ Head(wire[s]).type = "verdict" /\ told' \subseteq told \cup {Head(wire[s]).row}
          /\ UNCHANGED <<lapsed, asked, left, box, sweep, may, persisting, relaying>>
      BY Zenon, <2>1, <3>1 DEF SidecarApplies, rowVars, listVars, histVars
    <3>4. Head(wire[s]).row \in Rows
      BY Zenon, <3>2, <3>3, FrameKinds
    <3> QED BY Zenon, <1>1, <3>3, <3>4 DEF SetType
  <2>2. CASE SidecarDrops
    BY Zenon, <1>1, <2>2 DEF SidecarDrops, SetType, rowVars, listVars, histVars
  <2>3. ASSUME NEW s \in Socks, Connect(s) \/ HandlerEnds(s)
        PROVE  SetType'
    BY Zenon, <1>1, <2>3 DEF Connect, HandlerEnds, SetType, rowVars, listVars, sideVars, histVars
  <2>4. CASE Disconnect
    BY Zenon, <1>1, <2>4 DEF Disconnect, SetType, rowVars, listVars, histVars
  <2> QED BY Zenon, <1>4, <2>1, <2>2, <2>3, <2>4 DEF LinkStep
<1>5. CASE HouseStep
  <2>1. CASE ContainerStops \/ StartReads \/ ContainerStarts
    BY Zenon, <2>1 DEF ContainerStops, StartReads, ContainerStarts, SetType, rowVars, listVars, histVars
  <2>2. ASSUME NEW old \in SUBSET Rows, PruneReads(old)
        PROVE  SetType'
    <3>1. {q \in old : dec[q] = "pending"} \in SUBSET Rows /\ {q \in old : dec[q] # "pending"} \in SUBSET Rows
      BY Zenon
    <3>2. sweep' \in [step : {"idle", "pending", "decided"}, pending : SUBSET Rows, decided : SUBSET Rows]
      BY <2>2, <3>1 DEF PruneReads
    <3> QED BY Zenon, <2>2, <3>2 DEF PruneReads, SetType, rowVars, listVars, sideVars, histVars
  <2>3. CASE PruneDeletesPending
    <3>1. sweep.decided \in SUBSET Rows
      BY Zenon DEF SetType
    <3>2. sweep' \in [step : {"idle", "pending", "decided"}, pending : SUBSET Rows, decided : SUBSET Rows]
      BY <2>3, <3>1 DEF PruneDeletesPending
    <3> QED BY Zenon, <2>3, <3>2 DEF PruneDeletesPending, SetType, rowVars, listVars, sideVars, histVars
  <2>4. NoSweep \in [step : {"idle", "pending", "decided"}, pending : SUBSET Rows, decided : SUBSET Rows]
    BY DEF NoSweep
  <2>5. CASE PruneDeletesDecided
    BY Zenon, <2>4, <2>5 DEF PruneDeletesDecided, SetType, rowVars, listVars, sideVars, histVars
  <2>6. ASSUME NEW u \in Users, DeleteUser(u)
        PROVE  SetType'
    BY Zenon, <2>6 DEF DeleteUser, SetType, listVars, sideVars
  <2>7. CASE ServerRestarts
    BY Zenon, <2>4, <2>7 DEF ServerRestarts, SetType
  <2> QED BY Zenon, <1>5, <2>1, <2>2, <2>3, <2>5, <2>6, <2>7 DEF HouseStep
<1> QED BY Zenon, <1>2, <1>3, <1>4, <1>5 DEF Next

-----------------------------------------------------------------------------
(* A row, from its request to the sidecar.                                 *)

New(q) == dec[q] \in {"none", "pending"}

\* A row nobody has decided has left no trace.
Fresh(q) ==
  New(q) =>
    /\ by[q] = NoUser
    /\ q \notin relaying /\ q \notin told /\ q \notin persisting /\ q \notin left
    /\ \A s \in Socks : ~ OnWire(s, VerdictFrame(q))

\* Its verdict is relayed once, and applied once.
Delivery(q) ==
  /\ Once(VerdictFrame(q))
  /\ q \in told => q \notin relaying
  /\ \A s \in Socks : OnWire(s, VerdictFrame(q)) => q \notin relaying /\ q \notin told

\* A forever verdict on its way to a list has an entry there.
Listable(q) == q \in persisting => ForeverEntry(q) \in Entries /\ dur[q] = "forever"

SaidType == said \in [Rows -> Verdicts \cup {"none"}]

RowInv == SaidType /\ \A q \in Rows : Fresh(q) /\ Delivery(q) /\ Listable(q)

\* A row that was decided, expired or recorded is not new again.
LEMMA NotNewAgain ==
  ASSUME PolicyInv, Next, NEW q \in Rows, ~ New(q)
  PROVE  ~ New(q)'
<1>1. Policy!Keep(q) \/ Policy!Enter(q) \/ Policy!Close(q) \/ Policy!End(q)
  BY Zenon, StepRefines DEF Policy!Next, Policy!One, Policy!Tidy, Policy!Ask, Policy!Restart,
     Policy!Offboard, Policy!Keep
<1>2. Effect(q) # "new"
  BY Zenon DEF New, Effect
<1>3. Effect(q)' # "new"
  BY Zenon, <1>1, <1>2 DEF Policy!Keep, Policy!Enter, Policy!Close, Policy!End
<1> QED BY Zenon, <1>3 DEF New, Effect

\* Its verdict and duration stay as they are.
LEMMA ColumnsStay ==
  ASSUME PolicyInv, SaidType, Next, NEW q \in Rows, ~ New(q)
  PROVE  said'[q] = said[q] /\ dur'[q] = dur[q] /\ ForeverEntry(q)' = ForeverEntry(q)
<1> DEFINE Same == said'[q] = said[q] /\ dur'[q] = dur[q]
<1>1. ASSUME UNCHANGED <<said, dur>>
      PROVE  Same
  BY Zenon, <1>1
<1>2. ASSUME NEW p \in Rows, RowStep(p)
      PROVE  Same
  <2>1. CASE Ask(p) \/ Lapse(p) \/ Persist(p) \/ PersistFails(p) \/ Relay(p) \/ VerdictLapses(p)
    BY Zenon, <1>1, <2>1 DEF Ask, Lapse, Persist, PersistFails, Relay, VerdictLapses, rowVars
  <2>2. CASE Expire(p)
    <3>1. p # q /\ dur' = [dur EXCEPT ![p] = "once"] /\ said' = said
      BY Zenon, <2>2 DEF Expire, New
    <3> QED BY Zenon, <3>1 DEF PolicyInv
  <2>3. ASSUME NEW d, NEW t, NEW u, Decide(p, d, t, u)
        PROVE  Same
    <3>1. p # q /\ dur' = [dur EXCEPT ![p] = t] /\ said' = [said EXCEPT ![p] = d]
      BY Zenon, <2>3 DEF Decide, New
    <3> QED BY Zenon, <3>1 DEF PolicyInv, SaidType
  <2>4. ASSUME NEW d, RecordStatic(p, d)
        PROVE  Same
    <3>1. p # q /\ dur' = dur /\ said' = [said EXCEPT ![p] = d]
      BY Zenon, <2>4 DEF RecordStatic, New
    <3> QED BY Zenon, <3>1 DEF SaidType
  <2> QED BY Zenon, <1>2, <2>1, <2>2, <2>3, <2>4 DEF RowStep
<1>3. ASSUME NEW c \in Calls, CallStep(c)
      PROVE  Same
  BY Zenon, <1>1, <1>3 DEF CallStep, RevokeReads, RevokeSends, RevokeSkips, AckArrives, AckTimesOut,
     RevokeMarks, RevokeRereads, RevokeShares, RevokeRetracts, RetractFails, rowVars
<1>4. ASSUME LinkStep
      PROVE  Same
  <2>1. said' = said /\ dur' = dur
    BY Zenon, <1>4 DEF LinkStep, Connect, HandlerEnds, Disconnect, SidecarApplies, SidecarDrops,
       rowVars
  <2> QED BY Zenon, <2>1
<1>5. ASSUME HouseStep
      PROVE  Same
  <2>1. said' = said /\ dur' = dur
    BY Zenon, <1>5 DEF HouseStep, ContainerStops, StartReads, ContainerStarts, PruneReads,
       PruneDeletesPending, PruneDeletesDecided, DeleteUser, ServerRestarts, rowVars
  <2> QED BY Zenon, <2>1
<1>6. Same
  BY Zenon, <1>2, <1>3, <1>4, <1>5 DEF Next
<1> QED BY Zenon, <1>6 DEF ForeverEntry

\* What a decided row is recorded as.
LEMMA SaidKept ==
  ASSUME SaidType, Next
  PROVE  SaidType'
<1>1. ASSUME UNCHANGED said
      PROVE  SaidType'
  BY Zenon, <1>1 DEF SaidType
<1>2. ASSUME NEW p \in Rows, RowStep(p)
      PROVE  SaidType'
  <2>1. ASSUME NEW d \in Verdicts, said' = [said EXCEPT ![p] = d]
        PROVE  SaidType'
    BY Zenon, <2>1 DEF SaidType
  <2> QED BY Zenon, <1>1, <1>2, <2>1 DEF RowStep, Ask, Decide, Expire, RecordStatic, Lapse, Persist,
          PersistFails, Relay, VerdictLapses, rowVars
<1>3. ASSUME NEW c \in Calls, CallStep(c)
      PROVE  SaidType'
  BY Zenon, <1>1, <1>3 DEF CallStep, RevokeReads, RevokeSends, RevokeSkips, AckArrives, AckTimesOut,
     RevokeMarks, RevokeRereads, RevokeShares, RevokeRetracts, RetractFails, rowVars
<1>4. CASE LinkStep
  BY Zenon, <1>1, <1>4 DEF LinkStep, Connect, HandlerEnds, Disconnect, SidecarApplies, SidecarDrops,
     rowVars
<1>5. CASE HouseStep
  BY Zenon, <1>1, <1>5 DEF HouseStep, ContainerStops, StartReads, ContainerStarts, PruneReads,
     PruneDeletesPending, PruneDeletesDecided, DeleteUser, ServerRestarts, rowVars
<1> QED BY Zenon, <1>2, <1>3, <1>4, <1>5 DEF Next

\* Only a decision makes a row one to relay, to persist, or to have a decider.
LEMMA DecisionMoves ==
  ASSUME PolicyInv, SaidType, Next, NEW q \in Rows
  PROVE  \/ /\ New(q) /\ ~ New(q)' /\ dur'[q] \in Durations /\ said'[q] \in Verdicts
            /\ UNCHANGED <<wire, told, left>>
            /\ q \in persisting' => q \in persisting \/ (ForeverEntry(q)' # NoEntry /\ dur'[q] = "forever")
         \/ /\ q \in relaying' => q \in relaying
            /\ q \in persisting' => q \in persisting
            /\ by'[q] = by[q] \/ by'[q] = NoUser
<1> DEFINE Quiet == /\ q \in relaying' => q \in relaying
                    /\ q \in persisting' => q \in persisting
                    /\ by'[q] = by[q] \/ by'[q] = NoUser
<1>1. ASSUME UNCHANGED <<relaying, persisting, by>>
      PROVE  Quiet
  BY Zenon, <1>1
<1>2. ASSUME NEW p \in Rows, NEW d \in Verdicts, NEW t \in Durations, NEW u \in Users,
             Decide(p, d, t, u), p # q
      PROVE  Quiet
  BY Zenon, <1>2 DEF Decide, PolicyInv
<1>3. ASSUME NEW d \in Verdicts, NEW t \in Durations, NEW u \in Users, Decide(q, d, t, u)
      PROVE  /\ New(q) /\ ~ New(q)' /\ dur'[q] \in Durations /\ said'[q] \in Verdicts
             /\ UNCHANGED <<wire, told, left>>
             /\ q \in persisting' => q \in persisting \/ (ForeverEntry(q)' # NoEntry /\ dur'[q] = "forever")
  <2>1. /\ dec[q] = "pending" /\ dec'[q] = d /\ said'[q] = d /\ dur'[q] = t
        /\ UNCHANGED <<wire, told, left>>
    BY Zenon, <1>3 DEF Decide, PolicyInv, SaidType, linkVars, sideVars
  <2>2. q \in persisting' => q \in persisting \/ (ForeverEntry(q)' # NoEntry /\ t = "forever")
    BY Zenon, <1>3 DEF Decide
  <2> QED BY Zenon, <2>1, <2>2 DEF New, Verdicts
<1>4. ASSUME NEW p \in Rows, RowStep(p),
             ~ \E d \in Verdicts, t \in Durations, u \in Users : Decide(p, d, t, u)
      PROVE  Quiet
  BY Zenon, <1>1, <1>4 DEF RowStep, Ask, Expire, RecordStatic, Lapse, Persist,
     PersistFails, Relay, VerdictLapses, rowVars, listVars
<1>5. ASSUME NEW c \in Calls, CallStep(c)
      PROVE  Quiet
  BY Zenon, <1>1, <1>5 DEF CallStep, RevokeReads, RevokeSends, RevokeSkips, AckArrives, AckTimesOut,
     RevokeMarks, RevokeRereads, RevokeShares, RevokeRetracts, RetractFails, rowVars, listVars
<1>6. CASE LinkStep
  BY Zenon, <1>1, <1>6 DEF LinkStep, Connect, HandlerEnds, Disconnect, SidecarApplies, SidecarDrops,
     rowVars, listVars
<1>7. CASE HouseStep
  BY Zenon, <1>1, <1>7 DEF HouseStep, ContainerStops, StartReads, ContainerStarts, PruneReads,
     PruneDeletesPending, PruneDeletesDecided, DeleteUser, ServerRestarts, rowVars, listVars
<1> QED BY Zenon, <1>2, <1>3, <1>4, <1>5, <1>6, <1>7 DEF Next

\* Only a verdict frame tells the sidecar, and it is then nowhere else.
LEMMA ToldMoves ==
  ASSUME PolicyInv, LinkType, SetType, Next, NEW q \in Rows, q \in told', q \notin told
  PROVE  /\ \E s \in Socks : OnWire(s, VerdictFrame(q))
         /\ relaying' = relaying /\ left' = left
         /\ Once(VerdictFrame(q)) => \A s \in Socks : ~ OnWire(s, VerdictFrame(q))'
<1>1. SidecarApplies
  <2>1. ASSUME NEW p \in Rows, RowStep(p)
        PROVE  FALSE
    BY Zenon, <2>1 DEF RowStep, Ask, Decide, Expire, RecordStatic, Lapse, Persist,
       PersistFails, Relay, VerdictLapses, sideVars
  <2>2. ASSUME NEW c \in Calls, CallStep(c)
        PROVE  FALSE
    BY Zenon, <2>2 DEF CallStep, RevokeReads, RevokeSends, RevokeSkips, AckArrives, AckTimesOut,
       RevokeMarks, RevokeRereads, RevokeShares, RevokeRetracts, RetractFails, sideVars
  <2>3. CASE LinkStep
    BY Zenon, <2>3 DEF LinkStep, Connect, HandlerEnds, Disconnect, SidecarDrops, sideVars
  <2>4. ~ HouseStep
    BY Zenon DEF HouseStep, ContainerStops, StartReads, ContainerStarts, PruneReads,
       PruneDeletesPending, PruneDeletesDecided, DeleteUser, ServerRestarts, sideVars
  <2> QED BY Zenon, <2>1, <2>2, <2>3, <2>4 DEF Next
<1>2. PICK s \in Socks : s = side /\ wire[s] # <<>> /\ wire' = [wire EXCEPT ![s] = Tail(@)]
  BY Zenon, <1>1 DEF SidecarApplies, LinkType
<1>3. PICK f : f = Head(wire[s])
  OBVIOUS
<1>4. /\ f \in Frames /\ OnWire(s, f)
      /\ Once(f) => \A t \in Socks : ~ OnWire(t, f)'
  BY Zenon, <1>2, <1>3, WireTakes DEF LinkType
<1>5. f.type = "verdict" /\ q = f.row /\ relaying' = relaying /\ left' = left
  BY Zenon, <1>1, <1>2, <1>3 DEF SidecarApplies, histVars
<1>6. f = VerdictFrame(q)
  BY Zenon, <1>4, <1>5, FrameKinds
<1>7. Once(VerdictFrame(q)) => \A t \in Socks : ~ OnWire(t, VerdictFrame(q))'
  BY Zenon, <1>4, <1>6 DEF VerdictFrame
<1> QED BY Zenon, <1>4, <1>5, <1>6, <1>7

\* Only a row with a decider is left by one.
LEMMA LeftMoves ==
  ASSUME Next, NEW q \in Rows, q \in left', q \notin left
  PROVE  by[q] \in Users
<1>1. ASSUME NEW p \in Rows, RowStep(p)
      PROVE  left' = left
  BY Zenon, <1>1 DEF RowStep, Ask, Decide, Expire, RecordStatic, Lapse, Persist,
     PersistFails, Relay, VerdictLapses, histVars
<1>2. ASSUME NEW c \in Calls, CallStep(c)
      PROVE  left' = left
  BY Zenon, <1>2 DEF CallStep, RevokeReads, RevokeSends, RevokeSkips, AckArrives, AckTimesOut,
     RevokeMarks, RevokeRereads, RevokeShares, RevokeRetracts, RetractFails, histVars
<1>3. LinkStep => left' = left
  BY Zenon DEF LinkStep, Connect, HandlerEnds, Disconnect, SidecarApplies, SidecarDrops, histVars
<1>4. HouseStep => left' = left \/ \E u \in Users : DeleteUser(u)
  BY Zenon DEF HouseStep, ContainerStops, StartReads, ContainerStarts, PruneReads,
     PruneDeletesPending, PruneDeletesDecided, ServerRestarts, histVars
<1>5. PICK u \in Users : DeleteUser(u)
  BY Zenon, <1>1, <1>2, <1>3, <1>4 DEF Next
<1> QED BY Zenon, <1>5 DEF DeleteUser

\* The entries of the verdicts on a row.
LEMMA EntryOf ==
  ASSUME NEW q \in Rows, NEW d \in Verdicts
  PROVE  <<d, HostOf[q], PortOf[q]>> \in Entries
<1>1. HostOf[q] \in Hosts
  BY Zenon, RowsAssumption
<1>2. \A h \in Hosts, p \in {PortOf[r] : r \in Rows} : <<d, h, p>> \in Entries
  BY SMTT(30) DEF Entries
<1> QED BY Zenon, <1>1, <1>2

\* What a row leaves behind follows its life.
LEMMA RowKept ==
  ASSUME PolicyInv, LinkType, SetType, RowInv, Next
  PROVE  RowInv'
<1>1. SaidType'
  BY Zenon, SaidKept DEF RowInv
<1>2. SUFFICES ASSUME NEW q \in Rows
               PROVE  Fresh(q)' /\ Delivery(q)' /\ Listable(q)'
  BY Zenon, <1>1 DEF RowInv
<1>3. Fresh(q) /\ Delivery(q) /\ Listable(q) /\ SaidType
  BY Zenon DEF RowInv
<1>4. New(q)' => New(q)
  BY Zenon, NotNewAgain
<1>5. /\ \A s \in Socks :
           OnWire(s, VerdictFrame(q))' =>
             OnWire(s, VerdictFrame(q)) \/ (q \in relaying /\ q \notin relaying')
      /\ Once(VerdictFrame(q)) /\ (q \in relaying => \A s \in Socks : ~ OnWire(s, VerdictFrame(q)))
           => Once(VerdictFrame(q))'
  BY Zenon, WireMoves
<1>6. Once(VerdictFrame(q))'
  BY Zenon, <1>3, <1>5 DEF Delivery
<1>7. q \in told' /\ q \notin told =>
        /\ \E s \in Socks : OnWire(s, VerdictFrame(q))
        /\ \A s \in Socks : ~ OnWire(s, VerdictFrame(q))'
        /\ q \in relaying' => q \in relaying
  BY Zenon, <1>3, ToldMoves DEF Delivery
<1>8. CASE /\ New(q) /\ ~ New(q)' /\ dur'[q] \in Durations /\ said'[q] \in Verdicts
           /\ UNCHANGED <<wire, told, left>>
           /\ q \in persisting' => q \in persisting \/ (ForeverEntry(q)' # NoEntry /\ dur'[q] = "forever")
  <2>1. Fresh(q)'
    BY Zenon, <1>8 DEF Fresh
  <2>2. q \notin told' /\ \A s \in Socks : ~ OnWire(s, VerdictFrame(q))'
    BY Zenon, <1>3, <1>5, <1>8 DEF Fresh
  <2>3. Delivery(q)'
    BY Zenon, <1>6, <2>2 DEF Delivery
  <2>4. ForeverEntry(q)' # NoEntry => ForeverEntry(q)' \in Entries
    BY Zenon, <1>8, EntryOf DEF ForeverEntry
  <2>5. Listable(q)'
    BY Zenon, <1>3, <1>8, <2>4 DEF Listable, Fresh
  <2> QED BY Zenon, <2>1, <2>3, <2>5
<1>9. CASE /\ q \in relaying' => q \in relaying
           /\ q \in persisting' => q \in persisting
           /\ by'[q] = by[q] \/ by'[q] = NoUser
  <2>1. Fresh(q)'
    <3> SUFFICES ASSUME New(q)'
                 PROVE  /\ by'[q] = NoUser
                        /\ q \notin relaying' /\ q \notin told' /\ q \notin persisting' /\ q \notin left'
                        /\ \A s \in Socks : ~ OnWire(s, VerdictFrame(q))'
      BY Zenon DEF Fresh
    <3>1. /\ by[q] = NoUser
          /\ q \notin relaying /\ q \notin told /\ q \notin persisting /\ q \notin left
          /\ \A s \in Socks : ~ OnWire(s, VerdictFrame(q))
      BY Zenon, <1>3, <1>4 DEF Fresh
    <3>2. q \notin left'
      BY Zenon, <3>1, LeftMoves, RowsAssumption
    <3>3. q \notin told'
      BY Zenon, <1>7, <3>1
    <3> QED BY Zenon, <1>5, <1>9, <3>1, <3>2, <3>3
  <2>2. Delivery(q)'
    <3>1. q \in told' => q \notin relaying'
      BY Zenon, <1>3, <1>7, <1>9 DEF Delivery
    <3>2. ASSUME NEW s \in Socks, OnWire(s, VerdictFrame(q))'
          PROVE  q \notin relaying' /\ q \notin told'
      <4>1. CASE OnWire(s, VerdictFrame(q))
        BY Zenon, <1>3, <1>7, <1>9, <3>2, <4>1 DEF Delivery
      <4>2. CASE q \in relaying /\ q \notin relaying'
        BY Zenon, <1>3, <1>7, <4>2 DEF Delivery
      <4> QED BY Zenon, <1>5, <3>2, <4>1, <4>2
    <3> QED BY Zenon, <1>6, <3>1, <3>2 DEF Delivery
  <2>3. Listable(q)'
    <3> SUFFICES ASSUME q \in persisting'
                 PROVE  ForeverEntry(q)' \in Entries /\ dur'[q] = "forever"
      BY Zenon DEF Listable
    <3>1. ~ New(q) /\ ForeverEntry(q) \in Entries /\ dur[q] = "forever"
      BY Zenon, <1>3, <1>9 DEF Listable, Fresh
    <3> QED BY Zenon, <1>3, <3>1, ColumnsStay
  <2> QED BY Zenon, <2>1, <2>2, <2>3
<1> QED BY Zenon, <1>3, <1>8, <1>9, DecisionMoves

-----------------------------------------------------------------------------
(* A call of revoke, from its read to its answer.                          *)

\* The call goes on about the same row.
Carries(c) ==
  call'[c].row = call[c].row /\ (call'[c].heard <=> call[c].heard)

Passes(c, k) ==
  /\ Carries(c) /\ (call'[c].dropped <=> call[c].dropped)
  /\ call'[c].step = k

Begins(c) ==
  /\ call[c].step = "idle"
  /\ \E q \in Rows : Decided(q) /\ RevokeReads(c, q) /\ call'[c] = Begun(q)

Answers(c) ==
  /\ call'[c].step = "done"
  /\ Busy(c) /\ call'[c].ok =>
       \/ call[c].step \in {"mark", "fresh"} /\ dec'[call[c].row] = "revoked"
       \/ call[c].step \in {"share", "retract"}

Sends(c) == RevokeSends(c) /\ call[c].step = "read" /\ Passes(c, "ack")
Skips(c) == call[c].step = "read" /\ Passes(c, "mark") /\ call'[c].via = call[c].via

Acked(c) ==
  /\ call[c].step = "ack" /\ Passes(c, "mark") /\ call'[c].via = call[c].via
  /\ \E s \in Socks : <<s, c>> \in back

Rereads(c) == call[c].step = "mark" /\ Passes(c, "fresh") /\ call'[c].via = call[c].via

Shares(c) ==
  /\ call[c].step \in {"mark", "fresh"} /\ Passes(c, "share") /\ call'[c].via = call[c].via
  /\ dec'[call[c].row] = "revoked"

Retracts(c) ==
  /\ call[c].step = "share" /\ Passes(c, "retract") /\ call'[c].via = call[c].via
  /\ RevokeShares(c) /\ ~ StillShared(call[c].row)

Drops(c, q) ==
  /\ \E s \in Socks : OnWire(s, DropFrame(q, c))
  /\ told' = told \ DropTargets(q)
  /\ Carries(c) /\ call'[c].step = call[c].step /\ call'[c].via = call[c].via
  /\ call'[c].dropped <=> (call[c].dropped \/ call[c].step = "ack")

\* The record of a call that moves on.
LEMMA GotoMoves ==
  ASSUME PolicyInv, NEW c \in Calls, NEW k \in Steps, Goto(c, k)
  PROVE  /\ Passes(c, k) /\ call'[c].via = call[c].via
         /\ \A b \in Calls \ {c} : call'[b] = call[b]
<1>1. call \in [Calls -> Call]
  BY Zenon DEF PolicyInv
<1>2. call'[c] = [call[c] EXCEPT !.step = k] /\ \A b \in Calls \ {c} : call'[b] = call[b]
  BY SMTT(30), <1>1 DEF Goto
<1>3. \A r \in Call : LET m == [r EXCEPT !.step = k] IN
        m.step = k /\ m.row = r.row /\ m.via = r.via /\ m.dropped = r.dropped /\ m.heard = r.heard
  BY Zenon DEF Call
<1>4. call[c] \in Call
  BY Zenon, <1>1
<1>5. /\ call'[c].step = k /\ call'[c].row = call[c].row /\ call'[c].via = call[c].via
      /\ call'[c].dropped = call[c].dropped /\ call'[c].heard = call[c].heard
  BY Zenon, <1>2, <1>3, <1>4
<1> QED BY Zenon, <1>2, <1>5 DEF Passes, Carries

\* The record of a call that answers.
LEMMA ReturnMoves ==
  ASSUME PolicyInv, NEW c \in Calls, NEW ok \in BOOLEAN, Return(c, ok)
  PROVE  /\ call'[c].step = "done" /\ (call'[c].ok <=> ok)
         /\ \A b \in Calls \ {c} : call'[b] = call[b]
<1>1. call \in [Calls -> Call]
  BY Zenon DEF PolicyInv
<1>2. call'[c] = Ended(ok) /\ \A b \in Calls \ {c} : call'[b] = call[b]
  BY SMTT(30), <1>1 DEF Return
<1>3. Ended(ok).step = "done" /\ Ended(ok).ok = ok
  BY Zenon DEF Ended
<1> QED BY Zenon, <1>2, <1>3

\* The sidecar carries out the drop of one call.
LEMMA DropMoves ==
  ASSUME PolicyInv, LinkType, SidecarDrops
  PROVE  \E c \in Calls, q \in Rows :
           /\ Drops(c, q)
           /\ \A s \in Socks, b \in Calls : <<s, b>> \in back' => <<s, b>> \in back \/ b = c
           /\ \A b \in Calls \ {c} : call'[b] = call[b]
<1>1. PICK s \in Socks : s = side /\ wire[s] # <<>>
  BY Zenon DEF SidecarDrops, LinkType
<1>2. PICK f : f = Head(wire[s])
  OBVIOUS
<1>3. wire' = [wire EXCEPT ![s] = Tail(@)]
  BY Zenon, <1>1 DEF SidecarDrops
<1>4. f \in Frames /\ OnWire(s, f)
  BY Zenon, <1>1, <1>2, <1>3, WireTakes DEF LinkType
<1>5. f.type = "drop" /\ told' = told \ DropTargets(f.row) /\ back' = back \cup {<<s, f.id>>}
  BY Zenon, <1>1, <1>2 DEF SidecarDrops
<1>6. PICK q \in Rows, c \in Calls : f = DropFrame(q, c) /\ f.row = q /\ f.id = c
  BY Zenon, <1>4, <1>5, FrameKinds DEF DropFrame
<1>7. call' = [call EXCEPT ![c].dropped = @ \/ call[c].step = "ack"]
  BY Zenon, <1>1, <1>2, <1>6 DEF SidecarDrops
<1>8. call \in [Calls -> Call] /\ call[c] \in Call
  BY Zenon DEF PolicyInv
<1>9. /\ call'[c] = [call[c] EXCEPT !.dropped = (call[c].dropped \/ call[c].step = "ack")]
      /\ \A b \in Calls \ {c} : call'[b] = call[b]
  BY SMTT(30), <1>7, <1>8
<1>10. \A r \in Call, d \in BOOLEAN : LET m == [r EXCEPT !.dropped = d] IN
         m.step = r.step /\ m.row = r.row /\ m.via = r.via /\ m.dropped = d /\ m.heard = r.heard
  BY Zenon DEF Call
<1>11. PICK d \in BOOLEAN :
         /\ d = (call[c].dropped \/ call[c].step = "ack")
         /\ call'[c] = [call[c] EXCEPT !.dropped = d]
  <2>1. (call[c].dropped \/ call[c].step = "ack") \in BOOLEAN
    BY Zenon
  <2> QED BY Zenon, <1>9, <2>1
<1>12. /\ call'[c].step = call[c].step /\ call'[c].row = call[c].row /\ call'[c].via = call[c].via
       /\ call'[c].dropped = d /\ call'[c].heard = call[c].heard
  <2>1. LET m == [call[c] EXCEPT !.dropped = d] IN
          m.step = call[c].step /\ m.row = call[c].row /\ m.via = call[c].via
          /\ m.dropped = d /\ m.heard = call[c].heard
    BY Zenon, <1>8, <1>10
  <2> QED BY Zenon, <1>11, <2>1
<1>13. Drops(c, q)
  BY Zenon, <1>4, <1>5, <1>6, <1>11, <1>12 DEF Drops, Carries
<1>14. \A t \in Socks, b \in Calls : <<t, b>> \in back' => <<t, b>> \in back \/ b = c
  BY SMTT(30), <1>5, <1>6
<1> QED BY Zenon, <1>9, <1>13, <1>14

\* How a call moves.
Moves(c) ==
  \/ call'[c] = call[c]
  \/ Answers(c) \/ Begins(c) \/ Sends(c) \/ Skips(c) \/ Acked(c)
  \/ Rereads(c) \/ Shares(c) \/ Retracts(c)
  \/ \E q \in Rows : Drops(c, q)

\* A step of a call moves it, and no other.
LEMMA OwnMoves ==
  ASSUME PolicyInv, NEW c \in Calls, CallStep(c)
  PROVE  Moves(c) /\ \A b \in Calls \ {c} : call'[b] = call[b]
<1> DEFINE P == Moves(c) /\ \A b \in Calls \ {c} : call'[b] = call[b]
<1>0. call \in [Calls -> Call] /\ (Busy(c) => call[c].row \in Rows)
  BY Zenon DEF PolicyInv
<1>1. ASSUME NEW q \in Rows, RevokeReads(c, q)
      PROVE  P
  <2>1. call[c].step = "idle" /\ ~ Busy(c)
    BY Zenon, <1>1 DEF RevokeReads, Busy
  <2>2. /\ call'[c] = (IF Decided(q) THEN Begun(q) ELSE Ended(dec[q] = "revoked"))
        /\ \A b \in Calls \ {c} : call'[b] = call[b]
    BY Zenon, <1>0, <1>1 DEF RevokeReads
  <2>3. CASE Decided(q)
    BY Zenon, <1>1, <2>1, <2>2, <2>3 DEF Moves, Begins
  <2>4. CASE ~ Decided(q)
    <3>1. \A ok : Ended(ok).step = "done"
      BY Zenon DEF Ended
    <3>2. call'[c].step = "done"
      BY Zenon, <2>2, <2>4, <3>1
    <3> QED BY Zenon, <2>1, <2>2, <3>2 DEF Moves, Answers
  <2> QED BY Zenon, <2>3, <2>4
<1>2. CASE RevokeSends(c)
  <2>1. /\ call'[c] = [call[c] EXCEPT !.step = "ack", !.via = "ack"]
        /\ \A b \in Calls \ {c} : call'[b] = call[b]
    BY SMTT(30), <1>0, <1>2 DEF RevokeSends
  <2>2. \A r \in Call : LET m == [r EXCEPT !.step = "ack", !.via = "ack"] IN
          m.step = "ack" /\ m.row = r.row /\ m.dropped = r.dropped /\ m.heard = r.heard
    BY Zenon DEF Call
  <2>3. call[c] \in Call
    BY Zenon, <1>0
  <2>4. /\ call'[c].step = "ack" /\ call'[c].row = call[c].row
        /\ call'[c].dropped = call[c].dropped /\ call'[c].heard = call[c].heard
    BY Zenon, <2>1, <2>2, <2>3
  <2>5. call[c].step = "read"
    BY Zenon, <1>2 DEF RevokeSends
  <2> QED BY Zenon, <1>2, <2>1, <2>4, <2>5 DEF Moves, Sends, Passes, Carries
<1>3. "mark" \in Steps /\ "fresh" \in Steps /\ "share" \in Steps /\ "retract" \in Steps
  BY Zenon DEF Steps
<1>4. CASE RevokeSkips(c)
  BY Zenon, <1>3, <1>4, GotoMoves DEF RevokeSkips, Moves, Skips
<1>5. ASSUME NEW s \in Socks, AckArrives(s, c)
      PROVE  P
  BY Zenon, <1>3, <1>5, GotoMoves DEF AckArrives, Moves, Acked
<1>6. CASE AckTimesOut(c)
  <2>1. call'[c].step = "done" /\ ~ call'[c].ok /\ \A b \in Calls \ {c} : call'[b] = call[b]
    BY Zenon, <1>6, ReturnMoves DEF AckTimesOut
  <2> QED BY Zenon, <2>1 DEF Moves, Answers
<1>7. ASSUME call[c].step \in {"mark", "fresh"}, dec'[call[c].row] = "revoked", Marked(c)
      PROVE  P
  <2>1. CASE Goto(c, "share")
    BY Zenon, <1>3, <1>7, <2>1, GotoMoves DEF Moves, Shares
  <2>2. CASE Return(c, TRUE)
    BY Zenon, <1>7, <2>2, ReturnMoves DEF Moves, Answers
  <2> QED BY Zenon, <1>7, <2>1, <2>2 DEF Marked
<1>8. CASE RevokeMarks(c)
  <2>1. CASE Decided(call[c].row)
    <3>1. call[c].step = "mark" /\ dec' = [dec EXCEPT ![call[c].row] = "revoked"] /\ Marked(c)
      BY Zenon, <1>8, <2>1 DEF RevokeMarks
    <3>2. Busy(c)
      BY Zenon, <3>1 DEF Busy
    <3>3. dec'[call[c].row] = "revoked"
      BY Zenon, <1>0, <3>1, <3>2 DEF PolicyInv
    <3> QED BY Zenon, <1>7, <3>1, <3>3
  <2>2. CASE ~ Decided(call[c].row)
    BY Zenon, <1>3, <1>8, <2>2, GotoMoves DEF RevokeMarks, Moves, Rereads
  <2> QED BY Zenon, <2>1, <2>2
<1>9. CASE RevokeRereads(c)
  <2>1. CASE dec[call[c].row] = "revoked"
    BY Zenon, <1>7, <1>9, <2>1 DEF RevokeRereads, rowVars
  <2>2. CASE dec[call[c].row] # "revoked"
    <3>1. call'[c].step = "done" /\ ~ call'[c].ok /\ \A b \in Calls \ {c} : call'[b] = call[b]
      BY Zenon, <1>9, <2>2, ReturnMoves DEF RevokeRereads
    <3> QED BY Zenon, <3>1 DEF Moves, Answers
  <2> QED BY Zenon, <2>1, <2>2
<1>10. CASE RevokeShares(c)
  <2>1. CASE StillShared(call[c].row)
    BY Zenon, <1>10, <2>1, ReturnMoves DEF RevokeShares, Moves, Answers
  <2>2. CASE ~ StillShared(call[c].row)
    BY Zenon, <1>3, <1>10, <2>2, GotoMoves DEF RevokeShares, Moves, Retracts
  <2> QED BY Zenon, <2>1, <2>2
<1>11. CASE RevokeRetracts(c) \/ RetractFails(c)
  BY Zenon, <1>11, ReturnMoves DEF RevokeRetracts, RetractFails, Moves, Answers
<1> QED BY Zenon, <1>1, <1>2, <1>4, <1>5, <1>6, <1>8, <1>9, <1>10, <1>11 DEF CallStep

\* Nothing else moves a call but its socket, the sidecar and a restart.
LEMMA CallMoves ==
  ASSUME PolicyInv, LinkType, Next, NEW c \in Calls
  PROVE  Moves(c)
<1>1. ASSUME NEW b \in Calls, CallStep(b)
      PROVE  Moves(c)
  BY Zenon, <1>1, OwnMoves DEF Moves
<1>2. ASSUME call'[c] = call[c]
      PROVE  Moves(c)
  BY Zenon, <1>2 DEF Moves
<1>3. ASSUME call'[c] = Ended(FALSE)
      PROVE  Moves(c)
  <2>1. Ended(FALSE).step = "done" /\ Ended(FALSE).ok = FALSE
    BY Zenon DEF Ended
  <2>2. call'[c].step = "done" /\ ~ call'[c].ok
    BY Zenon, <1>3, <2>1
  <2> QED BY Zenon, <2>2 DEF Moves, Answers
<1>4. ASSUME NEW q \in Rows, RowStep(q)
      PROVE  Moves(c)
  BY Zenon, <1>2, <1>4 DEF RowStep, Ask, Decide, Expire, RecordStatic, Lapse, Persist,
     PersistFails, Relay, VerdictLapses
<1>5. ASSUME LinkStep
      PROVE  Moves(c)
  <2>1. CASE SidecarDrops
    BY Zenon, <1>2, <2>1, DropMoves DEF Moves
  <2>2. ASSUME NEW s \in Socks, HandlerEnds(s)
        PROVE  Moves(c)
    BY Zenon, <1>2, <1>3, <2>2 DEF HandlerEnds, Deregister
  <2> QED BY Zenon, <1>2, <1>5, <2>1, <2>2 DEF LinkStep, Connect, Disconnect, SidecarApplies
<1>6. ASSUME HouseStep
      PROVE  Moves(c)
  BY Zenon, <1>2, <1>3, <1>6 DEF HouseStep, ContainerStops, StartReads, ContainerStarts, PruneReads,
     PruneDeletesPending, PruneDeletesDecided, DeleteUser, ServerRestarts
<1> QED BY Zenon, <1>1, <1>4, <1>5, <1>6 DEF Next

\* An ack is on its way only for a call whose drop the sidecar took.
LEMMA BackMoves ==
  ASSUME PolicyInv, LinkType, Next, NEW c \in Calls, NEW s \in Socks,
         <<s, c>> \in back', <<s, c>> \notin back
  PROVE  \E q \in Rows : Drops(c, q)
<1>1. ASSUME NEW q \in Rows, RowStep(q)
      PROVE  FALSE
  BY Zenon, <1>1 DEF RowStep, Ask, Decide, Expire, RecordStatic, Lapse, Persist,
     PersistFails, Relay, VerdictLapses, linkVars
<1>2. ASSUME NEW b \in Calls, CallStep(b)
      PROVE  FALSE
  BY Zenon, <1>2 DEF CallStep, RevokeReads, RevokeSends, RevokeSkips, AckArrives, AckTimesOut,
     RevokeMarks, RevokeRereads, RevokeShares, RevokeRetracts, RetractFails, linkVars
<1>3. ~ HouseStep
  BY Zenon DEF HouseStep, ContainerStops, StartReads, ContainerStarts, PruneReads,
     PruneDeletesPending, PruneDeletesDecided, DeleteUser, ServerRestarts, linkVars
<1>4. LinkStep => SidecarDrops
  BY Zenon DEF LinkStep, Connect, HandlerEnds, Disconnect, SidecarApplies, linkVars
<1>5. SidecarDrops
  BY Zenon, <1>1, <1>2, <1>3, <1>4 DEF Next
<1> QED BY Zenon, <1>5, DropMoves

\* The verdict a call found at the sidecar is not on its way there a second time.
NotAgain(c) ==
  Busy(c) /\ call[c].heard =>
    /\ call[c].row \notin relaying
    /\ \A s \in Socks : ~ OnWire(s, VerdictFrame(call[c].row))

\* A drop on its way is the call's own.
OwnDrop(c) ==
  \A s \in Socks, q \in Rows : OnWire(s, DropFrame(q, c)) =>
    /\ call[c].step \notin {"idle", "read"}
    /\ call[c].step = "ack" => q = call[c].row

\* An ack stands for a drop that was taken.
TrueAck(c) ==
  /\ \A s \in Socks : <<s, c>> \in back =>
       /\ call[c].step \notin {"idle", "read"}
       /\ call[c].step = "ack" => call[c].dropped
  /\ call[c].step = "read" => call[c].via = "none"
  /\ call[c].step \in {"mark", "fresh", "share", "retract"} /\ call[c].via = "ack" => call[c].dropped

\* Of a verdict that was dropped the sidecar is told no more.
Silent(c) == Busy(c) /\ call[c].dropped /\ call[c].heard => call[c].row \notin told

\* The row of a call is a verdict, and out of effect from the mark on.
Ending(c) ==
  /\ Busy(c) => ~ New(call[c].row)
  /\ call[c].step \in {"share", "retract"} => Effect(call[c].row) = "out"

CallInv ==
  \A c \in Calls : NotAgain(c) /\ OwnDrop(c) /\ TrueAck(c) /\ Silent(c) /\ Ending(c)

\* A call keeps what its answer rests on.
LEMMA CallKept ==
  ASSUME PolicyInv, LinkType, SetType, RowInv, CallInv, Next
  PROVE  CallInv'
<1>1. SUFFICES ASSUME NEW c \in Calls
               PROVE  NotAgain(c)' /\ OwnDrop(c)' /\ TrueAck(c)' /\ Silent(c)' /\ Ending(c)'
  BY Zenon DEF CallInv
<1>2. NotAgain(c) /\ OwnDrop(c) /\ TrueAck(c) /\ Silent(c) /\ Ending(c)
  BY Zenon DEF CallInv
<1>3. Moves(c) /\ (Busy(c) => call[c].row \in Rows) /\ SaidType
  BY Zenon, CallMoves DEF PolicyInv, RowInv
<1>4. \A q \in Rows : /\ Begun(q).step = "read" /\ Begun(q).row = q /\ Begun(q).via = "none"
                      /\ ~ Begun(q).dropped /\ (Begun(q).heard => q \in told)
  BY Zenon DEF Begun
<1>5. Policy!Next
  BY Zenon, StepRefines
\* A busy call went on from what it was, or began just now.
<1>6. ASSUME Busy(c)'
      PROVE  \/ Busy(c) /\ Carries(c)
             \/ Begins(c)
  BY Zenon, <1>3, <1>6 DEF Moves, Busy, Answers, Carries, Sends, Skips, Acked, Rereads, Shares,
     Retracts, Passes, Drops
<1>7. PICK r : r = call'[c].row
  OBVIOUS
<1>8. ASSUME Busy(c)'
      PROVE  /\ r \in Rows /\ ~ New(r)
             /\ call'[c].heard =>
                  /\ r \notin relaying
                  /\ \A s \in Socks : ~ OnWire(s, VerdictFrame(r))
  <2>1. CASE Busy(c) /\ Carries(c)
    BY Zenon, <1>2, <1>3, <1>7, <2>1 DEF Carries, NotAgain, Ending
  <2>2. CASE Begins(c)
    <3>1. PICK q \in Rows : Decided(q) /\ call'[c] = Begun(q)
      BY Zenon, <2>2 DEF Begins
    <3>2. r = q /\ (call'[c].heard => q \in told)
      BY Zenon, <1>4, <1>7, <3>1
    <3>3. ~ New(q)
      BY Zenon, <3>1 DEF Decided, New, Verdicts
    <3> QED BY Zenon, <3>2, <3>3 DEF RowInv, Delivery
  <2> QED BY Zenon, <1>6, <1>8, <2>1, <2>2
<1>9. NotAgain(c)'
  <2> SUFFICES ASSUME Busy(c)', call'[c].heard
               PROVE  r \notin relaying' /\ \A s \in Socks : ~ OnWire(s, VerdictFrame(r))'
    BY Zenon, <1>7 DEF NotAgain, VerdictFrame, OnWire
  <2>1. r \in Rows /\ ~ New(r) /\ r \notin relaying /\ \A s \in Socks : ~ OnWire(s, VerdictFrame(r))
    BY Zenon, <1>8
  <2>2. r \notin relaying'
    BY Zenon, <1>3, <2>1, DecisionMoves
  <2> QED BY Zenon, <2>1, <2>2, WireMoves
<1>10. OwnDrop(c)'
  <2> SUFFICES ASSUME NEW s \in Socks, NEW q \in Rows, OnWire(s, DropFrame(q, c))'
               PROVE  /\ call'[c].step \notin {"idle", "read"}
                      /\ call'[c].step = "ack" => q = call'[c].row
    BY Zenon DEF OwnDrop
  <2>1. CASE RevokeSends(c) /\ q = call[c].row
    <3>2. call \in [Calls -> Call]
      BY Zenon DEF PolicyInv
    <3>3. call'[c] = [call[c] EXCEPT !.step = "ack", !.via = "ack"]
      BY SMTT(30), <2>1, <3>2 DEF RevokeSends
    <3>4. \A m \in Call : /\ [m EXCEPT !.step = "ack", !.via = "ack"].step = "ack"
                          /\ [m EXCEPT !.step = "ack", !.via = "ack"].row = m.row
      BY Zenon DEF Call
    <3>5. call'[c].step = "ack" /\ call'[c].row = call[c].row
      BY Zenon, <3>2, <3>3, <3>4
    <3> QED BY Zenon, <2>1, <3>5
  <2>2. CASE OnWire(s, DropFrame(q, c))
    <3>1. call[c].step \notin {"idle", "read"} /\ (call[c].step = "ack" => q = call[c].row)
      BY Zenon, <1>2, <2>2 DEF OwnDrop
    <3> QED BY Zenon, <1>3, <3>1 DEF Moves, Answers, Begins, Sends, Skips, Acked, Rereads, Shares,
            Retracts, Passes, Drops, Carries
  <2> QED BY Zenon, <2>1, <2>2, WireMoves
<1>11. TrueAck(c)'
  <2>1. ASSUME NEW s \in Socks, <<s, c>> \in back'
        PROVE  /\ call'[c].step \notin {"idle", "read"}
               /\ call'[c].step = "ack" => call'[c].dropped
    <3>1. ASSUME NEW q \in Rows, Drops(c, q)
          PROVE  /\ call'[c].step \notin {"idle", "read"}
                 /\ call'[c].step = "ack" => call'[c].dropped
      BY Zenon, <1>2, <3>1 DEF Drops, OwnDrop
    <3>2. CASE <<s, c>> \in back
      <4>1. call[c].step \notin {"idle", "read"} /\ (call[c].step = "ack" => call[c].dropped)
        BY Zenon, <1>2, <3>2 DEF TrueAck
      <4> QED BY Zenon, <1>3, <3>1, <4>1 DEF Moves, Answers, Begins, Sends, Skips, Acked, Rereads,
              Shares, Retracts, Passes
    <3> QED BY Zenon, <2>1, <3>1, <3>2, BackMoves
  <2>2. call'[c].step = "read" => call'[c].via = "none"
    BY Zenon, <1>2, <1>3, <1>4 DEF TrueAck, Moves, Answers, Begins, Sends, Skips, Acked, Rereads,
       Shares, Retracts, Passes, Drops
  <2>3. ASSUME call'[c].step \in {"mark", "fresh", "share", "retract"}, call'[c].via = "ack"
        PROVE  call'[c].dropped
    <3>1. CASE call'[c] = call[c] \/ \E q \in Rows : Drops(c, q)
      BY Zenon, <1>2, <2>3, <3>1 DEF TrueAck, Drops
    <3>2. CASE Skips(c)
      BY Zenon, <1>2, <2>3, <3>2 DEF TrueAck, Skips
    <3>3. CASE Acked(c)
      BY Zenon, <1>2, <3>3 DEF TrueAck, Acked, Passes
    <3>4. CASE Rereads(c) \/ Shares(c) \/ Retracts(c)
      BY Zenon, <1>2, <2>3, <3>4 DEF TrueAck, Rereads, Shares, Retracts, Passes
    <3>5. CASE Answers(c) \/ Sends(c)
      BY Zenon, <2>3, <3>5 DEF Answers, Sends, Passes
    <3>6. CASE Begins(c)
      BY Zenon, <1>4, <2>3, <3>6 DEF Begins
    <3> QED BY Zenon, <1>3, <3>1, <3>2, <3>3, <3>4, <3>5, <3>6 DEF Moves
  <2> QED BY Zenon, <2>1, <2>2, <2>3 DEF TrueAck
<1>12. Silent(c)'
  <2> SUFFICES ASSUME Busy(c)', call'[c].dropped, call'[c].heard
               PROVE  r \notin told'
    BY Zenon, <1>7 DEF Silent
  <2>1. r \in Rows /\ \A s \in Socks : ~ OnWire(s, VerdictFrame(r))
    BY Zenon, <1>8
  <2>2. r \in told' => r \in told
    BY Zenon, <2>1, ToldMoves
  <2>3. ~ Begins(c)
    BY Zenon, <1>4 DEF Begins
  <2>4. Busy(c) /\ r = call[c].row /\ call[c].heard
    BY Zenon, <1>6, <1>7, <2>3 DEF Carries
  <2>5. CASE call[c].dropped
    BY Zenon, <1>2, <2>2, <2>4, <2>5 DEF Silent
  <2>6. CASE ~ call[c].dropped
    <3>1. PICK q \in Rows : Drops(c, q)
      BY Zenon, <1>3, <2>3, <2>6 DEF Moves, Answers, Busy, Sends, Skips, Acked, Rereads,
         Shares, Retracts, Passes
    <3>2. q = r /\ told' = told \ DropTargets(r)
      BY Zenon, <1>2, <2>4, <2>6, <3>1 DEF Drops, OwnDrop
    <3> QED BY Zenon, <2>1, <3>2 DEF DropTargets
  <2> QED BY Zenon, <2>5, <2>6
<1>13. Ending(c)'
  <2>1. Busy(c)' => ~ New(r)'
    BY Zenon, <1>8, NotNewAgain
  <2>3. ASSUME call'[c].step \in {"share", "retract"}
        PROVE  Effect(r)' = "out"
    <3>1. Busy(c)' /\ r \in Rows
      BY Zenon, <1>8, <2>3 DEF Busy
    <3>2. ~ Begins(c)
      BY Zenon, <1>4, <2>3 DEF Begins
    <3>3. Busy(c) /\ r = call[c].row
      BY Zenon, <1>6, <1>7, <3>1, <3>2 DEF Carries
    <3>4. CASE Shares(c)
      <4>1. dec'[r] = "revoked"
        BY Zenon, <3>3, <3>4 DEF Shares
      <4> QED BY Zenon, <4>1 DEF Effect, InEffect, Decided, Verdicts
    <3>5. CASE ~ Shares(c)
      <4>1. call[c].step \in {"share", "retract"}
        BY Zenon, <1>3, <2>3, <3>2, <3>5 DEF Moves, Answers, Sends, Skips, Acked, Rereads,
           Retracts, Passes, Drops
      <4>2. Effect(r) = "out"
        BY Zenon, <1>2, <3>3, <4>1 DEF Ending
      <4> QED BY Zenon, <1>5, <3>1, <4>2, OutIsForGood
    <3> QED BY Zenon, <3>4, <3>5
  <2> QED BY Zenon, <1>7, <2>1, <2>3 DEF Ending, New, Effect, InEffect, Decided, DurationInEffect
<1> QED BY Zenon, <1>9, <1>10, <1>11, <1>12, <1>13

-----------------------------------------------------------------------------
(* The lists.                                                              *)

\* q is a forever verdict in effect with entry e, or is being written to it;
\* c is a revoke of it; nothing that leaves the lists to themselves happened.
Holds(q, e) == InEffect(q) /\ dur[q] = "forever" /\ ForeverEntry(q) = e
On(e) == \E q \in Rows : Holds(q, e)
Writes(q, e) == q \in persisting /\ ForeverEntry(q) = e
About(c, e) == Busy(c) /\ ForeverEntry(call[c].row) = e
Leaves(c, e) == About(c, e) /\ call[c].step \in {"share", "retract"}
Calm(e) == e \notin met /\ \A q \in left : ForeverEntry(q) # e

\* On a list is what is in effect, or about to leave it.
Listed(e) ==
  /\ e \in lists => On(e) \/ \E c \in Calls : Leaves(c, e)
  /\ On(e) => e \in lists \/ \E q \in Rows : Writes(q, e)
  /\ \A q \in Rows : Writes(q, e) => Holds(q, e) /\ \A c \in Calls : ~ About(c, e)
  /\ \A c \in Calls : About(c, e) /\ call[c].step = "retract" => ~ On(e)

ListInv == \A e \in Entries : Calm(e) => Listed(e)

Known == PolicyInv /\ LinkType /\ SetType /\ RowInv /\ CallInv

\* What overlapped stays so.
LEMMA MetStays ==
  ASSUME Next
  PROVE  met \subseteq met' /\ left \subseteq left'
<1>1. ASSUME NEW q \in Rows, RowStep(q)
      PROVE  met \subseteq met' /\ left \subseteq left'
  BY Zenon, <1>1 DEF RowStep, Ask, Decide, Expire, RecordStatic, Lapse, Persist,
     PersistFails, Relay, VerdictLapses, histVars
<1>2. ASSUME NEW c \in Calls, CallStep(c)
      PROVE  met \subseteq met' /\ left \subseteq left'
  BY Zenon, <1>2 DEF CallStep, RevokeReads, RevokeSends, RevokeSkips, AckArrives, AckTimesOut,
     RevokeMarks, RevokeRereads, RevokeShares, RevokeRetracts, RetractFails, histVars
<1>3. LinkStep => met \subseteq met' /\ left \subseteq left'
  BY Zenon DEF LinkStep, Connect, HandlerEnds, Disconnect, SidecarApplies, SidecarDrops, histVars
<1>4. HouseStep => met \subseteq met' /\ left \subseteq left'
  BY Zenon DEF HouseStep, ContainerStops, StartReads, ContainerStarts, PruneReads,
     PruneDeletesPending, PruneDeletesDecided, DeleteUser, ServerRestarts, histVars
<1> QED BY Zenon, <1>1, <1>2, <1>3, <1>4 DEF Next

\* What is calm now was so before.
LEMMA CalmBefore ==
  ASSUME Known, Next, NEW e, Calm(e)'
  PROVE  Calm(e)
<1>1. e \notin met
  BY Zenon, MetStays DEF Calm
<1>2. ASSUME NEW q \in left
      PROVE  ForeverEntry(q) # e
  <2>1. q \in Rows /\ q \in left'
    BY Zenon, MetStays DEF Known, SetType
  <2>2. ~ New(q)
    BY Zenon, <2>1 DEF Known, RowInv, Fresh
  <2>3. ForeverEntry(q)' = ForeverEntry(q)
    BY Zenon, <2>1, <2>2, ColumnsStay DEF Known, RowInv
  <2> QED BY Zenon, <2>1, <2>3 DEF Calm
<1> QED BY Zenon, <1>1, <1>2 DEF Calm

\* A verdict comes into effect by a decision, or is a policy record.
LEMMA VerdictMoves ==
  ASSUME PolicyInv, Next, NEW q \in Rows, New(q), ~ New(q)', dec'[q] \in Verdicts
  PROVE  \/ \E d \in Verdicts, t \in Durations, u \in Users : Decide(q, d, t, u)
         \/ by' = by
<1>1. dec[q] \notin Verdicts
  BY Zenon DEF New, Verdicts
<1>2. ASSUME NEW p \in Rows, RowStep(p)
      PROVE  \/ \E d \in Verdicts, t \in Durations, u \in Users : Decide(q, d, t, u)
             \/ by' = by
  <2>1. ASSUME NEW d \in Verdicts, NEW t \in Durations, NEW u \in Users, Decide(p, d, t, u)
        PROVE  p = q
    <3>1. dec' = [dec EXCEPT ![p] = d]
      BY Zenon, <2>1 DEF Decide
    <3> QED BY Zenon, <1>1, <3>1 DEF PolicyInv
  <2> QED BY Zenon, <1>2, <2>1 DEF RowStep, Ask, Expire, RecordStatic, Lapse, Persist,
          PersistFails, Relay, VerdictLapses, rowVars
<1>3. ASSUME NEW c \in Calls, CallStep(c)
      PROVE  by' = by
  BY Zenon, <1>3 DEF CallStep, RevokeReads, RevokeSends, RevokeSkips, AckArrives, AckTimesOut,
     RevokeMarks, RevokeRereads, RevokeShares, RevokeRetracts, RetractFails, rowVars
<1>4. LinkStep => by' = by
  BY Zenon DEF LinkStep, Connect, HandlerEnds, Disconnect, SidecarApplies, SidecarDrops, rowVars
<1>5. HouseStep => by' = by
  <2>1. ASSUME NEW u \in Users, DeleteUser(u)
        PROVE  FALSE
    BY Zenon, <1>1, <2>1 DEF DeleteUser
  <2> QED BY Zenon, <2>1 DEF HouseStep, ContainerStops, StartReads, ContainerStarts, PruneReads,
          PruneDeletesPending, PruneDeletesDecided, ServerRestarts, rowVars
<1> QED BY Zenon, <1>2, <1>3, <1>4, <1>5 DEF Next

\* A verdict comes to hold an entry by its decision.
LEMMA HoldsGain ==
  ASSUME Known, Next, NEW q \in Rows, NEW e, Holds(q, e)', ~ Holds(q, e)
  PROVE  \E d \in Verdicts, u \in Users : Decide(q, d, "forever", u) /\ New(q)
<1>1. InEffect(q)' /\ dur'[q] = "forever" /\ ForeverEntry(q)' = e
  BY Zenon DEF Holds
<1>2. New(q)
  <2> SUFFICES ASSUME ~ New(q) PROVE FALSE
    OBVIOUS
  <2>1. dur'[q] = dur[q] /\ ForeverEntry(q)' = ForeverEntry(q)
    BY Zenon, ColumnsStay DEF Known, RowInv
  <2>2. ~ InEffect(q)
    BY Zenon, <1>1, <2>1 DEF Holds
  <2>3. Effect(q) = "out"
    BY Zenon, <2>2 DEF Effect, New
  <2>4. Effect(q)' = "out"
    BY Zenon, <2>3, StepRefines, OutIsForGood DEF Known
  <2> QED BY Zenon, <1>1, <2>4 DEF Effect, InEffect, Decided, Verdicts
<1>3. dec'[q] \in Verdicts /\ by'[q] # NoUser
  BY Zenon, <1>1 DEF InEffect, Decided
<1>4. ~ New(q)'
  BY Zenon, <1>3 DEF New, Verdicts
<1>5. by[q] = NoUser
  BY Zenon, <1>2 DEF Known, RowInv, Fresh
<1>6. PICK d \in Verdicts, t \in Durations, u \in Users : Decide(q, d, t, u)
  BY Zenon, <1>2, <1>3, <1>4, <1>5, VerdictMoves DEF Known
<1>7. t = "forever"
  <2>1. dur' = [dur EXCEPT ![q] = t]
    BY Zenon, <1>6 DEF Decide
  <2> QED BY Zenon, <1>1, <2>1 DEF Known, PolicyInv
<1> QED BY Zenon, <1>2, <1>6, <1>7

\* It ceases to hold one by a revoke, or with its decider.
LEMMA HoldsLoss ==
  ASSUME Known, Next, NEW q \in Rows, NEW e, Holds(q, e), ~ Holds(q, e)'
  PROVE  \/ q \in left' /\ ForeverEntry(q)' = e
         \/ \E c \in Calls : RevokeMarks(c) /\ call[c].row = q
<1>0. PolicyInv /\ SaidType
  BY Zenon DEF Known, RowInv
<1>1. dec[q] \in Verdicts /\ by[q] # NoUser /\ dur[q] = "forever" /\ ForeverEntry(q) = e
  BY Zenon DEF Holds, InEffect, Decided
<1>2. ~ New(q)
  BY Zenon, <1>1 DEF New, Verdicts
<1>3. dur'[q] = "forever" /\ ForeverEntry(q)' = e
  BY Zenon, <1>0, <1>1, <1>2, ColumnsStay
<1>4. ~ (dec'[q] = dec[q] /\ by'[q] = by[q])
  BY Zenon, <1>1, <1>3 DEF Holds, InEffect, Decided, DurationInEffect
<1>5. ASSUME NEW p \in Rows, RowStep(p)
      PROVE  FALSE
  <2>1. CASE p = q
    BY Zenon, <1>2, <1>4, <1>5, <2>1 DEF RowStep, Ask, Decide, Expire, RecordStatic, Lapse, Persist,
       PersistFails, Relay, VerdictLapses, rowVars, New
  <2>2. CASE p # q
    BY Zenon, <1>0, <1>4, <1>5, <2>2 DEF RowStep, Ask, Decide, Expire, RecordStatic, Lapse, Persist,
       PersistFails, Relay, VerdictLapses, rowVars, PolicyInv
  <2> QED BY Zenon, <2>1, <2>2
<1>6. ASSUME NEW c \in Calls, CallStep(c)
      PROVE  RevokeMarks(c) /\ call[c].row = q
  <2>1. RevokeMarks(c)
    BY Zenon, <1>4, <1>6 DEF CallStep, RevokeReads, RevokeSends, RevokeSkips, AckArrives,
       AckTimesOut, RevokeRereads, RevokeShares, RevokeRetracts, RetractFails, rowVars
  <2>2. by' = by /\ (dec' = dec \/ dec' = [dec EXCEPT ![call[c].row] = "revoked"])
    BY Zenon, <2>1 DEF RevokeMarks
  <2> QED BY Zenon, <1>0, <1>4, <2>1, <2>2 DEF PolicyInv
<1>7. ~ LinkStep
  BY Zenon, <1>4 DEF LinkStep, Connect, HandlerEnds, Disconnect, SidecarApplies, SidecarDrops, rowVars
<1>8. ASSUME HouseStep
      PROVE  q \in left'
  <2>1. ASSUME NEW u \in Users, DeleteUser(u)
        PROVE  q \in left'
    BY Zenon, <1>4, <2>1 DEF DeleteUser
  <2>2. ~ ContainerStarts
    BY Zenon, <1>1, <1>4 DEF ContainerStarts
  <2>3. ~ PruneDeletesDecided
    <3>1. q \notin sweep.decided
      BY Zenon, <1>0 DEF PolicyInv, Holds, Effect
    <3> QED BY Zenon, <1>4, <3>1 DEF PruneDeletesDecided
  <2>4. dec[q] # "pending"
    BY Zenon, <1>2 DEF New
  <2>5. ~ PruneDeletesPending /\ ~ ServerRestarts
    BY Zenon, <1>4, <2>4 DEF PruneDeletesPending, ServerRestarts
  <2> QED BY Zenon, <1>4, <1>8, <2>1, <2>2, <2>3, <2>5 DEF HouseStep, ContainerStops, StartReads,
          PruneReads, rowVars
<1> QED BY Zenon, <1>3, <1>5, <1>6, <1>7, <1>8 DEF Next

\* So, while all is calm, a holder that goes makes way for a revoke.
LEMMA MarksLeave ==
  ASSUME Known, Next, NEW q \in Rows, NEW e \in Entries, Calm(e)', Holds(q, e), ~ Holds(q, e)'
  PROVE  \E c \in Calls : About(c, e) /\ Leaves(c, e)'
<1>1. PICK c \in Calls : RevokeMarks(c) /\ call[c].row = q
  BY Zenon, HoldsLoss DEF Calm
<1>2. PolicyInv /\ SaidType
  BY Zenon DEF Known, RowInv
<1>3. e # NoEntry
  BY SMTT(30) DEF Entries, NoEntry
<1>4. Decided(q) /\ dur[q] = "forever" /\ ForeverEntry(q) = e
  BY Zenon DEF Holds, InEffect
<1>5. call[c].step = "mark" /\ Busy(c)
  BY Zenon, <1>1 DEF RevokeMarks, Busy
<1>6. Goto(c, "share")
  BY Zenon, <1>1, <1>3, <1>4 DEF RevokeMarks, Marked
<1>7. "share" \in Steps
  BY Zenon DEF Steps
<1>8. call'[c].step = "share" /\ call'[c].row = q
  BY Zenon, <1>1, <1>2, <1>6, <1>7, GotoMoves DEF Passes, Carries
<1>9. ForeverEntry(q)' = e
  <2>1. ~ New(q)
    BY Zenon, <1>4 DEF New, Decided, Verdicts
  <2> QED BY Zenon, <1>2, <1>4, <2>1, ColumnsStay
<1>10. Leaves(c, e)'
  BY Zenon, <1>8, <1>9 DEF Leaves, About, Busy, ForeverEntry
<1> QED BY Zenon, <1>1, <1>4, <1>5, <1>10 DEF About

\* The entry a call is about.
LEMMA AboutMoves ==
  ASSUME Known, Next, NEW c \in Calls, NEW e
  PROVE  /\ About(c, e)' =>
              \/ About(c, e) /\ Carries(c)
              \/ Begins(c) /\ \E q \in Rows : RevokeReads(c, q) /\ ForeverEntry(q) = e
         /\ About(c, e) /\ Carries(c) /\ Busy(c)' => About(c, e)'
<1>1. PolicyInv /\ SaidType /\ Moves(c) /\ Ending(c) /\ (Busy(c) => call[c].row \in Rows)
  BY Zenon, CallMoves DEF Known, RowInv, CallInv, PolicyInv
<1>2. PICK r : r = call[c].row
  OBVIOUS
<1>3. Busy(c) => r \in Rows /\ ForeverEntry(r)' = ForeverEntry(r)
  BY Zenon, <1>1, <1>2, ColumnsStay DEF Ending
<1>4. ASSUME Busy(c)'
      PROVE  (Busy(c) /\ Carries(c)) \/ Begins(c)
  BY Zenon, <1>1, <1>4 DEF Moves, Busy, Answers, Carries, Sends, Skips, Acked, Rereads, Shares,
     Retracts, Passes, Drops
<1>5. ASSUME Busy(c), Carries(c)
      PROVE  (ForeverEntry(call[c].row) = e) <=> (ForeverEntry(call[c].row)' = e)
  <2>1. call'[c].row = r
    BY Zenon, <1>2, <1>5 DEF Carries
  <2> QED BY Zenon, <1>2, <1>3, <1>5, <2>1 DEF ForeverEntry
<1>6. ASSUME About(c, e)', Begins(c)
      PROVE  \E q \in Rows : RevokeReads(c, q) /\ ForeverEntry(q) = e
  <2>1. PICK q \in Rows : Decided(q) /\ RevokeReads(c, q) /\ call'[c] = Begun(q)
    BY Zenon, <1>6 DEF Begins
  <2>2. Begun(q).row = q
    BY Zenon DEF Begun
  <2>3. call'[c].row = q /\ said' = said
    BY Zenon, <2>1, <2>2 DEF RevokeReads, rowVars
  <2>4. ForeverEntry(q) = e
    BY Zenon, <1>6, <2>3 DEF About, ForeverEntry
  <2> QED BY Zenon, <2>1, <2>4
<1> QED BY Zenon, <1>4, <1>5, <1>6 DEF About

\* A revoke about to take its entry off goes on, or did so, or need not.
LEMMA LeavesMoves ==
  ASSUME Known, Next, NEW c \in Calls, NEW e, Calm(e)', Leaves(c, e)
  PROVE  Leaves(c, e)' \/ On(e)' \/ e \notin lists'
<1>0. PolicyInv /\ LinkType /\ call \in [Calls -> Call]
  BY Zenon DEF Known, PolicyInv
<1>1. /\ Busy(c) /\ call[c].step \in {"share", "retract"} /\ call[c].step # "ack"
      /\ ForeverEntry(call[c].row) = e /\ About(c, e)
  BY Zenon DEF Leaves, About
<1>2. ASSUME Carries(c), call'[c].step \in {"share", "retract"}
      PROVE  Leaves(c, e)'
  <2>1. Busy(c)'
    BY Zenon, <1>2 DEF Busy
  <2> QED BY Zenon, <1>1, <1>2, <2>1, AboutMoves DEF Leaves
<1>3. ASSUME call'[c] = call[c]
      PROVE  Leaves(c, e)'
  <2>1. Carries(c)
    BY Zenon, <1>3 DEF Carries
  <2> QED BY Zenon, <1>1, <1>2, <1>3, <2>1
<1>4. ASSUME NEW b \in Calls, CallStep(b)
      PROVE  Leaves(c, e)' \/ On(e)' \/ e \notin lists'
  <2>1. CASE b # c
    BY Zenon, <1>0, <1>3, <1>4, <2>1, OwnMoves
  <2>2. CASE b = c
    <3>1. \/ RevokeShares(c) \/ RevokeRetracts(c) \/ RetractFails(c)
          \/ \E s \in Socks : AckArrives(s, c)
      BY Zenon, <1>1, <1>4, <2>2 DEF CallStep, RevokeReads, RevokeSends, RevokeSkips, AckTimesOut,
         RevokeMarks, RevokeRereads
    <3>2. CASE RevokeShares(c) /\ StillShared(call[c].row)
      <4>1. PICK p \in Rows : InEffect(p) /\ dur[p] = "forever" /\ ForeverEntry(p) = e
        BY Zenon, <1>1, <3>2 DEF StillShared
      <4>2. UNCHANGED rowVars
        BY Zenon, <3>2 DEF RevokeShares
      <4> QED BY Zenon, <4>1, <4>2 DEF On, Holds, InEffect, Decided, DurationInEffect, ForeverEntry,
              rowVars
    <3>3. CASE RevokeShares(c) /\ ~ StillShared(call[c].row)
      <4>1. Goto(c, "retract") /\ "retract" \in Steps
        BY Zenon, <3>3 DEF RevokeShares, Steps
      <4> QED BY Zenon, <1>0, <1>2, <4>1, GotoMoves DEF Passes
    <3>4. CASE RevokeRetracts(c)
      BY Zenon, <1>1, <3>4 DEF RevokeRetracts
    <3>5. CASE RetractFails(c)
      BY Zenon, <1>1, <3>5 DEF RetractFails, Calm
    <3>6. ASSUME NEW s \in Socks, AckArrives(s, c)
          PROVE  Leaves(c, e)'
      BY Zenon, <1>1, <1>3, <3>6 DEF AckArrives
    <3> QED BY Zenon, <3>1, <3>2, <3>3, <3>4, <3>5, <3>6
  <2> QED BY Zenon, <2>1, <2>2
<1>5. ASSUME NEW q \in Rows, RowStep(q)
      PROVE  Leaves(c, e)'
  BY Zenon, <1>3, <1>5 DEF RowStep, Ask, Decide, Expire, RecordStatic, Lapse, Persist,
     PersistFails, Relay, VerdictLapses
<1>6. ASSUME LinkStep
      PROVE  Leaves(c, e)'
  <2>1. CASE SidecarDrops
    <3>1. call'[c] = call[c] \/ \E q \in Rows : Drops(c, q)
      BY Zenon, <1>0, <2>1, DropMoves
    <3> QED BY Zenon, <1>1, <1>2, <1>3, <3>1 DEF Drops
  <2>2. ASSUME NEW s \in Socks, HandlerEnds(s)
        PROVE  Leaves(c, e)'
    BY Zenon, <1>1, <1>3, <2>2 DEF HandlerEnds, Deregister
  <2> QED BY Zenon, <1>3, <1>6, <2>1, <2>2 DEF LinkStep, Connect, Disconnect, SidecarApplies
<1>7. ASSUME HouseStep
      PROVE  Leaves(c, e)'
  <2>1. ~ ServerRestarts
    <3>1. ServerRestarts => e \in met'
      BY Zenon, <1>1 DEF ServerRestarts
    <3> QED BY Zenon, <3>1 DEF Calm
  <2> QED BY Zenon, <1>3, <1>7, <2>1 DEF HouseStep, ContainerStops, StartReads, ContainerStarts,
          PruneReads, PruneDeletesPending, PruneDeletesDecided, DeleteUser
<1> QED BY Zenon, <1>4, <1>5, <1>6, <1>7 DEF Next

\* A write to a list is done, or its failure is on record.
LEMMA WriteEnds ==
  ASSUME Next, NEW q \in Rows, NEW e, Calm(e)', Writes(q, e), q \notin persisting'
  PROVE  e \in lists'
<1>1. q \in persisting /\ ForeverEntry(q) = e /\ e \notin met'
  BY Zenon DEF Writes, Calm
<1>2. ASSUME NEW p \in Rows, RowStep(p)
      PROVE  e \in lists'
  <2>1. CASE Persist(p)
    <3>1. p = q
      BY Zenon, <1>1, <2>1 DEF Persist
    <3> QED BY Zenon, <1>1, <2>1, <3>1 DEF Persist
  <2>2. ~ PersistFails(p)
    <3>1. PersistFails(p) => p = q
      BY Zenon, <1>1 DEF PersistFails
    <3> QED BY Zenon, <1>1, <3>1 DEF PersistFails
  <2> QED BY Zenon, <1>1, <1>2, <2>1, <2>2 DEF RowStep, Ask, Decide, Expire, RecordStatic, Lapse,
          Relay, VerdictLapses, listVars
<1>3. ASSUME NEW c \in Calls, CallStep(c)
      PROVE  FALSE
  BY Zenon, <1>1, <1>3 DEF CallStep, RevokeReads, RevokeSends, RevokeSkips, AckArrives, AckTimesOut,
     RevokeMarks, RevokeRereads, RevokeShares, RevokeRetracts, RetractFails, listVars
<1>4. ~ LinkStep
  BY Zenon, <1>1 DEF LinkStep, Connect, HandlerEnds, Disconnect, SidecarApplies, SidecarDrops, listVars
<1>5. ~ ServerRestarts
  BY Zenon, <1>1 DEF ServerRestarts
<1>6. ~ HouseStep
  BY Zenon, <1>1, <1>5 DEF HouseStep, ContainerStops, StartReads, ContainerStarts, PruneReads,
     PruneDeletesPending, PruneDeletesDecided, DeleteUser, listVars
<1> QED BY Zenon, <1>2, <1>3, <1>4, <1>6 DEF Next

\* How an entry comes on a list and leaves it.
LEMMA ListMoves ==
  ASSUME Next, NEW e
  PROVE  /\ e \in lists' /\ e \notin lists => \E q \in Rows : Writes(q, e)
         /\ e \in lists /\ e \notin lists' =>
              \E c \in Calls : About(c, e) /\ call[c].step = "retract"
<1>1. ASSUME NEW q \in Rows, RowStep(q)
      PROVE  lists \subseteq lists' /\ (e \in lists' /\ e \notin lists => Writes(q, e))
  <2>1. CASE Persist(q)
    BY Zenon, <2>1 DEF Persist, Writes
  <2>2. CASE ~ Persist(q)
    BY Zenon, <1>1, <2>2 DEF RowStep, Ask, Decide, Expire, RecordStatic, Lapse, PersistFails,
       Relay, VerdictLapses, listVars
  <2> QED BY Zenon, <2>1, <2>2
<1>2. ASSUME NEW c \in Calls, CallStep(c)
      PROVE  /\ lists' \subseteq lists
             /\ e \in lists /\ e \notin lists' => About(c, e) /\ call[c].step = "retract"
  <2>1. CASE RevokeRetracts(c)
    BY Zenon, <2>1 DEF RevokeRetracts, About, Busy
  <2>2. CASE ~ RevokeRetracts(c)
    BY Zenon, <1>2, <2>2 DEF CallStep, RevokeReads, RevokeSends, RevokeSkips, AckArrives, AckTimesOut,
       RevokeMarks, RevokeRereads, RevokeShares, RetractFails, listVars
  <2> QED BY Zenon, <2>1, <2>2
<1>3. LinkStep => lists' = lists
  BY Zenon DEF LinkStep, Connect, HandlerEnds, Disconnect, SidecarApplies, SidecarDrops, listVars
<1>4. HouseStep => lists' = lists
  BY Zenon DEF HouseStep, ContainerStops, StartReads, ContainerStarts, PruneReads,
     PruneDeletesPending, PruneDeletesDecided, DeleteUser, ServerRestarts, listVars
<1> QED BY Zenon, <1>1, <1>2, <1>3, <1>4 DEF Next

\* A write to a list begins with a decision.
LEMMA WriteBegins ==
  ASSUME Next, NEW q \in Rows, q \in persisting', q \notin persisting
  PROVE  \E d \in Verdicts, u \in Users : Decide(q, d, "forever", u)
<1>1. ASSUME NEW p \in Rows, RowStep(p)
      PROVE  \E d \in Verdicts, u \in Users : Decide(q, d, "forever", u)
  <2>1. PICK d \in Verdicts, t \in Durations, u \in Users : Decide(p, d, t, u)
    BY Zenon, <1>1 DEF RowStep, Ask, Expire, RecordStatic, Lapse, Persist, PersistFails,
       Relay, VerdictLapses, listVars
  <2>2. p = q /\ t = "forever"
    BY Zenon, <2>1 DEF Decide
  <2> QED BY Zenon, <2>1, <2>2
<1>2. ASSUME NEW c \in Calls, CallStep(c)
      PROVE  FALSE
  BY Zenon, <1>2 DEF CallStep, RevokeReads, RevokeSends, RevokeSkips, AckArrives, AckTimesOut,
     RevokeMarks, RevokeRereads, RevokeShares, RevokeRetracts, RetractFails, listVars
<1>3. ~ LinkStep
  BY Zenon DEF LinkStep, Connect, HandlerEnds, Disconnect, SidecarApplies, SidecarDrops, listVars
<1>4. ~ HouseStep
  BY Zenon DEF HouseStep, ContainerStops, StartReads, ContainerStarts, PruneReads,
     PruneDeletesPending, PruneDeletesDecided, DeleteUser, ServerRestarts, listVars
<1> QED BY Zenon, <1>1, <1>2, <1>3, <1>4 DEF Next

\* While all is calm, a forever verdict is decided with no revoke of its entry
\* under way.
LEMMA DecidesAlone ==
  ASSUME Known, Next, NEW q \in Rows, NEW d \in Verdicts, NEW u \in Users,
         Decide(q, d, "forever", u), NEW e \in Entries, ForeverEntry(q)' = e, Calm(e)'
  PROVE  /\ \A c \in Calls : ~ About(c, e) /\ ~ About(c, e)'
         /\ Holds(q, e)' /\ Writes(q, e)'
<1>1. \A c \in Calls : ~ About(c, e)
  <2>1. Meets(q) => e \in met'
    BY Zenon DEF Decide
  <2> QED BY Zenon, <2>1 DEF Meets, About, Calm
<1>2. ASSUME NEW c \in Calls
      PROVE  ~ About(c, e)'
  <2>1. call' = call
    BY Zenon DEF Decide
  <2>2. ~ Begins(c)
    <3>1. \A r \in Rows : Begun(r).step = "read"
      BY Zenon DEF Begun
    <3> QED BY Zenon, <2>1, <3>1 DEF Begins
  <2> QED BY Zenon, <1>1, <2>2, AboutMoves
<1>3. Holds(q, e)'
  <2>1. dec'[q] = d /\ dur'[q] = "forever" /\ by'[q] = u
    BY Zenon DEF Decide, Known, PolicyInv
  <2> QED BY Zenon, <2>1, RowsAssumption DEF Holds, InEffect, Decided, DurationInEffect
<1>4. Writes(q, e)'
  <2>1. e # NoEntry
    BY SMTT(30) DEF Entries, NoEntry
  <2> QED BY Zenon, <2>1 DEF Writes, Decide
<1> QED BY Zenon, <1>1, <1>2, <1>3, <1>4

\* The two lists follow the verdicts.
LEMMA ListKept ==
  ASSUME Known, ListInv, Next
  PROVE  ListInv'
<1>1. SUFFICES ASSUME NEW e \in Entries, Calm(e)'
               PROVE  Listed(e)'
  BY Zenon DEF ListInv
<1>2. Listed(e)
  BY Zenon, <1>1, CalmBefore DEF ListInv
<1>3. ASSUME NEW q \in Rows, Holds(q, e), \A c \in Calls : ~ About(c, e)
      PROVE  Holds(q, e)'
  BY Zenon, <1>1, <1>3, MarksLeave
<1>4. e \in lists' => On(e)' \/ \E c \in Calls : Leaves(c, e)'
  <2> SUFFICES ASSUME e \in lists'
               PROVE  On(e)' \/ \E c \in Calls : Leaves(c, e)'
    OBVIOUS
  <2>1. CASE e \notin lists
    <3>1. PICK q \in Rows : Writes(q, e)
      BY Zenon, <2>1, ListMoves
    <3>2. Holds(q, e)'
      BY Zenon, <1>2, <1>3, <3>1 DEF Listed
    <3> QED BY Zenon, <3>2 DEF On
  <2>2. ASSUME NEW q \in Rows, Holds(q, e)
        PROVE  On(e)' \/ \E c \in Calls : Leaves(c, e)'
    BY Zenon, <1>1, <2>2, MarksLeave DEF On
  <2>3. ASSUME NEW c \in Calls, Leaves(c, e)
        PROVE  On(e)' \/ Leaves(c, e)'
    BY Zenon, <1>1, <2>3, LeavesMoves
  <2> QED BY Zenon, <1>2, <2>1, <2>2, <2>3 DEF Listed, On
<1>5. On(e)' => e \in lists' \/ \E q \in Rows : Writes(q, e)'
  <2> SUFFICES ASSUME NEW q \in Rows, Holds(q, e)'
               PROVE  e \in lists' \/ \E p \in Rows : Writes(p, e)'
    BY Zenon DEF On
  <2>1. CASE ~ Holds(q, e)
    <3>1. PICK d \in Verdicts, u \in Users : Decide(q, d, "forever", u)
      BY Zenon, <2>1, HoldsGain
    <3>2. ForeverEntry(q)' = e
      BY Zenon DEF Holds
    <3> QED BY Zenon, <1>1, <3>1, <3>2, DecidesAlone
  <2>2. CASE Holds(q, e) /\ e \in lists
    BY Zenon, <1>2, <2>2, ListMoves DEF Listed, On
  <2>3. ASSUME NEW p \in Rows, Writes(p, e)
        PROVE  e \in lists' \/ Writes(p, e)'
    <3>1. CASE p \notin persisting'
      BY Zenon, <1>1, <2>3, <3>1, WriteEnds
    <3>2. CASE p \in persisting'
      <4>1. p \in persisting /\ ~ New(p)
        BY Zenon, <2>3 DEF Writes, Known, RowInv, Fresh
      <4>2. ForeverEntry(p)' = ForeverEntry(p)
        BY Zenon, <4>1, ColumnsStay DEF Known, RowInv
      <4> QED BY Zenon, <2>3, <3>2, <4>2 DEF Writes
    <3> QED BY Zenon, <3>1, <3>2
  <2> QED BY Zenon, <1>2, <2>1, <2>2, <2>3 DEF Listed, On
<1>6. ASSUME NEW q \in Rows, Writes(q, e)'
      PROVE  Holds(q, e)' /\ \A c \in Calls : ~ About(c, e)'
  <2>1. CASE q \notin persisting
    <3>1. q \in persisting' /\ ForeverEntry(q)' = e
      BY Zenon, <1>6 DEF Writes
    <3>2. PICK d \in Verdicts, u \in Users : Decide(q, d, "forever", u)
      BY Zenon, <2>1, <3>1, WriteBegins
    <3> QED BY Zenon, <1>1, <3>1, <3>2, DecidesAlone
  <2>2. CASE q \in persisting
    <3>1. ~ New(q)
      BY Zenon, <2>2 DEF Known, RowInv, Fresh
    <3>2. ForeverEntry(q) = e
      BY Zenon, <1>6, <3>1, ColumnsStay DEF Known, RowInv, Writes
    <3>3. Holds(q, e) /\ \A c \in Calls : ~ About(c, e)
      BY Zenon, <1>2, <2>2, <3>2 DEF Listed, Writes
    <3>4. ASSUME NEW c \in Calls, NEW p \in Rows, RevokeReads(c, p), ForeverEntry(p) = e
          PROVE  FALSE
      <4>1. e \in met'
        BY Zenon, <2>2, <3>2, <3>4 DEF RevokeReads
      <4> QED BY Zenon, <1>1, <4>1 DEF Calm
    <3> QED BY Zenon, <1>3, <3>3, <3>4, AboutMoves
  <2> QED BY Zenon, <2>1, <2>2
<1>7. ASSUME NEW c \in Calls, About(c, e)', call'[c].step = "retract"
      PROVE  ~ On(e)'
  <2>1. About(c, e) /\ Moves(c) /\ ~ Begins(c)
    <3>1. ~ Begins(c)
      <4>1. \A q \in Rows : Begun(q).step = "read"
        BY Zenon DEF Begun
      <4> QED BY Zenon, <1>7, <4>1 DEF Begins
    <3> QED BY Zenon, <1>7, <3>1, AboutMoves, CallMoves DEF Known
  <2>2. CASE Retracts(c)
    <3>1. PICK r : r = call[c].row
      OBVIOUS
    <3>2. /\ UNCHANGED rowVars /\ ~ StillShared(r) /\ call[c].step = "share"
          /\ ForeverEntry(r) = e
      BY Zenon, <2>1, <2>2, <3>1 DEF Retracts, RevokeShares, About
    <3>3. ~ InEffect(r)
      <4>1. Effect(r) = "out"
        BY Zenon, <3>1, <3>2 DEF Known, CallInv, Ending
      <4> QED BY Zenon, <4>1 DEF Effect, InEffect, Decided, Verdicts
    <3>4. ~ On(e)
      BY Zenon, <3>2, <3>3 DEF On, Holds, StillShared
    <3> QED BY Zenon, <3>2, <3>4 DEF On, Holds, InEffect, Decided, DurationInEffect, ForeverEntry,
            rowVars
  <2>3. CASE ~ Retracts(c)
    <3>1. call[c].step = "retract"
      BY Zenon, <1>7, <2>1, <2>3 DEF Moves, Answers, Sends, Skips, Acked, Rereads, Shares, Passes, Drops
    <3>2. ~ On(e)
      BY Zenon, <1>2, <2>1, <3>1 DEF Listed
    <3>3. ASSUME NEW q \in Rows, Holds(q, e)'
          PROVE  FALSE
      <4>1. PICK d \in Verdicts, u \in Users : Decide(q, d, "forever", u)
        BY Zenon, <3>2, <3>3, HoldsGain DEF On
      <4>2. ForeverEntry(q)' = e
        BY Zenon, <3>3 DEF Holds
      <4> QED BY Zenon, <1>1, <2>1, <4>1, <4>2, DecidesAlone
    <3> QED BY Zenon, <3>3 DEF On
  <2> QED BY Zenon, <2>2, <2>3
<1> QED BY Zenon, <1>4, <1>5, <1>6, <1>7 DEF Listed

-----------------------------------------------------------------------------
(* The invariant, and what it gives.                                       *)

ListType == lists \subseteq Entries /\ static \subseteq Entries /\ spec \subseteq Entries

\* The lists hold entries.
LEMMA ListTypeKept ==
  ASSUME RowInv, SetType, ListType, Next
  PROVE  ListType'
<1>1. ASSUME NEW q \in Rows, RowStep(q)
      PROVE  ListType'
  <2>1. CASE Persist(q)
    <3>1. ForeverEntry(q) \in Entries
      BY Zenon, <2>1 DEF Persist, RowInv, Listable
    <3> QED BY Zenon, <2>1, <3>1 DEF Persist, ListType, sideVars
  <2>2. CASE ~ Persist(q)
    <3>1. lists' = lists /\ static' = static /\ spec' = spec
      BY Zenon, <1>1, <2>2 DEF RowStep, Ask, Decide, Expire, RecordStatic, Lapse, PersistFails,
         Relay, VerdictLapses, listVars, sideVars
    <3> QED BY Zenon, <3>1 DEF ListType
  <2> QED BY Zenon, <2>1, <2>2
<1>2. ASSUME NEW c \in Calls, CallStep(c)
      PROVE  ListType'
  <2>1. lists' \subseteq lists /\ static' = static /\ spec' = spec
    BY Zenon, <1>2 DEF CallStep, RevokeReads, RevokeSends, RevokeSkips, AckArrives, AckTimesOut,
       RevokeMarks, RevokeRereads, RevokeShares, RevokeRetracts, RetractFails, listVars, sideVars
  <2> QED BY Zenon, <2>1 DEF ListType
<1>3. ASSUME LinkStep
      PROVE  ListType'
  <2>1. lists' = lists /\ static' = static /\ spec' = spec
    BY Zenon, <1>3 DEF LinkStep, Connect, HandlerEnds, Disconnect, SidecarApplies, SidecarDrops,
       listVars, sideVars
  <2> QED BY Zenon, <2>1 DEF ListType
<1>4. ASSUME HouseStep
      PROVE  ListType'
  <2>1. CASE ContainerStops \/ StartReads \/ ContainerStarts
    BY Zenon, <2>1 DEF ContainerStops, StartReads, ContainerStarts, ListType, listVars
  <2>2. CASE ~ (ContainerStops \/ StartReads \/ ContainerStarts)
    <3>1. lists' = lists /\ static' = static /\ spec' = spec
      BY Zenon, <1>4, <2>2 DEF HouseStep, PruneReads, PruneDeletesPending, PruneDeletesDecided,
         DeleteUser, ServerRestarts, listVars, sideVars
    <3> QED BY Zenon, <3>1 DEF ListType
  <2> QED BY Zenon, <2>1, <2>2
<1> QED BY Zenon, <1>1, <1>2, <1>3, <1>4 DEF Next

\* The inductive invariant: types, the delivery of each verdict, the state of
\* each revoke, and the lists.
Inv == Known /\ ListType /\ ListInv

\* A revoke that answers True has done what it says.
HonestStep ==
  \A c \in Calls, q \in Rows :
    (Busy(c) /\ call[c].row = q /\ call'[c].step = "done" /\ call'[c].ok) =>
      /\ ~InEffect(q)'
      /\ call[c].via = "ack" =>
           call[c].dropped /\ (call[c].heard => q \notin told')

\* The invariant makes the answer of a revoke honest.
LEMMA Honest ==
  ASSUME Inv, Next
  PROVE  HonestStep
<1>1. SUFFICES ASSUME NEW c \in Calls, NEW q \in Rows, Busy(c), call[c].row = q,
                      call'[c].step = "done", call'[c].ok
               PROVE  /\ ~InEffect(q)'
                      /\ call[c].via = "ack" =>
                           call[c].dropped /\ (call[c].heard => q \notin told')
  BY Zenon DEF HonestStep
<1>2. PolicyInv /\ LinkType /\ SetType /\ RowInv
  BY Zenon DEF Inv, Known
<1>3. NotAgain(c) /\ TrueAck(c) /\ Silent(c) /\ Ending(c) /\ Moves(c)
  BY Zenon, <1>2, CallMoves DEF Inv, Known, CallInv
<1>4. Answers(c)
  <2>1. \A p \in Rows : Begun(p).step = "read"
    BY Zenon DEF Begun
  <2> QED BY Zenon, <1>1, <1>3, <2>1 DEF Moves, Busy, Begins, Sends, Skips, Acked, Rereads, Shares,
          Retracts, Passes, Drops
<1>5. \/ call[c].step \in {"mark", "fresh"} /\ dec'[q] = "revoked"
      \/ call[c].step \in {"share", "retract"}
  BY Zenon, <1>1, <1>4 DEF Answers
<1>6. ~InEffect(q)'
  <2>1. CASE dec'[q] = "revoked"
    BY Zenon, <2>1 DEF InEffect, Decided, Verdicts
  <2>2. CASE call[c].step \in {"share", "retract"}
    <3>1. Effect(q)' = "out"
      BY Zenon, <1>1, <1>2, <1>3, <2>2, StepRefines, OutIsForGood DEF Ending
    <3> QED BY Zenon, <3>1 DEF Effect, InEffect, Decided, Verdicts
  <2> QED BY Zenon, <1>5, <2>1, <2>2
<1>7. call[c].via = "ack" => call[c].dropped
  BY Zenon, <1>3, <1>5 DEF TrueAck
<1>8. call[c].dropped /\ call[c].heard => q \notin told'
  BY Zenon, <1>1, <1>2, <1>3, ToldMoves DEF Silent, NotAgain
<1> QED BY Zenon, <1>6, <1>7, <1>8

\* Nothing was asked yet.
LEMMA InitInv ==
  ASSUME Init
  PROVE  Inv
<1>1. \A c \in Calls : call[c] = Idle
  BY Zenon DEF Init
<1>2. Idle \in Call /\ Idle.step = "idle"
  BY Zenon DEF Idle, Call, Steps
<1>3. \A c \in Calls : call[c].step = "idle" /\ ~ Busy(c)
  BY Zenon, <1>1, <1>2 DEF Busy
<1>4. PolicyInv
  BY Zenon, <1>2 DEF Init, PolicyInv, NoSweep, Busy, Decisions
<1>5. \A f : \A s \in Socks : ~ OnWire(s, f)
  <2>1. DOMAIN <<>> = {}
    OBVIOUS
  <2> QED BY Zenon, <2>1 DEF Init, OnWire
<1>6. LinkType
  <2>1. <<>> \in Seq(Frames)
    OBVIOUS
  <2> QED BY Zenon, <2>1 DEF Init, LinkType, WireType
<1>7. SetType
  <2>1. NoSweep \in [step : {"idle", "pending", "decided"}, pending : SUBSET Rows, decided : SUBSET Rows]
    BY DEF NoSweep
  <2> QED BY Zenon, <2>1 DEF Init, SetType
<1>8. RowInv
  <2>1. SaidType
    BY Zenon DEF Init, SaidType
  <2>2. \A q \in Rows : /\ by[q] = NoUser /\ q \notin relaying /\ q \notin told
                        /\ q \notin persisting /\ q \notin left
    BY Zenon DEF Init
  <2>3. \A f : Once(f)
    BY Zenon, <1>5 DEF Once, OnWire
  <2> QED BY Zenon, <1>5, <2>1, <2>2, <2>3 DEF RowInv, Fresh, Delivery, Listable
<1>9. CallInv
  <2>1. back = {}
    BY Zenon DEF Init
  <2> QED BY Zenon, <1>3, <1>5, <2>1 DEF CallInv, NotAgain, OwnDrop, TrueAck, Silent, Ending
<1>10. ListType
  BY Zenon DEF Init, ListType
<1>11. ListInv
  <2>1. lists = {} /\ persisting = {} /\ \A q \in Rows : ~ InEffect(q)
    BY Zenon DEF Init, InEffect
  <2> QED BY Zenon, <1>3, <2>1 DEF ListInv, Listed, On, Holds, Writes, About
<1> QED BY Zenon, <1>4, <1>6, <1>7, <1>8, <1>9, <1>10, <1>11 DEF Inv, Known

\* A step that changes nothing.
LEMMA StutterInv ==
  ASSUME Inv, UNCHANGED vars
  PROVE  Inv'
<1>1. /\ dec' = dec /\ said' = said /\ dur' = dur /\ by' = by /\ lapsed' = lapsed
      /\ lists' = lists /\ persisting' = persisting /\ relaying' = relaying
      /\ asker' = asker /\ call' = call /\ conn' = conn /\ open' = open
      /\ wire' = wire /\ back' = back /\ side' = side /\ told' = told
      /\ static' = static /\ box' = box /\ spec' = spec /\ sweep' = sweep
      /\ may' = may /\ asked' = asked /\ left' = left /\ met' = met
  BY Zenon DEF vars, rowVars, listVars, linkVars, sideVars, histVars
<1>2. PolicyInv'
  BY Zenon, PolicyInvKept DEF Inv, Known
<1>3. LinkType' /\ SetType' /\ ListType'
  BY Zenon, <1>1 DEF Inv, Known, LinkType, WireType, SetType, ListType
<1>4. \A q \in Rows : ForeverEntry(q)' = ForeverEntry(q) /\ (InEffect(q)' <=> InEffect(q))
  BY Zenon, <1>1 DEF ForeverEntry, InEffect, Decided, DurationInEffect
<1>5. \A f : (\A s \in Socks : OnWire(s, f)' <=> OnWire(s, f)) /\ (Once(f) => Once(f)')
  <2>1. \A f : \A s \in Socks : OnWire(s, f)' <=> OnWire(s, f)
    BY Zenon, <1>1 DEF OnWire
  <2>2. \A f : Once(f) => Once(f)'
    BY SMTT(30), <1>1 DEF Once
  <2> QED BY Zenon, <2>1, <2>2
<1>6. RowInv'
  <2>1. SaidType'
    BY Zenon, <1>1 DEF Inv, Known, RowInv, SaidType
  <2>2. ASSUME NEW q \in Rows
        PROVE  Fresh(q)' /\ Delivery(q)' /\ Listable(q)'
    <3>1. Fresh(q) /\ Delivery(q) /\ Listable(q)
      BY Zenon DEF Inv, Known, RowInv
    <3>2. /\ \A s \in Socks : OnWire(s, VerdictFrame(q))' <=> OnWire(s, VerdictFrame(q))
          /\ Once(VerdictFrame(q)) => Once(VerdictFrame(q))'
      BY Zenon, <1>5 DEF VerdictFrame
    <3>3. Fresh(q)'
      BY Zenon, <1>1, <3>1, <3>2 DEF Fresh, New
    <3>4. Delivery(q)'
      BY Zenon, <1>1, <3>1, <3>2 DEF Delivery
    <3>5. Listable(q)'
      BY Zenon, <1>1, <1>4, <3>1 DEF Listable
    <3> QED BY Zenon, <3>3, <3>4, <3>5
  <2> QED BY Zenon, <2>1, <2>2 DEF RowInv
<1>7. CallInv'
  <2> SUFFICES ASSUME NEW c \in Calls
               PROVE  NotAgain(c)' /\ OwnDrop(c)' /\ TrueAck(c)' /\ Silent(c)' /\ Ending(c)'
    BY Zenon DEF CallInv
  <2>1. NotAgain(c) /\ OwnDrop(c) /\ TrueAck(c) /\ Silent(c) /\ Ending(c)
    BY Zenon DEF Inv, Known, CallInv
  <2>2. NotAgain(c)'
    BY Zenon, <1>1, <2>1 DEF NotAgain, Busy, OnWire, VerdictFrame
  <2>3. OwnDrop(c)'
    BY Zenon, <1>1, <2>1 DEF OwnDrop, OnWire, DropFrame
  <2>4. TrueAck(c)' /\ Silent(c)'
    BY Zenon, <1>1, <2>1 DEF TrueAck, Silent, Busy
  <2>5. Ending(c)'
    BY Zenon, <1>1, <2>1 DEF Ending, Busy, New, Effect, InEffect, Decided, DurationInEffect
  <2> QED BY Zenon, <2>2, <2>3, <2>4, <2>5
<1>8. ListInv'
  <2> SUFFICES ASSUME NEW e \in Entries, Calm(e)'
               PROVE  Listed(e)'
    BY Zenon DEF ListInv
  <2>1. Calm(e)
    BY Zenon, <1>1 DEF Calm, ForeverEntry
  <2>2. Listed(e)
    BY Zenon, <2>1 DEF Inv, ListInv
  <2>3. \A q \in Rows : (Holds(q, e)' <=> Holds(q, e)) /\ (Writes(q, e)' <=> Writes(q, e))
    BY Zenon, <1>1, <1>4 DEF Holds, Writes
  <2>4. \A c \in Calls : (About(c, e)' <=> About(c, e)) /\ (Leaves(c, e)' <=> Leaves(c, e))
    BY Zenon, <1>1 DEF Leaves, About, Busy, ForeverEntry
  <2>5. On(e)' <=> On(e)
    BY Zenon, <2>3 DEF On
  <2> QED BY Zenon, <1>1, <2>2, <2>3, <2>4, <2>5 DEF Listed
<1> QED BY Zenon, <1>2, <1>3, <1>6, <1>7, <1>8 DEF Inv, Known

\* Every step keeps the invariant.
LEMMA InvKept ==
  ASSUME Inv, [Next]_vars
  PROVE  Inv'
<1>1. CASE Next
  <2>1. PolicyInv /\ LinkType /\ SetType /\ RowInv /\ CallInv /\ ListType /\ ListInv
    BY Zenon DEF Inv, Known
  <2>2. PolicyInv' /\ LinkType' /\ SetType' /\ RowInv'
    BY Zenon, <1>1, <2>1, PolicyInvKept, LinkKept, SetKept, RowKept
  <2>3. CallInv' /\ ListType' /\ ListInv'
    BY Zenon, <1>1, <2>1, CallKept, ListTypeKept, ListKept DEF Known
  <2> QED BY Zenon, <2>2, <2>3 DEF Inv, Known
<1>2. CASE UNCHANGED vars
  BY Zenon, <1>2, StutterInv
<1> QED BY Zenon, <1>1, <1>2

\* The invariant holds throughout, for any number of rows, users, revokes and
\* sockets, whatever fails.
THEOREM Invariance == Spec => []Inv
<1>1. Init => Inv
  BY Zenon, InitInv
<1>2. Inv /\ [Next]_vars => Inv'
  BY Zenon, InvKept
<1> QED BY <1>1, <1>2, PTL DEF Spec

\* Every variable keeps its type; what is written to the domain lists is always
\* an entry of a verdict (_persist_forever_allow, _persist_forever_deny).
THEOREM TypeCorrect == Spec => []TypeOK
<1>1. Inv => TypeOK
  BY Zenon DEF Inv, Known, PolicyInv, LinkType, WireType, SetType, RowInv, SaidType, ListType, Call, TypeOK
<1> QED BY <1>1, Invariance, PTL

\* Whatever order the verdicts and the revokes of one host and port come in, as
\* long as they do not overlap, the entry is on its list exactly while a forever
\* verdict for it is in effect (ConsentCoordinator.revoke,
\* _forever_entry_still_shared, _remove_list_entry).
THEOREM ListsFollow == Spec => []ListsAgree
<1>1. Inv => ListsAgree
  <2> SUFFICES ASSUME Inv, NEW e \in Entries, Settled(e)
               PROVE  e \in lists <=> On(e)
    BY Zenon DEF ListsAgree, On, Holds
  <2>1. Calm(e)
    BY Zenon DEF Settled, Calm
  <2>2. Listed(e)
    BY Zenon, <2>1 DEF Inv, ListInv
  <2>3. \A q \in Rows : ~ Writes(q, e)
    BY Zenon DEF Settled, Writes
  <2>4. \A c \in Calls : ~ Leaves(c, e)
    BY Zenon DEF Settled, Leaves, About
  <2> QED BY Zenon, <2>2, <2>3, <2>4 DEF Listed
<1> QED BY <1>1, Invariance, PTL

\* A revoke that answers True has put the verdict out of effect.  If it sent a
\* drop, the sidecar took this very drop, and of a verdict taken before the call
\* it is the last the sidecar was told, however timeouts, reconnects and other
\* revokes interleave (ConsentCoordinator.revoke).
THEOREM HonestRevoke == Spec => RevokeIsHonest
<1>1. Inv /\ [Next]_vars => [HonestStep]_vars
  BY Zenon, Honest
<1>2. Spec => [][HonestStep]_vars
  BY <1>1, Invariance, PTL DEF Spec
<1> QED BY <1>2, PTL DEF RevokeIsHonest, HonestStep
=============================================================================
