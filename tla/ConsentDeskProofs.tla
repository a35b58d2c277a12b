-------------------------- MODULE ConsentDeskProofs --------------------------
(***************************************************************************)
(* For any number of requests and deciders and any send queue: a decider   *)
(* that is registered shows every held request and, once it has read its   *)
(* frames, no request that is over; no queue outgrows its bound; a pause   *)
(* that is honoured was stored after the last change of mode, and it lets  *)
(* nothing through that a standing denial blocks.                          *)
(*                                                                         *)
(* The first two are about frames on their way, so the invariant follows   *)
(* each request through the queue of each decider: an egress_resolved      *)
(* frame is only ever about a request that is over, and behind the last    *)
(* egress_request frame of a request that is over comes its                *)
(* egress_resolved frame.  The last needs to know that nothing but the     *)
(* gate of the pause answers a paused request: a verdict being committed   *)
(* is about a request whose hold it has popped.                            *)
(***************************************************************************)
EXTENDS ConsentDesk, SeqFilterProofs, TLAPS

Wire == [type : {"request", "resolved"}, req : Reqs]

Over == {"stranded", "done"}
Shown == {"held", "settle", "expire"}
Before == {"idle", "allow", "paused", "static", "create", "created"}

InQ(q, f) == \E i \in DOMAIN q : q[i] = f

\* The frame that ends r comes after the last one that asks for it.
Trail(q, r) ==
  \E i \in DOMAIN q :
    /\ q[i] = Frame("resolved", r)
    /\ \A j \in DOMAIN q : j > i => q[j] # Frame("request", r)

Final(d, r) == InQ(queue[d], Frame("resolved", r)) => req[r].step \in Over

Known(d, r) ==
  req[r].step = "held" =>
    \/ srv[d] = "registered"
    \/ srv[d] = "replay" /\ r \in held[d].of
    \/ r \in shows[d]
    \/ InQ(queue[d], Frame("request", r))

Cleared(d, r) ==
  r \in shows[d] \/ InQ(queue[d], Frame("request", r)) =>
    req[r].step \in Shown \/ Trail(queue[d], r)

Desk(d) ==
  /\ d \in reg \ lost => d \in fresh
  /\ srv[d] \in {"none", "checked"} => d \notin reg /\ queue[d] = <<>>
  /\ \A r \in Reqs : Final(d, r)
  /\ d \in reg \ lost => \A r \in Reqs : Known(d, r) /\ Cleared(d, r)

DeskType ==
  /\ DOMAIN req = Reqs
  /\ DOMAIN srv = Deciders
  /\ DOMAIN held = Deciders
  /\ \A d \in Deciders : held[d].of \subseteq Reqs
  /\ queue \in [Deciders -> Seq(Wire)]
  /\ shows \in [Deciders -> SUBSET Reqs]
  /\ reg \subseteq Deciders

DeskInv == DeskType /\ \A d \in Deciders : Desk(d)

-----------------------------------------------------------------------------
(* Frames in a queue.                                                      *)

\* A frame is one of the two kinds, about one request.
LEMMA FrameWire ==
  ASSUME NEW r \in Reqs, NEW type \in {"request", "resolved"}
  PROVE  Frame(type, r) \in Wire /\ Frame(type, r).type = type /\ Frame(type, r).req = r
BY Zenon DEF Frame, Wire

\* Frames of different requests, or of different kinds, differ.
LEMMA FramesDiffer ==
  ASSUME NEW r, NEW p
  PROVE  /\ Frame("request", r) # Frame("resolved", p)
         /\ r # p => Frame("request", r) # Frame("request", p)
         /\ r # p => Frame("resolved", r) # Frame("resolved", p)
BY Zenon DEF Frame

\* What a frame at the end of a queue adds to it.
LEMMA AppendIn ==
  ASSUME NEW q \in Seq(Wire), NEW f \in Wire, NEW g
  PROVE  /\ Append(q, f) \in Seq(Wire)
         /\ InQ(Append(q, f), g) <=> (InQ(q, g) \/ g = f)
<1>1. /\ Append(q, f) \in Seq(Wire) /\ Len(q) \in Nat /\ DOMAIN q = 1 .. Len(q)
      /\ DOMAIN Append(q, f) = 1 .. Len(q) + 1
      /\ \A i \in 1 .. Len(q) : Append(q, f)[i] = q[i]
      /\ Append(q, f)[Len(q) + 1] = f
  OBVIOUS
<1>2. ASSUME InQ(Append(q, f), g)
      PROVE  InQ(q, g) \/ g = f
  <2>1. PICK i \in 1 .. Len(q) + 1 : Append(q, f)[i] = g
    BY Zenon, <1>1, <1>2 DEF InQ
  <2>2. i \in 1 .. Len(q) \/ i = Len(q) + 1
    BY <1>1
  <2> QED BY Zenon, <1>1, <2>1, <2>2 DEF InQ
<1>3. ASSUME InQ(q, g)
      PROVE  InQ(Append(q, f), g)
  BY <1>1, <1>3 DEF InQ
<1>4. Len(q) + 1 \in DOMAIN Append(q, f)
  BY <1>1
<1>5. InQ(Append(q, f), f)
  BY Zenon, <1>1, <1>4 DEF InQ
<1> QED BY Zenon, <1>1, <1>2, <1>3, <1>5

\* It does not disturb the end of another request.
LEMMA AppendTrail ==
  ASSUME NEW q \in Seq(Wire), NEW f \in Wire, NEW r
  PROVE  /\ Trail(q, r) /\ f # Frame("request", r) => Trail(Append(q, f), r)
         /\ f = Frame("resolved", r) => Trail(Append(q, f), r)
<1>1. /\ Append(q, f) \in Seq(Wire) /\ Len(q) \in Nat /\ DOMAIN q = 1 .. Len(q)
      /\ DOMAIN Append(q, f) = 1 .. Len(q) + 1
      /\ \A i \in 1 .. Len(q) : Append(q, f)[i] = q[i]
      /\ Append(q, f)[Len(q) + 1] = f
  OBVIOUS
<1>2. ASSUME Trail(q, r), f # Frame("request", r)
      PROVE  Trail(Append(q, f), r)
  <2>1. PICK i \in 1 .. Len(q) :
          /\ q[i] = Frame("resolved", r)
          /\ \A j \in 1 .. Len(q) : j > i => q[j] # Frame("request", r)
    BY Zenon, <1>1, <1>2 DEF Trail
  <2>2. i \in DOMAIN Append(q, f) /\ Append(q, f)[i] = Frame("resolved", r)
    BY <1>1, <2>1
  <2>3. \A j \in 1 .. Len(q) + 1 : j > i => Append(q, f)[j] # Frame("request", r)
    BY <1>1, <1>2, <2>1
  <2> QED BY Zenon, <1>1, <2>2, <2>3 DEF Trail
<1>3. ASSUME f = Frame("resolved", r)
      PROVE  Trail(Append(q, f), r)
  <2>1. Len(q) + 1 \in DOMAIN Append(q, f) /\ ~ \E j \in DOMAIN Append(q, f) : j > Len(q) + 1
    BY <1>1
  <2> QED BY Zenon, <1>1, <1>3, <2>1 DEF Trail
<1> QED BY Zenon, <1>2, <1>3

\* What a queue has in it when its first frame is taken.
LEMMA TailIn ==
  ASSUME NEW q \in Seq(Wire), q # <<>>, NEW g
  PROVE  /\ Tail(q) \in Seq(Wire) /\ Head(q) \in Wire
         /\ InQ(q, g) <=> (g = Head(q) \/ InQ(Tail(q), g))
<1>1. /\ Tail(q) \in Seq(Wire) /\ Head(q) \in Wire /\ Head(q) = q[1] /\ 1 \in DOMAIN q
      /\ Len(q) \in Nat /\ DOMAIN q = 1 .. Len(q) /\ DOMAIN Tail(q) = 1 .. Len(q) - 1
      /\ \A i \in 1 .. Len(q) - 1 : Tail(q)[i] = q[i + 1]
  OBVIOUS
<1>2. ASSUME InQ(q, g), g # Head(q)
      PROVE  InQ(Tail(q), g)
  <2>1. PICK i \in DOMAIN q : q[i] = g
    BY Zenon, <1>2 DEF InQ
  <2>2. i - 1 \in 1 .. Len(q) - 1 /\ Tail(q)[i - 1] = g
    BY <1>1, <1>2, <2>1
  <2> QED BY Zenon, <1>1, <2>2 DEF InQ
<1>3. ASSUME InQ(Tail(q), g)
      PROVE  InQ(q, g)
  <2>1. PICK i \in DOMAIN Tail(q) : Tail(q)[i] = g
    BY Zenon, <1>3 DEF InQ
  <2>2. i + 1 \in DOMAIN q /\ q[i + 1] = g
    BY <1>1, <2>1
  <2> QED BY Zenon, <2>2 DEF InQ
<1>4. InQ(q, Head(q))
  BY Zenon, <1>1 DEF InQ
<1> QED BY Zenon, <1>1, <1>2, <1>3, <1>4

\* The end of a request stays behind it, or was the frame taken.
LEMMA TailTrail ==
  ASSUME NEW q \in Seq(Wire), q # <<>>, NEW r, Trail(q, r)
  PROVE  \/ Trail(Tail(q), r)
         \/ Head(q) = Frame("resolved", r) /\ ~ InQ(Tail(q), Frame("request", r))
<1>1. /\ Head(q) = q[1] /\ Len(q) \in Nat /\ DOMAIN q = 1 .. Len(q)
      /\ DOMAIN Tail(q) = 1 .. Len(q) - 1
      /\ \A i \in 1 .. Len(q) - 1 : Tail(q)[i] = q[i + 1]
  OBVIOUS
<1>2. PICK i \in DOMAIN q :
        /\ q[i] = Frame("resolved", r)
        /\ \A j \in DOMAIN q : j > i => q[j] # Frame("request", r)
  BY Zenon DEF Trail
<1>3. CASE i = 1
  <2>1. \A j \in DOMAIN Tail(q) : Tail(q)[j] # Frame("request", r)
    BY <1>1, <1>2, <1>3
  <2> QED BY Zenon, <1>1, <1>2, <1>3, <2>1 DEF InQ
<1>4. CASE i # 1
  <2>1. i - 1 \in DOMAIN Tail(q) /\ Tail(q)[i - 1] = Frame("resolved", r)
    BY <1>1, <1>2, <1>4
  <2>2. \A j \in DOMAIN Tail(q) : j > i - 1 => Tail(q)[j] # Frame("request", r)
    BY <1>1, <1>2, <1>4
  <2> QED BY Zenon, <2>1, <2>2 DEF Trail
<1> QED BY Zenon, <1>3, <1>4

\* What a replay adds to a queue.
LEMMA ConcatIn ==
  ASSUME NEW q \in Seq(Wire), NEW u \in Seq(Wire), NEW g
  PROVE  /\ q \o u \in Seq(Wire)
         /\ InQ(q \o u, g) <=> (InQ(q, g) \/ InQ(u, g))
<1>1. /\ q \o u \in Seq(Wire) /\ Len(q) \in Nat /\ Len(u) \in Nat
      /\ DOMAIN q = 1 .. Len(q) /\ DOMAIN u = 1 .. Len(u)
      /\ DOMAIN (q \o u) = 1 .. Len(q) + Len(u)
      /\ \A i \in 1 .. Len(q) : (q \o u)[i] = q[i]
      /\ \A i \in 1 .. Len(u) : (q \o u)[Len(q) + i] = u[i]
  OBVIOUS
<1>2. ASSUME InQ(q \o u, g)
      PROVE  InQ(q, g) \/ InQ(u, g)
  <2>1. PICK i \in 1 .. Len(q) + Len(u) : (q \o u)[i] = g
    BY Zenon, <1>1, <1>2 DEF InQ
  <2>2. CASE i <= Len(q)
    BY <1>1, <2>1, <2>2 DEF InQ
  <2>3. CASE i > Len(q)
    <3>1. i - Len(q) \in 1 .. Len(u) /\ u[i - Len(q)] = g
      BY <1>1, <2>1, <2>3
    <3> QED BY Zenon, <1>1, <3>1 DEF InQ
  <2> QED BY <1>1, <2>2, <2>3
<1>3. ASSUME InQ(q, g)
      PROVE  InQ(q \o u, g)
  BY <1>1, <1>3 DEF InQ
<1>4. ASSUME InQ(u, g)
      PROVE  InQ(q \o u, g)
  <2>1. PICK i \in 1 .. Len(u) : u[i] = g
    BY Zenon, <1>1, <1>4 DEF InQ
  <2>2. Len(q) + i \in 1 .. Len(q) + Len(u) /\ (q \o u)[Len(q) + i] = g
    BY <1>1, <2>1
  <2> QED BY Zenon, <1>1, <2>2 DEF InQ
<1> QED BY Zenon, <1>1, <1>2, <1>3, <1>4

\* It does not disturb the end of a request it does not ask for.
LEMMA ConcatTrail ==
  ASSUME NEW q \in Seq(Wire), NEW u \in Seq(Wire), NEW r, Trail(q, r),
         ~ InQ(u, Frame("request", r))
  PROVE  Trail(q \o u, r)
<1>1. /\ Len(q) \in Nat /\ Len(u) \in Nat
      /\ DOMAIN q = 1 .. Len(q) /\ DOMAIN u = 1 .. Len(u)
      /\ DOMAIN (q \o u) = 1 .. Len(q) + Len(u)
      /\ \A i \in 1 .. Len(q) : (q \o u)[i] = q[i]
      /\ \A i \in 1 .. Len(u) : (q \o u)[Len(q) + i] = u[i]
  OBVIOUS
<1>2. PICK i \in 1 .. Len(q) :
        /\ q[i] = Frame("resolved", r)
        /\ \A j \in 1 .. Len(q) : j > i => q[j] # Frame("request", r)
  BY Zenon, <1>1 DEF Trail
<1>3. ASSUME NEW j \in 1 .. Len(q) + Len(u), j > i
      PROVE  (q \o u)[j] # Frame("request", r)
  <2>1. CASE j <= Len(q)
    BY <1>1, <1>2, <1>3, <2>1
  <2>2. CASE j > Len(q)
    <3>1. j - Len(q) \in 1 .. Len(u) /\ (q \o u)[j] = u[j - Len(q)]
      BY <1>1, <1>3, <2>2
    <3> QED BY Zenon, <1>1, <3>1 DEF InQ
  <2> QED BY <1>1, <2>1, <2>2
<1>4. i \in DOMAIN (q \o u) /\ (q \o u)[i] = Frame("resolved", r)
  BY <1>1, <1>2
<1> QED BY Zenon, <1>1, <1>3, <1>4 DEF Trail

-----------------------------------------------------------------------------
(* One request, one decider.                                               *)

\* A request that moves leaves the others where they are.
LEMMA GotoOne ==
  ASSUME DOMAIN req = Reqs, NEW r \in Reqs, NEW step, NEW ans,
         \/ Goto(r, step)
         \/ step = "done" /\ Answer(r, ans)
         \/ step = "stranded" /\ req' = [req EXCEPT ![r] = [step |-> "stranded", ans |-> ans]]
  PROVE  DOMAIN req' = Reqs /\ req'[r].step = step /\ \A p \in Reqs \ {r} : req'[p] = req[p]
BY DEF Goto, Answer

\* A decider that nothing happened to, while no request moved.
LEMMA Elsewhere ==
  ASSUME NEW d \in Deciders, Desk(d), req' = req,
         srv'[d] = srv[d], held'[d] = held[d], queue'[d] = queue[d], shows'[d] = shows[d],
         d \in reg' <=> d \in reg, d \in fresh' <=> d \in fresh, d \in lost' <=> d \in lost
  PROVE  Desk(d)'
BY Zenon DEF Desk, Final, Known, Cleared

\* A decider that leaves the registry, and a handler that ends.
LEMMA Leaves ==
  ASSUME NEW d \in Deciders, Desk(d), req' = req, d \notin reg',
         \/ queue'[d] = <<>>
         \/ queue'[d] = queue[d] /\ srv'[d] = srv[d]
  PROVE  Desk(d)'
<1>1. \A r \in Reqs : InQ(queue'[d], Frame("resolved", r)) => InQ(queue[d], Frame("resolved", r))
  BY DEF InQ
<1>2. \A r \in Reqs : Final(d, r)'
  BY Zenon, <1>1 DEF Desk, Final
<1> QED BY Zenon, <1>2 DEF Desk

\* A request moves and nobody is told: before it is held, out of the hold to
\* be expired, and after it is over.
LEMMA MovesUnseen ==
  ASSUME DeskInv, NEW r \in Reqs, NEW step,
         DOMAIN req' = Reqs, req'[r].step = step, \A p \in Reqs \ {r} : req'[p] = req[p],
         \/ req[r].step \in Before /\ step # "held"
         \/ req[r].step = "held" /\ step = "expire"
         \/ req[r].step = "stranded" /\ step = "done",
         UNCHANGED deskVars
  PROVE  DeskInv'
<1>1. UNCHANGED <<srv, held, reg, fresh, queue, shows, lost>>
  BY Zenon DEF deskVars
<1>2. DeskType'
  BY Zenon, <1>1 DEF DeskInv, DeskType
<1>3. ASSUME NEW d \in Deciders
      PROVE  Desk(d)'
  <2>1. Desk(d)
    BY Zenon DEF DeskInv
  <2>2. /\ queue'[d] = queue[d] /\ shows'[d] = shows[d]
        /\ srv'[d] = srv[d] /\ held'[d] = held[d]
    BY Zenon, <1>1
  <2>3. ASSUME NEW p \in Reqs
        PROVE  Final(d, p)'
    <3>1. CASE p = r
      <4>1. req[r].step \in Over => step \in Over
        BY Zenon DEF Over, Before
      <4>2. Final(d, r)
        BY Zenon, <2>1 DEF Desk
      <4> QED BY Zenon, <2>2, <3>1, <4>1, <4>2 DEF Final
    <3>2. CASE p # r
      BY Zenon, <2>1, <2>2, <3>2 DEF Desk, Final
    <3> QED BY Zenon, <3>1, <3>2
  <2>4. ASSUME d \in reg \ lost, NEW p \in Reqs
        PROVE  Known(d, p)' /\ Cleared(d, p)'
    <3>1. Known(d, p) /\ Cleared(d, p)
      BY Zenon, <2>1, <2>4 DEF Desk
    <3>2. CASE p = r
      <4>1. step # "held"
        OBVIOUS
      <4>2. Known(d, p)'
        BY Zenon, <3>2, <4>1 DEF Known
      <4>3. req[r].step \in Shown => step \in Shown
        BY Zenon DEF Shown, Before
      <4>4. Cleared(d, p)'
        BY Zenon, <2>2, <3>1, <3>2, <4>3 DEF Cleared
      <4> QED BY Zenon, <4>2, <4>4
    <3>3. CASE p # r
      BY Zenon, <2>2, <3>1, <3>3 DEF Known, Cleared
    <3> QED BY Zenon, <3>2, <3>3
  <2> QED BY Zenon, <1>1, <2>1, <2>2, <2>3, <2>4 DEF Desk
<1> QED BY Zenon, <1>2, <1>3 DEF DeskInv

\* A request moves and the deciders are told: it is held, or it is over.  A
\* decider that cannot be told leaves the registry.
LEMMA MovesTold ==
  ASSUME DeskInv, NEW r \in Reqs, NEW step,
         DOMAIN req' = Reqs, req'[r].step = step, \A p \in Reqs \ {r} : req'[p] = req[p],
         NEW f,
         \/ f = Frame("request", r) /\ step = "held" /\ req[r].step = "created"
         \/ f = Frame("resolved", r) /\ step \in Over,
         Broadcast(f),
         DOMAIN srv' = Deciders, DOMAIN held' = Deciders,
         \A d \in Deciders : held'[d].of \subseteq Reqs,
         \A d \in Deciders :
           \/ srv'[d] = srv[d] /\ held'[d] = held[d]
           \/ srv[d] = "resolve" /\ srv'[d] = "loop",
         UNCHANGED <<fresh, shows, lost>>
  PROVE  DeskInv'
<1>1. f \in Wire
  BY Zenon, FrameWire
<1>2. DeskType
  BY Zenon DEF DeskInv
<1>3. /\ queue' = [d \in Deciders |->
             IF d \in Live /\ ~Full(d) THEN Append(queue[d], f) ELSE queue[d]]
      /\ reg' = reg \ {d \in Live : Full(d)}
  BY Zenon DEF Broadcast
<1>4. ASSUME NEW d \in Deciders
      PROVE  queue'[d] \in Seq(Wire)
  BY Zenon, <1>1, <1>2, <1>3, AppendIn DEF DeskType
<1>5. DeskType'
  BY Zenon, <1>2, <1>3, <1>4 DEF DeskType
<1>6. ASSUME NEW d \in Deciders
      PROVE  Desk(d)'
  <2>1. Desk(d) /\ queue[d] \in Seq(Wire)
    BY Zenon, <1>2 DEF DeskInv, DeskType
  <2>2. queue'[d] = IF d \in Live /\ ~Full(d) THEN Append(queue[d], f) ELSE queue[d]
    BY Zenon, <1>3
  <2>3. ASSUME NEW g
        PROVE  InQ(queue'[d], g) => InQ(queue[d], g) \/ g = f
    BY <1>1, <2>1, <2>2, AppendIn
  <2>4. ASSUME NEW p \in Reqs
        PROVE  Final(d, p)'
    <3>1. Final(d, p)
      BY Zenon, <2>1 DEF Desk
    <3>2. CASE p = r
      <4>1. CASE step \in Over
        BY Zenon, <3>2, <4>1 DEF Final
      <4>2. CASE f = Frame("request", r) /\ req[r].step = "created"
        BY Zenon, <2>3, <3>1, <3>2, <4>2, FramesDiffer DEF Final, Over
      <4> QED BY Zenon, <4>1, <4>2
    <3>3. CASE p # r
      BY Zenon, <2>3, <3>1, <3>3, FramesDiffer DEF Final
    <3> QED BY Zenon, <3>2, <3>3
  <2>5. srv'[d] \in {"none", "checked"} => d \notin reg' /\ queue'[d] = <<>>
    <3>1. srv'[d] \in {"none", "checked"} => srv[d] \in {"none", "checked"}
      OBVIOUS
    <3> QED BY Zenon, <1>3, <2>1, <2>2, <3>1 DEF Desk, Live
  <2>6. d \in reg' \ lost' => d \in reg \ lost /\ d \in fresh /\ d \in Live /\ ~Full(d)
    BY Zenon, <1>3, <2>1 DEF Desk, Live
  <2>7. ASSUME d \in reg' \ lost', NEW p \in Reqs
        PROVE  Known(d, p)' /\ Cleared(d, p)'
    <3>1. Known(d, p) /\ Cleared(d, p) /\ queue'[d] = Append(queue[d], f)
      BY Zenon, <2>1, <2>2, <2>6, <2>7 DEF Desk
    <3>2. \A g : InQ(queue'[d], g) <=> (InQ(queue[d], g) \/ g = f)
      BY <1>1, <2>1, <3>1, AppendIn
    <3>3. CASE p # r
      <4>1. f # Frame("request", p)
        BY Zenon, <3>3, FramesDiffer
      <4>2. Trail(queue[d], p) => Trail(queue'[d], p)
        BY <1>1, <2>1, <3>1, <4>1, AppendTrail
      <4>3. Known(d, p)'
        BY Zenon, <3>1, <3>2, <3>3 DEF Known
      <4>4. Cleared(d, p)'
        BY Zenon, <3>1, <3>2, <3>3, <4>1, <4>2 DEF Cleared
      <4> QED BY Zenon, <4>3, <4>4
    <3>4. CASE p = r /\ f = Frame("request", r) /\ step = "held"
      BY Zenon, <3>2, <3>4 DEF Known, Cleared, Shown
    <3>5. CASE p = r /\ f = Frame("resolved", r) /\ step \in Over
      <4>1. Trail(queue'[d], r)
        BY <1>1, <2>1, <3>1, <3>5, AppendTrail
      <4> QED BY Zenon, <3>5, <4>1 DEF Known, Cleared, Over
    <3> QED BY Zenon, <3>3, <3>4, <3>5
  <2> QED BY Zenon, <2>4, <2>5, <2>6, <2>7 DEF Desk
<1> QED BY Zenon, <1>5, <1>6 DEF DeskInv

-----------------------------------------------------------------------------
(* The steps of a request.                                                 *)

\* The gates, the expiry of a hold and of a stranded row.
LEMMA GatesKeep ==
  ASSUME DeskInv, NEW r \in Reqs,
         \/ Hold(r) \/ AllowModeVerdict(r) \/ StaticDenialVerdict(r) \/ PausedVerdict(r)
         \/ HoldCreates(r) \/ HoldRefused(r) \/ TimesOut(r) \/ ExpireStranded(r)
  PROVE  DeskInv'
<1>1. DOMAIN req = Reqs
  BY Zenon DEF DeskInv, DeskType
<1>2. UNCHANGED deskVars
  BY Zenon DEF Hold, AllowModeVerdict, StaticDenialVerdict, PausedVerdict, HoldCreates,
         HoldRefused, TimesOut, ExpireStranded
<1>3. \E step, ans :
        /\ Goto(r, step) \/ (step = "done" /\ Answer(r, ans))
        /\ \/ req[r].step \in Before /\ step # "held"
           \/ req[r].step = "held" /\ step = "expire"
           \/ req[r].step = "stranded" /\ step = "done"
  <2>1. CASE Hold(r)
    BY SMTT(30), <2>1 DEF Hold, Before
  <2>2. CASE AllowModeVerdict(r)
    BY <2>2 DEF AllowModeVerdict, Before
  <2>3. CASE StaticDenialVerdict(r)
    BY <2>3 DEF StaticDenialVerdict, Before
  <2>4. CASE PausedVerdict(r)
    BY <2>4 DEF PausedVerdict, Before
  <2>5. CASE HoldCreates(r)
    BY <2>5 DEF HoldCreates, Before
  <2>6. CASE HoldRefused(r)
    BY <2>6 DEF HoldRefused, Before
  <2>7. CASE TimesOut(r)
    BY Zenon, <2>7 DEF TimesOut
  <2>8. CASE ExpireStranded(r)
    BY Zenon, <2>8 DEF ExpireStranded
  <2> QED BY Zenon, <2>1, <2>2, <2>3, <2>4, <2>5, <2>6, <2>7, <2>8
<1>4. PICK step, ans :
        /\ Goto(r, step) \/ (step = "done" /\ Answer(r, ans))
        /\ \/ req[r].step \in Before /\ step # "held"
           \/ req[r].step = "held" /\ step = "expire"
           \/ req[r].step = "stranded" /\ step = "done"
  BY Zenon, <1>3
<1>5. DOMAIN req' = Reqs /\ req'[r].step = step /\ \A p \in Reqs \ {r} : req'[p] = req[p]
  BY Zenon, <1>1, <1>4, GotoOne
<1> QED BY Zenon, <1>2, <1>4, <1>5, MovesUnseen

\* A hold begins, and a hold that timed out is answered.
LEMMA HoldsKeep ==
  ASSUME DeskInv, NEW r \in Reqs, RegisterHold(r) \/ FailClose(r)
  PROVE  DeskInv'
<1>1. /\ DOMAIN req = Reqs /\ DOMAIN srv = Deciders /\ DOMAIN held = Deciders
      /\ \A d \in Deciders : held[d].of \subseteq Reqs
  BY Zenon DEF DeskInv, DeskType
<1>2. UNCHANGED <<srv, held, fresh, shows, lost>>
  BY Zenon DEF RegisterHold, FailClose
<1>3. CASE RegisterHold(r)
  <2>1. req[r].step = "created" /\ Goto(r, "held") /\ Broadcast(Frame("request", r))
    BY Zenon, <1>3 DEF RegisterHold
  <2>2. DOMAIN req' = Reqs /\ req'[r].step = "held" /\ \A p \in Reqs \ {r} : req'[p] = req[p]
    BY Zenon, <1>1, <2>1, GotoOne
  <2> QED BY Zenon, <1>1, <1>2, <2>1, <2>2, MovesTold
<1>4. CASE FailClose(r)
  <2>1. Answer(r, "denied") /\ Broadcast(Frame("resolved", r))
    BY Zenon, <1>4 DEF FailClose
  <2>2. DOMAIN req' = Reqs /\ req'[r].step = "done" /\ \A p \in Reqs \ {r} : req'[p] = req[p]
    BY Zenon, <1>1, <2>1, GotoOne
  <2>3. "done" \in Over
    BY Zenon DEF Over
  <2> QED BY Zenon, <1>1, <1>2, <2>1, <2>2, <2>3, MovesTold
<1> QED BY Zenon, <1>3, <1>4

\* A verdict is decided, or is not.
LEMMA ResolvesKeep ==
  ASSUME DeskInv, NEW d \in Deciders, NEW r \in Reqs, Resolve(d, r) \/ ResolveFails(d, r)
  PROVE  DeskInv'
<1>1. /\ DOMAIN req = Reqs /\ DOMAIN srv = Deciders /\ DOMAIN held = Deciders
      /\ \A e \in Deciders : held[e].of \subseteq Reqs
  BY Zenon DEF DeskInv, DeskType
<1>2. /\ UNCHANGED <<fresh, shows, lost>>
      /\ srv[d] = "resolve" /\ srv' = [srv EXCEPT ![d] = "loop"]
      /\ held' = [held EXCEPT ![d] = Nothing]
      /\ Broadcast(Frame("resolved", r))
  BY Zenon DEF Resolve, ResolveFails
<1>3. /\ DOMAIN srv' = Deciders /\ DOMAIN held' = Deciders
      /\ \A e \in Deciders : held'[e].of \subseteq Reqs
      /\ \A e \in Deciders :
           \/ srv'[e] = srv[e] /\ held'[e] = held[e]
           \/ srv[e] = "resolve" /\ srv'[e] = "loop"
  BY Zenon, <1>1, <1>2 DEF Nothing
<1>4. \E step \in Over : DOMAIN req' = Reqs /\ req'[r].step = step
                         /\ \A p \in Reqs \ {r} : req'[p] = req[p]
  <2>1. CASE Resolve(d, r)
    <3>1. Answer(r, held[d].said)
      BY Zenon, <2>1 DEF Resolve
    <3> QED BY Zenon, <1>1, <3>1, GotoOne DEF Over
  <2>2. CASE ResolveFails(d, r)
    <3>1. req' = [req EXCEPT ![r] = [step |-> "stranded", ans |-> "denied"]]
      BY Zenon, <2>2 DEF ResolveFails
    <3> QED BY Zenon, <1>1, <3>1, GotoOne DEF Over
  <2> QED BY Zenon, <2>1, <2>2
<1> QED BY Zenon, <1>2, <1>3, <1>4, MovesTold

\* A verdict pops the hold.
LEMMA VerdictKeeps ==
  ASSUME DeskInv, NEW d \in Deciders, NEW r \in Reqs, NEW v, NEW t, Verdict(d, r, v, t)
  PROVE  DeskInv'
<1>1. DeskType
  BY Zenon DEF DeskInv
<1>2. /\ srv[d] = "loop" /\ req[r].step = "held" /\ Goto(r, "settle")
      /\ srv' = [srv EXCEPT ![d] = "resolve"]
      /\ held' = [held EXCEPT ![d] = [what |-> "verdict", of |-> {r}, said |-> v, lasts |-> t]]
      /\ UNCHANGED <<reg, fresh, queue, shows, lost>>
  BY Zenon DEF Verdict, Receives
<1>3. DOMAIN req' = Reqs /\ req'[r].step = "settle" /\ \A p \in Reqs \ {r} : req'[p] = req[p]
  BY Zenon, <1>1, <1>2, GotoOne DEF DeskType
<1>4. DeskType'
  BY Zenon, <1>1, <1>2, <1>3 DEF DeskType
<1>5. ASSUME NEW e \in Deciders
      PROVE  Desk(e)'
  <2>1. Desk(e)
    BY Zenon DEF DeskInv
  <2>2. \/ e = d /\ srv'[e] = "resolve" /\ srv[e] = "loop"
        \/ srv'[e] = srv[e] /\ held'[e] = held[e]
    BY Zenon, <1>1, <1>2 DEF DeskType
  <2>3. ASSUME NEW p \in Reqs
        PROVE  Final(e, p)'
    BY Zenon, <1>2, <1>3, <2>1 DEF Desk, Final, Over
  <2>4. ASSUME e \in reg \ lost, NEW p \in Reqs
        PROVE  Known(e, p)' /\ Cleared(e, p)'
    <3>1. Known(e, p) /\ Cleared(e, p)
      BY Zenon, <2>1, <2>4 DEF Desk
    <3>2. CASE p = r
      BY Zenon, <1>3, <3>2 DEF Known, Cleared, Shown
    <3>3. CASE p # r
      BY Zenon, <1>2, <1>3, <2>2, <3>1, <3>3 DEF Known, Cleared
    <3> QED BY Zenon, <3>2, <3>3
  <2>5. srv'[e] \in {"none", "checked"} => e \notin reg' /\ queue'[e] = <<>>
    BY Zenon, <1>2, <2>1, <2>2 DEF Desk
  <2> QED BY Zenon, <1>2, <2>1, <2>3, <2>4, <2>5 DEF Desk
<1> QED BY Zenon, <1>4, <1>5 DEF DeskInv

-----------------------------------------------------------------------------
(* The steps of a decider.                                                 *)

\* A handler that ends.
LEMMA FinishKeeps ==
  ASSUME DeskInv, NEW d \in Deciders, Finish(d), req' = req
  PROVE  DeskInv'
<1>1. DeskType
  BY Zenon DEF DeskInv
<1>2. /\ srv' = [srv EXCEPT ![d] = "none"]
      /\ held' = [held EXCEPT ![d] = Nothing]
      /\ reg' = reg \ {d} /\ fresh' = fresh \ {d} /\ lost' = lost \ {d}
      /\ queue' = [queue EXCEPT ![d] = <<>>]
      /\ shows' = [shows EXCEPT ![d] = {}]
  BY Zenon DEF Finish
<1>3. DeskType'
  BY <1>1, <1>2 DEF DeskType, Nothing
<1>4. ASSUME NEW e \in Deciders \ {d}
      PROVE  Desk(e)'
  <2>1. /\ Desk(e) /\ srv'[e] = srv[e] /\ held'[e] = held[e]
        /\ queue'[e] = queue[e] /\ shows'[e] = shows[e]
    BY Zenon, <1>1, <1>2 DEF DeskInv, DeskType
  <2> QED BY Zenon, <1>2, <2>1, Elsewhere
<1>5. Desk(d) /\ queue'[d] = <<>> /\ d \notin reg'
  BY Zenon, <1>1, <1>2 DEF DeskInv, DeskType
<1>6. Desk(d)'
  BY Zenon, <1>5, Leaves
<1> QED BY Zenon, <1>3, <1>4, <1>6 DEF DeskInv

\* A decider that leaves the registry while its handler stays.
LEMMA DropKeeps ==
  ASSUME DeskInv, NEW d \in Deciders, reg' = reg \ {d},
         UNCHANGED <<req, srv, held, fresh, queue, shows, lost>>
  PROVE  DeskInv'
<1>1. DeskType'
  BY Zenon DEF DeskInv, DeskType
<1>2. ASSUME NEW e \in Deciders \ {d}
      PROVE  Desk(e)'
  <2>1. Desk(e)
    BY Zenon DEF DeskInv
  <2> QED BY Zenon, <2>1, Elsewhere
<1>3. Desk(d) /\ d \notin reg'
  BY Zenon DEF DeskInv
<1>4. Desk(d)'
  BY Zenon, <1>3, Leaves
<1> QED BY Zenon, <1>1, <1>2, <1>4 DEF DeskInv

\* A step of the handler that changes neither the lists nor the queue, and
\* after which no replay is due that was due before.
LEMMA HandlerKeeps ==
  ASSUME DeskInv, NEW d \in Deciders,
         srv' = srv \/ srv' = [srv EXCEPT ![d] = srv'[d]],
         srv'[d] = srv[d] \/
           /\ srv[d] \in {"none", "loop", "pause"}
           /\ srv[d] = "none" <=> srv'[d] = "checked"
           /\ srv'[d] # "none",
         UNCHANGED <<req, held, reg, queue, shows, lost>>, fresh \subseteq fresh',
         \A e \in Deciders \ {d} : e \in fresh' <=> e \in fresh
  PROVE  DeskInv'
<1>1. DeskType
  BY Zenon DEF DeskInv
<1>2. DeskType'
  BY Zenon, <1>1 DEF DeskType
<1>3. ASSUME NEW e \in Deciders \ {d}
      PROVE  Desk(e)'
  <2>1. Desk(e) /\ srv'[e] = srv[e]
    BY Zenon, <1>1 DEF DeskInv, DeskType
  <2> QED BY Zenon, <1>3, <2>1, Elsewhere
<1>4. Desk(d)'
  <2>1. Desk(d)
    BY Zenon DEF DeskInv
  <2>2. srv'[d] \in {"none", "checked"} => srv[d] \in {"none", "checked"}
    OBVIOUS
  <2>3. \A r \in Reqs : Final(d, r)'
    BY Zenon, <2>1 DEF Desk, Final
  <2>4. ASSUME d \in reg \ lost, NEW r \in Reqs
        PROVE  Known(d, r)' /\ Cleared(d, r)'
    <3>1. Known(d, r) /\ Cleared(d, r)
      BY Zenon, <2>1, <2>4 DEF Desk
    <3>2. srv'[d] = srv[d] \/ srv[d] \notin {"registered", "replay"}
      OBVIOUS
    <3> QED BY Zenon, <3>1, <3>2 DEF Known, Cleared
  <2> QED BY Zenon, <2>1, <2>2, <2>3, <2>4 DEF Desk
<1> QED BY Zenon, <1>2, <1>3, <1>4 DEF DeskInv

\* A decider enters the registry with an empty queue and an empty list, its
\* replay still to come.
LEMMA RegisterKeeps ==
  ASSUME DeskInv, NEW d \in Deciders, Register(d)
  PROVE  DeskInv'
<1>1. DeskType
  BY Zenon DEF DeskInv
<1>2. /\ srv[d] = "checked" /\ srv' = [srv EXCEPT ![d] = "registered"]
      /\ reg' = reg \cup {d} /\ fresh' = fresh \cup {d}
      /\ shows' = [shows EXCEPT ![d] = {}]
      /\ UNCHANGED <<req, held, queue, lost>>
  BY Zenon DEF Register
<1>3. DeskType'
  BY Zenon, <1>1, <1>2 DEF DeskType
<1>4. ASSUME NEW e \in Deciders \ {d}
      PROVE  Desk(e)'
  <2>1. Desk(e) /\ srv'[e] = srv[e] /\ shows'[e] = shows[e]
    BY Zenon, <1>1, <1>2 DEF DeskInv, DeskType
  <2> QED BY Zenon, <1>2, <2>1, Elsewhere
<1>5. Desk(d)'
  <2>1. queue'[d] = <<>> /\ shows'[d] = {} /\ srv'[d] = "registered"
    BY Zenon, <1>1, <1>2 DEF DeskInv, DeskType, Desk
  <2>2. \A g : ~ InQ(queue'[d], g)
    BY <2>1 DEF InQ
  <2> QED BY Zenon, <1>2, <2>1, <2>2 DEF Desk, Final, Known, Cleared
<1> QED BY Zenon, <1>3, <1>4, <1>5 DEF DeskInv

\* The rows read have every held request among them.
LEMMA ReplayReadsKeeps ==
  ASSUME DeskInv, NEW d \in Deciders, ReplayReads(d)
  PROVE  DeskInv'
<1>1. DeskType
  BY Zenon DEF DeskInv
<1>2. /\ srv[d] = "registered" /\ srv' = [srv EXCEPT ![d] = "replay"]
      /\ held' = [held EXCEPT ![d] = [what |-> "rows", of |-> {r \in Reqs : Pending(r)}]]
      /\ UNCHANGED <<req, reg, fresh, queue, shows, lost>>
  BY Zenon DEF ReplayReads
<1>3. DeskType'
  BY Zenon, <1>1, <1>2 DEF DeskType
<1>4. ASSUME NEW e \in Deciders \ {d}
      PROVE  Desk(e)'
  <2>1. Desk(e) /\ srv'[e] = srv[e] /\ held'[e] = held[e]
    BY Zenon, <1>1, <1>2 DEF DeskInv, DeskType
  <2> QED BY Zenon, <1>2, <2>1, Elsewhere
<1>5. Desk(d)'
  <2>1. Desk(d) /\ srv'[d] = "replay" /\ held'[d].of = {r \in Reqs : Pending(r)}
    BY Zenon, <1>1, <1>2 DEF DeskInv, DeskType
  <2>2. \A r \in Reqs : Final(d, r)' /\ Known(d, r)'
    <3> SUFFICES ASSUME NEW r \in Reqs PROVE Final(d, r)' /\ Known(d, r)'
      OBVIOUS
    <3>1. Final(d, r)'
      BY Zenon, <1>2, <2>1 DEF Desk, Final
    <3>2. req[r].step = "held" => r \in {x \in Reqs : Pending(x)}
      BY Zenon DEF Pending
    <3>3. Known(d, r)'
      BY Zenon, <1>2, <2>1, <3>2 DEF Known
    <3> QED BY Zenon, <3>1, <3>3
  <2>3. d \in reg \ lost => \A r \in Reqs : Cleared(d, r)'
    BY Zenon, <1>2, <2>1 DEF Desk, Cleared
  <2> QED BY Zenon, <1>2, <2>1, <2>2, <2>3 DEF Desk
<1> QED BY Zenon, <1>3, <1>4, <1>5 DEF DeskInv

\* The frames of a replay ask for the requests of its rows that are held still.
LEMMA Frames ==
  ASSUME DeskType, NEW d \in Deciders, NEW frames \in ReplayFrames(d)
  PROVE  /\ frames \in Seq(Wire)
         /\ \A r \in Reqs : InQ(frames, Frame("request", r)) <=> r \in Replayed(d)
         /\ \A r \in Reqs : ~ InQ(frames, Frame("resolved", r))
<1> DEFINE some == Replay(d)
<1>1. Replayed(d) \in SUBSET Reqs
  BY Zenon DEF Replayed, DeskType
<1>2. QueueSize \in Nat
  BY Zenon, DeskAssumption
<1>3. /\ \E n \in 0 .. QueueSize : frames \in [1 .. n -> some]
      /\ Range(frames) = some
  BY Zenon DEF ReplayFrames
<1>4. some \subseteq Wire
  BY <1>1, FrameWire DEF Replay
<1>5. \A g : InQ(frames, g) <=> g \in some
  BY Zenon, <1>3 DEF InQ, Range
<1>6. \A r \in Reqs : Frame("request", r) \in some <=> r \in Replayed(d)
  BY Zenon, FramesDiffer DEF Replay
<1>7. \A r \in Reqs : Frame("resolved", r) \notin some
  BY Zenon, FramesDiffer DEF Replay
<1> HIDE DEF some
<1>8. frames \in Seq(Wire)
  BY <1>2, <1>3, <1>4
<1> QED BY Zenon, <1>5, <1>6, <1>7, <1>8

\* The replay is sent, or the handler ends.
LEMMA ReplaySendsKeeps ==
  ASSUME DeskInv, NEW d \in Deciders, ReplaySends(d)
  PROVE  DeskInv'
<1>1. DeskType
  BY Zenon DEF DeskInv
<1>2. srv[d] = "replay" /\ req' = req
  BY Zenon DEF ReplaySends
<1>3. CASE Finish(d)
  BY Zenon, <1>2, <1>3, FinishKeeps
<1>4. CASE ~ Finish(d)
  <2>1. PICK frames \in ReplayFrames(d) :
          /\ srv' = [srv EXCEPT ![d] = "loop"]
          /\ held' = [held EXCEPT ![d] = Nothing]
          /\ queue' = [queue EXCEPT ![d] = @ \o frames]
          /\ UNCHANGED <<reg, fresh, shows, lost>>
    BY Zenon, <1>4 DEF ReplaySends
  <2>2. /\ frames \in Seq(Wire)
        /\ \A r \in Reqs : InQ(frames, Frame("request", r)) <=> r \in Replayed(d)
        /\ \A r \in Reqs : ~ InQ(frames, Frame("resolved", r))
    BY Zenon, <1>1, Frames
  <2>3. queue[d] \in Seq(Wire) /\ queue'[d] = queue[d] \o frames
    BY Zenon, <1>1, <2>1 DEF DeskType
  <2>4. /\ queue'[d] \in Seq(Wire)
        /\ \A g : InQ(queue'[d], g) <=> (InQ(queue[d], g) \/ InQ(frames, g))
    BY <2>2, <2>3, ConcatIn
  <2>5. DeskType'
    BY Zenon, <1>1, <1>2, <2>1, <2>4 DEF DeskType, Nothing
  <2>6. ASSUME NEW e \in Deciders \ {d}
        PROVE  Desk(e)'
    <3>1. Desk(e) /\ srv'[e] = srv[e] /\ held'[e] = held[e] /\ queue'[e] = queue[e]
      BY Zenon, <1>1, <2>1 DEF DeskInv, DeskType
    <3> QED BY Zenon, <1>2, <2>1, <3>1, Elsewhere
  <2>7. Desk(d)'
    <3>1. Desk(d) /\ srv'[d] = "loop"
      BY Zenon, <1>1, <2>1 DEF DeskInv, DeskType
    <3>2. \A r \in Reqs : Final(d, r)'
      BY Zenon, <1>2, <2>2, <2>4, <3>1 DEF Desk, Final
    <3>3. ASSUME d \in reg \ lost, NEW r \in Reqs
          PROVE  Known(d, r)' /\ Cleared(d, r)'
      <4>1. Known(d, r) /\ Cleared(d, r)
        BY Zenon, <3>1, <3>3 DEF Desk
      <4>2. Known(d, r)'
        BY Zenon, <1>2, <2>1, <2>2, <2>4, <4>1 DEF Known, Replayed
      <4>3. CASE r \in Replayed(d)
        BY Zenon, <1>2, <4>2, <4>3 DEF Cleared, Replayed, Shown
      <4>4. CASE r \notin Replayed(d)
        <5>1. Trail(queue[d], r) => Trail(queue'[d], r)
          BY Zenon, <2>2, <2>3, <4>4, ConcatTrail
        <5> QED BY Zenon, <1>2, <2>1, <2>2, <2>4, <4>1, <4>2, <4>4, <5>1 DEF Cleared
      <4> QED BY Zenon, <4>2, <4>3, <4>4
    <3> QED BY Zenon, <2>1, <3>1, <3>2, <3>3 DEF Desk
  <2> QED BY Zenon, <2>5, <2>6, <2>7 DEF DeskInv
<1> QED BY Zenon, <1>3, <1>4

\* A client reads a frame.
LEMMA ClientAppliesKeeps ==
  ASSUME DeskInv, NEW d \in Deciders, ClientApplies(d)
  PROVE  DeskInv'
<1>1. DeskType
  BY Zenon DEF DeskInv
<1>2. PICK f : f = Head(queue[d])
  OBVIOUS
<1>3. /\ queue[d] # <<>>
      /\ shows' = [shows EXCEPT ![d] =
           IF f.type = "request" THEN @ \cup {f.req} ELSE @ \ {f.req}]
      /\ queue' = [queue EXCEPT ![d] = Tail(@)]
      /\ UNCHANGED <<req, srv, held, reg, fresh, lost>>
  BY Zenon, <1>2 DEF ClientApplies
<1>4. queue[d] \in Seq(Wire) /\ queue'[d] = Tail(queue[d])
  BY Zenon, <1>1, <1>3 DEF DeskType
<1>5. /\ Tail(queue[d]) \in Seq(Wire) /\ f \in Wire
      /\ \A g : InQ(queue[d], g) <=> (g = f \/ InQ(queue'[d], g))
  BY Zenon, <1>2, <1>3, <1>4, TailIn
<1>6. PICK r \in Reqs : f = Frame("request", r) \/ f = Frame("resolved", r)
  BY Zenon, <1>5 DEF Wire, Frame
<1>7. shows'[d] = IF f = Frame("request", r) THEN shows[d] \cup {r} ELSE shows[d] \ {r}
  <2>1. shows'[d] = IF f.type = "request" THEN shows[d] \cup {f.req} ELSE shows[d] \ {f.req}
    BY Zenon, <1>1, <1>3 DEF DeskType
  <2> QED BY SMTT(30), <1>6, <2>1 DEF Frame
<1>8. DeskType'
  <2>1. shows'[d] \in SUBSET Reqs
    BY Zenon, <1>1, <1>7 DEF DeskType
  <2>2. shows' \in [Deciders -> SUBSET Reqs]
    BY Zenon, <1>1, <1>3, <2>1 DEF DeskType
  <2>3. queue' \in [Deciders -> Seq(Wire)]
    BY Zenon, <1>1, <1>3, <1>5 DEF DeskType
  <2> QED BY Zenon, <1>1, <1>3, <2>2, <2>3 DEF DeskType
<1>9. ASSUME NEW e \in Deciders \ {d}
      PROVE  Desk(e)'
  <2>1. Desk(e) /\ shows'[e] = shows[e] /\ queue'[e] = queue[e]
    BY Zenon, <1>1, <1>3 DEF DeskInv, DeskType
  <2> QED BY Zenon, <1>3, <2>1, Elsewhere
<1>10. Desk(d)'
  <2>1. Desk(d)
    BY Zenon DEF DeskInv
  <2>2. \A p \in Reqs : Final(d, p)'
    BY Zenon, <1>3, <1>5, <2>1 DEF Desk, Final
  <2>3. srv[d] \notin {"none", "checked"}
    BY Zenon, <1>3, <2>1 DEF Desk
  <2>4. ASSUME d \in reg \ lost, NEW p \in Reqs
        PROVE  Known(d, p)' /\ Cleared(d, p)'
    <3>1. Known(d, p) /\ Cleared(d, p) /\ Final(d, p)
      BY Zenon, <2>1, <2>4 DEF Desk
    <3>2. Trail(queue[d], p) =>
            \/ Trail(queue'[d], p)
            \/ f = Frame("resolved", p) /\ ~ InQ(queue'[d], Frame("request", p))
      BY Zenon, <1>2, <1>3, <1>4, TailTrail
    <3>3. CASE p # r
      <4>1. f # Frame("request", p) /\ f # Frame("resolved", p) /\ (p \in shows'[d] <=> p \in shows[d])
        BY Zenon, <1>6, <1>7, <3>3, FramesDiffer
      <4> QED BY Zenon, <1>3, <1>5, <3>1, <3>2, <4>1 DEF Known, Cleared
    <3>4. CASE p = r /\ f = Frame("request", r)
      <4>1. p \in shows'[d] /\ f # Frame("resolved", p) /\ InQ(queue[d], Frame("request", p))
        BY Zenon, <1>5, <1>7, <3>4, FramesDiffer
      <4> QED BY Zenon, <1>3, <3>1, <3>2, <4>1 DEF Known, Cleared
    <3>5. CASE p = r /\ f = Frame("resolved", r)
      <4>1. p \notin shows'[d] /\ f # Frame("request", p) /\ InQ(queue[d], Frame("resolved", p))
        BY Zenon, <1>5, <1>7, <3>5, FramesDiffer
      <4>2. req[p].step \notin Shown /\ req[p].step # "held"
        BY Zenon, <3>1, <4>1 DEF Final, Over, Shown
      <4>3. InQ(queue'[d], Frame("request", p)) => InQ(queue[d], Frame("request", p))
        BY Zenon, <1>5
      <4> QED BY Zenon, <1>3, <3>1, <3>2, <4>1, <4>2, <4>3 DEF Known, Cleared
    <3> QED BY Zenon, <1>6, <3>3, <3>4, <3>5
  <2> QED BY Zenon, <1>3, <2>1, <2>2, <2>3, <2>4 DEF Desk
<1> QED BY Zenon, <1>8, <1>9, <1>10 DEF DeskInv

\* A lease that runs out takes the decider out of both claims.
LEMMA LeaseLapsesKeeps ==
  ASSUME DeskInv, NEW d \in Deciders, LeaseLapses(d)
  PROVE  DeskInv'
<1>1. /\ fresh' = fresh \ {d} /\ lost' = lost \cup {d}
      /\ UNCHANGED <<req, srv, held, reg, queue, shows>>
  BY Zenon DEF LeaseLapses
<1>2. DeskType'
  BY Zenon, <1>1 DEF DeskInv, DeskType
<1>3. ASSUME NEW e \in Deciders \ {d}
      PROVE  Desk(e)'
  <2>1. Desk(e)
    BY Zenon DEF DeskInv
  <2> QED BY Zenon, <1>1, <2>1, Elsewhere
<1>4. Desk(d)'
  <2>1. Desk(d)
    BY Zenon DEF DeskInv
  <2> QED BY Zenon, <1>1, <2>1 DEF Desk, Final
<1> QED BY Zenon, <1>2, <1>3, <1>4 DEF DeskInv

\* Every step of a decider keeps the invariant.
LEMMA DeciderStepKeeps ==
  ASSUME DeskInv, NEW d \in Deciders, DeciderStep(d)
  PROVE  DeskInv'
<1>1. DOMAIN srv = Deciders
  BY Zenon DEF DeskInv, DeskType
<1>2. CASE Handshake(d)
  <2>1. srv' = [srv EXCEPT ![d] = "checked"] /\ srv[d] = "none"
        /\ UNCHANGED <<req, held, reg, fresh, queue, shows, lost>>
    BY Zenon, <1>2 DEF Handshake
  <2>2. srv'[d] = "checked"
    BY Zenon, <1>1, <2>1
  <2> QED BY Zenon, <2>1, <2>2, HandlerKeeps
<1>3. CASE Ping(d)
  <2>1. req' = req
    BY Zenon, <1>3 DEF Ping
  <2>2. CASE Finish(d)
    BY Zenon, <2>1, <2>2, FinishKeeps
  <2>3. CASE ~ Finish(d)
    <3>1. /\ fresh' = IF d \in reg THEN fresh \cup {d} ELSE fresh
          /\ UNCHANGED <<srv, held, reg, queue, shows, lost>>
      BY Zenon, <1>3, <2>3 DEF Ping
    <3>2. fresh \subseteq fresh' /\ \A e \in Deciders \ {d} : e \in fresh' <=> e \in fresh
      BY Zenon, <3>1
    <3> QED BY Zenon, <2>1, <3>1, <3>2, HandlerKeeps
  <2> QED BY Zenon, <2>2, <2>3
<1>4. CASE PauseChecks(d)
  <2>1. srv' = [srv EXCEPT ![d] = "pause"] /\ srv[d] = "loop"
        /\ UNCHANGED <<req, held, reg, fresh, queue, shows, lost>>
    BY Zenon, <1>4 DEF PauseChecks, Receives
  <2>2. srv'[d] = "pause"
    BY Zenon, <1>1, <2>1
  <2> QED BY Zenon, <2>1, <2>2, HandlerKeeps
<1>5. CASE PauseStores(d)
  <2>1. srv' = [srv EXCEPT ![d] = "loop"] /\ srv[d] = "pause"
        /\ UNCHANGED <<req, held, reg, fresh, queue, shows, lost>>
    BY Zenon, <1>5 DEF PauseStores
  <2>2. srv'[d] = "loop"
    BY Zenon, <1>1, <2>1
  <2> QED BY Zenon, <2>1, <2>2, HandlerKeeps
<1>6. CASE Unpause(d) \/ Suspends(d) \/ Wakes(d) \/ Breaks(d)
  <2>1. UNCHANGED <<req, srv, held, reg, fresh, queue, shows, lost>>
    BY Zenon, <1>6 DEF Unpause, Suspends, Wakes, Breaks, deskVars
  <2> QED BY Zenon, <2>1, HandlerKeeps
<1>7. CASE Reap(d) \/ Kick(d)
  <2>1. reg' = reg \ {d} /\ UNCHANGED <<req, srv, held, fresh, queue, shows, lost>>
    BY Zenon, <1>7 DEF Reap, Kick
  <2> QED BY Zenon, <2>1, DropKeeps
<1>8. CASE Disconnected(d)
  <2>1. Finish(d) /\ req' = req
    BY Zenon, <1>8 DEF Disconnected
  <2> QED BY Zenon, <2>1, FinishKeeps
<1>9. CASE \E r \in Reqs, v \in Verdicts, t \in Chosen : Verdict(d, r, v, t)
  BY Zenon, <1>9, VerdictKeeps
<1>10. CASE \E r \in Reqs : Resolve(d, r) \/ ResolveFails(d, r)
  BY Zenon, <1>10, ResolvesKeep
<1> QED
  BY Zenon, <1>2, <1>3, <1>4, <1>5, <1>6, <1>7, <1>8, <1>9, <1>10, RegisterKeeps,
     ReplayReadsKeeps, ReplaySendsKeeps, ClientAppliesKeeps, LeaseLapsesKeeps DEF DeciderStep

\* Nothing else touches the requests or the deciders.
LEMMA OthersKeep ==
  ASSUME DeskInv, UNCHANGED <<req, deskVars>>
  PROVE  DeskInv'
<1>1. UNCHANGED <<req, srv, held, reg, fresh, queue, shows, lost>>
  BY Zenon DEF deskVars
<1>2. DeskType'
  BY Zenon, <1>1 DEF DeskInv, DeskType
<1>3. ASSUME NEW d \in Deciders
      PROVE  Desk(d)'
  <2>1. Desk(d)
    BY Zenon DEF DeskInv
  <2> QED BY Zenon, <1>1, <2>1, Elsewhere
<1> QED BY Zenon, <1>2, <1>3 DEF DeskInv

\* Nobody is registered and nothing is queued at the start.
LEMMA DeskInvInit == Init => DeskInv
<1> SUFFICES ASSUME Init PROVE DeskInv
  OBVIOUS
<1>1. DeskType
  BY SMTT(30) DEF Init, DeskType, Nothing
<1>2. ASSUME NEW d \in Deciders
      PROVE  Desk(d)
  BY DEF Init, Desk, Final, InQ
<1> QED BY Zenon, <1>1, <1>2 DEF DeskInv

\* Every step keeps the invariant.
LEMMA DeskInvKept == DeskInv /\ [Next]_vars => DeskInv'
<1> SUFFICES ASSUME DeskInv, [Next]_vars PROVE DeskInv'
  OBVIOUS
<1>1. ASSUME NEW r \in Reqs, ReqStep(r)
      PROVE  DeskInv'
  BY Zenon, <1>1, GatesKeep, HoldsKeep DEF ReqStep
<1>2. ASSUME NEW d \in Deciders, DeciderStep(d)
      PROVE  DeskInv'
  BY Zenon, <1>2, DeciderStepKeeps
<1>3. CASE \/ \E m \in Modes : SwitchMode(m)
           \/ PauseLapses
           \/ \E i \in DOMAIN past : VerdictLapses(i)
           \/ UNCHANGED vars
  <2>1. UNCHANGED <<req, deskVars>>
    BY Zenon, <1>3 DEF SwitchMode, PauseLapses, VerdictLapses, vars
  <2> QED BY Zenon, <2>1, OthersKeep
<1> QED BY Zenon, <1>1, <1>2, <1>3 DEF Next

-----------------------------------------------------------------------------
\* handle_consent_decider registers before it replays, and the two together
\* miss no held request, for any number of requests and deciders and any
\* SEND_QUEUE_SIZE.
THEOREM HeldAreShown == Spec => []HeldIsShown
<1>1. DeskInv => HeldIsShown
  <2> SUFFICES ASSUME DeskInv, NEW d \in reg \ lost, NEW r \in Reqs,
                      srv[d] \notin {"registered", "replay"}, req[r].step = "held"
               PROVE  r \in shows[d] \/ InQ(queue[d], Frame("request", r))
    BY Zenon DEF HeldIsShown, InQ
  <2>1. Known(d, r)
    BY Zenon DEF DeskInv, DeskType, Desk
  <2> QED BY Zenon, <2>1 DEF Known
<1> QED BY <1>1, DeskInvInit, DeskInvKept, PTL DEF Spec

\* The frame that ends a request is the last a client reads of it: a replay
\* that raced its end leaves no prompt behind.
THEOREM NoGhosts == Spec => []NoGhost
<1>1. DeskInv => NoGhost
  <2> SUFFICES ASSUME DeskInv, NEW d \in reg \ lost, queue[d] = <<>>, NEW r \in shows[d]
               PROVE  req[r].step \in {"held", "settle", "expire"}
    BY Zenon DEF NoGhost
  <2>1. d \in Deciders /\ r \in Reqs
    BY Zenon DEF DeskInv, DeskType
  <2>2. Cleared(d, r)
    BY Zenon, <2>1 DEF DeskInv, Desk
  <2>3. ~ Trail(queue[d], r)
    BY DEF Trail
  <2> QED BY Zenon, <2>2, <2>3 DEF Cleared, Shown
<1> QED BY <1>1, DeskInvInit, DeskInvKept, PTL DEF Spec

\* A window that is stored was stored after the last change of mode, whether
\* the workspace is interactive or not; the switch back cannot revive it.
PauseInv == pause => since

\* _mode_switch_pause_clear runs in every change of mode, so no pause outlives
\* one, however a pause request and a switch interleave.
THEOREM PausesAreOfThisEpoch == Spec => []PauseIsOfThisEpoch
<1>1. Init => PauseInv
  BY Zenon DEF Init, PauseInv
<1>2. PauseInv /\ [Next]_vars => PauseInv'
  <2> SUFFICES ASSUME PauseInv, [Next]_vars PROVE PauseInv'
    OBVIOUS
  <2>1. ASSUME NEW r \in Reqs, ReqStep(r)
        PROVE  PauseInv'
    BY Zenon, <2>1 DEF ReqStep, Hold, AllowModeVerdict, StaticDenialVerdict, PausedVerdict,
         HoldCreates, HoldRefused, RegisterHold, TimesOut, FailClose, ExpireStranded,
         wsVars, PauseInv
  <2>2. ASSUME NEW d \in Deciders, DeciderStep(d)
        PROVE  PauseInv'
    <3>1. CASE PauseStores(d) \/ Unpause(d)
      BY Zenon, <3>1 DEF PauseStores, Unpause, PauseInv
    <3>2. CASE ~ (PauseStores(d) \/ Unpause(d))
      <4>1. UNCHANGED wsVars
        BY Zenon, <2>2, <3>2 DEF DeciderStep, Handshake, Register, ReplayReads, ReplaySends, Ping,
             PauseChecks, Verdict, Resolve, ResolveFails, ClientApplies, Suspends, Wakes,
             Breaks, Disconnected, LeaseLapses, Reap, Kick
      <4> QED BY Zenon, <4>1 DEF wsVars, PauseInv
    <3> QED BY Zenon, <3>1, <3>2
  <2>3. ASSUME NEW m \in Modes, SwitchMode(m)
        PROVE  PauseInv'
    BY Zenon, <2>3 DEF SwitchMode, PauseAfterSwitch, PauseInv
  <2>4. CASE PauseLapses
    BY Zenon, <2>4 DEF PauseLapses, PauseInv
  <2>5. CASE (\E i \in DOMAIN past : VerdictLapses(i)) \/ UNCHANGED vars
    BY Zenon, <2>5 DEF VerdictLapses, vars, wsVars, PauseInv
  <2> QED BY Zenon, <2>1, <2>2, <2>3, <2>4, <2>5 DEF Next
<1>3. PauseInv => PauseIsOfThisEpoch
  BY Zenon DEF PauseInv, PauseIsOfThisEpoch, IsPaused
<1> QED BY <1>1, <1>2, <1>3, PTL DEF Spec

-----------------------------------------------------------------------------
(* Which verdict a request is answered with.                               *)

\* Only a request that is over has an answer.  A verdict being committed is
\* about requests whose hold it has popped, and two handlers never commit
\* verdicts about the same request.
Unanswered == \A r \in Reqs : req[r].step \notin Over => req[r].ans = "none"

Committing ==
  \A d \in Deciders : srv[d] = "resolve" =>
    /\ held[d].said \in Verdicts /\ held[d].lasts \in Lasts
    /\ \A r \in held[d].of : req[r].step = "settle"

OneCommits ==
  \A d, e \in Deciders :
    (d # e /\ srv[d] = "resolve" /\ srv[e] = "resolve") =>
      \A r \in held[d].of : r \notin held[e].of

AnswerInv == Unanswered /\ Committing /\ OneCommits

\* Nobody starts to commit, what is being committed stays, and a request that
\* moves is over or has no answer.
LEMMA AnswerFrame ==
  ASSUME AnswerInv,
         \A d \in Deciders : srv'[d] = "resolve" => srv[d] = "resolve" /\ held'[d] = held[d],
         \A d \in Deciders : srv'[d] = "resolve" => \A r \in held[d].of : req'[r] = req[r],
         \A r \in Reqs : req'[r] = req[r] \/ req'[r].step \in Over \/ req'[r].ans = "none"
  PROVE  AnswerInv'
<1>1. Unanswered'
  BY Zenon DEF AnswerInv, Unanswered
<1>2. Committing'
  <2> SUFFICES ASSUME NEW d \in Deciders, srv'[d] = "resolve"
               PROVE  /\ held'[d].said \in Verdicts /\ held'[d].lasts \in Lasts
                      /\ \A r \in held'[d].of : req'[r].step = "settle"
    BY Zenon DEF Committing
  <2>1. srv[d] = "resolve" /\ held'[d] = held[d] /\ \A r \in held[d].of : req'[r] = req[r]
    BY Zenon
  <2>2. /\ held[d].said \in Verdicts /\ held[d].lasts \in Lasts
        /\ \A r \in held[d].of : req[r].step = "settle"
    BY Zenon, <2>1 DEF AnswerInv, Committing
  <2> QED BY Zenon, <2>1, <2>2
<1>3. OneCommits'
  BY Zenon DEF AnswerInv, OneCommits
<1> QED BY Zenon, <1>1, <1>2, <1>3 DEF AnswerInv

\* A request on its own way moves, and it is not one being committed.
LEMMA ReqMoves ==
  ASSUME DOMAIN req = Reqs, Unanswered, NEW r \in Reqs, ReqStep(r)
  PROVE  /\ req[r].step # "settle"
         /\ UNCHANGED <<srv, held>>
         /\ \A p \in Reqs \ {r} : req'[p] = req[p]
         /\ req'[r].step \in Over \/ req'[r].ans = "none"
<1>1. UNCHANGED <<srv, held>>
  BY Zenon DEF ReqStep, Hold, AllowModeVerdict, StaticDenialVerdict, PausedVerdict,
     HoldCreates, HoldRefused, RegisterHold, TimesOut, FailClose, ExpireStranded, deskVars
<1>2. req[r].step # "settle"
  BY Zenon DEF ReqStep, Hold, AllowModeVerdict, StaticDenialVerdict, PausedVerdict,
     HoldCreates, HoldRefused, RegisterHold, TimesOut, FailClose, ExpireStranded
<1>3. \/ \E ans : Answer(r, ans)
      \/ \E step : Goto(r, step) /\ req[r].step \notin Over
      \/ Goto(r, "done")
  <2>1. CASE Hold(r)
    BY Zenon, <2>1 DEF Hold, Over
  <2>2. CASE AllowModeVerdict(r) \/ StaticDenialVerdict(r) \/ HoldRefused(r) \/ FailClose(r)
    BY Zenon, <2>2 DEF AllowModeVerdict, StaticDenialVerdict, HoldRefused, FailClose
  <2>3. CASE PausedVerdict(r)
    BY Zenon, <2>3 DEF PausedVerdict
  <2>4. CASE HoldCreates(r)
    BY Zenon, <2>4 DEF HoldCreates, Over
  <2>5. CASE RegisterHold(r) \/ TimesOut(r)
    BY Zenon, <2>5 DEF RegisterHold, TimesOut, Over
  <2>6. CASE ExpireStranded(r)
    BY Zenon, <2>6 DEF ExpireStranded
  <2> QED BY Zenon, <2>1, <2>2, <2>3, <2>4, <2>5, <2>6 DEF ReqStep
<1>4. CASE \E ans : Answer(r, ans)
  <2>1. PICK ans : Answer(r, ans)
    BY Zenon, <1>4
  <2>2. req'[r].step = "done" /\ \A p \in Reqs \ {r} : req'[p] = req[p]
    BY <2>1 DEF Answer
  <2> QED BY Zenon, <1>1, <1>2, <2>2 DEF Over
<1>5. CASE \E step : Goto(r, step) /\ req[r].step \notin Over
  <2>1. PICK step : Goto(r, step) /\ req[r].step \notin Over
    BY Zenon, <1>5
  <2>2. req'[r].ans = req[r].ans /\ \A p \in Reqs \ {r} : req'[p] = req[p]
    BY <2>1 DEF Goto
  <2>3. req[r].ans = "none"
    BY Zenon, <2>1 DEF Unanswered
  <2> QED BY Zenon, <1>1, <1>2, <2>2, <2>3
<1>6. CASE Goto(r, "done")
  <2>1. req'[r].step = "done" /\ \A p \in Reqs \ {r} : req'[p] = req[p]
    BY <1>6 DEF Goto
  <2> QED BY Zenon, <1>1, <1>2, <2>1 DEF Over
<1> QED BY Zenon, <1>3, <1>4, <1>5, <1>6

\* A verdict starts to be committed.
LEMMA VerdictStarts ==
  ASSUME DeskType, AnswerInv, NEW d \in Deciders, NEW r \in Reqs, NEW v \in Verdicts,
         NEW t \in Lasts, Verdict(d, r, v, t)
  PROVE  AnswerInv'
<1>1. /\ req[r].step = "held" /\ req[r].ans = "none"
      /\ req'[r] = [step |-> "settle", ans |-> req[r].ans]
      /\ \A p \in Reqs \ {r} : req'[p] = req[p]
  <2>1. req[r].step = "held" /\ Goto(r, "settle")
    BY Zenon DEF Verdict
  <2>2. req[r].ans = "none"
    BY Zenon, <2>1 DEF AnswerInv, Unanswered, Over
  <2> QED BY <2>1, <2>2 DEF Goto, DeskType
<1>2. req'[r].step = "settle" /\ req'[r].ans = "none"
  BY <1>1
<1>3. /\ srv'[d] = "resolve"
      /\ held'[d] = [what |-> "verdict", of |-> {r}, said |-> v, lasts |-> t]
      /\ \A e \in Deciders \ {d} : srv'[e] = srv[e] /\ held'[e] = held[e]
  BY Zenon DEF Verdict, DeskType
<1>4. held'[d].of = {r} /\ held'[d].said = v /\ held'[d].lasts = t
  BY <1>3
<1>5. ASSUME NEW e \in Deciders \ {d}, srv[e] = "resolve"
      PROVE  r \notin held[e].of
  BY Zenon, <1>1, <1>5 DEF AnswerInv, Committing
<1>6. Unanswered'
  BY Zenon, <1>1, <1>2 DEF AnswerInv, Unanswered
<1>7. Committing'
  <2> SUFFICES ASSUME NEW e \in Deciders, srv'[e] = "resolve"
               PROVE  /\ held'[e].said \in Verdicts /\ held'[e].lasts \in Lasts
                      /\ \A p \in held'[e].of : req'[p].step = "settle"
    BY Zenon DEF Committing
  <2>1. CASE e = d
    BY Zenon, <1>2, <1>4, <2>1
  <2>2. CASE e # d
    <3>1. srv[e] = "resolve" /\ held'[e] = held[e] /\ r \notin held[e].of /\ held[e].of \subseteq Reqs
      BY Zenon, <1>3, <1>5, <2>2 DEF DeskType
    <3> QED BY Zenon, <1>1, <3>1 DEF AnswerInv, Committing
  <2> QED BY Zenon, <2>1, <2>2
<1>8. OneCommits'
  <2> SUFFICES ASSUME NEW e \in Deciders, NEW g \in Deciders, e # g, srv'[e] = "resolve",
                      srv'[g] = "resolve", NEW p \in held'[e].of
               PROVE  p \notin held'[g].of
    BY Zenon DEF OneCommits
  <2>1. CASE e # d /\ g # d
    <3>1. /\ srv[e] = "resolve" /\ srv[g] = "resolve"
          /\ held'[e] = held[e] /\ held'[g] = held[g]
      BY Zenon, <1>3, <2>1
    <3> QED BY Zenon, <3>1 DEF AnswerInv, OneCommits
  <2>2. CASE e = d
    BY Zenon, <1>3, <1>4, <1>5, <2>2
  <2>3. CASE g = d
    BY Zenon, <1>3, <1>4, <1>5, <2>3
  <2> QED BY Zenon, <2>1, <2>2, <2>3
<1> QED BY Zenon, <1>6, <1>7, <1>8 DEF AnswerInv

\* A verdict has been committed, or could not be.
LEMMA VerdictEnds ==
  ASSUME DeskType, AnswerInv, NEW d \in Deciders, NEW r \in Reqs,
         Resolve(d, r) \/ ResolveFails(d, r)
  PROVE  AnswerInv'
<1>1. /\ srv[d] = "resolve" /\ r \in held[d].of
      /\ srv' = [srv EXCEPT ![d] = "loop"] /\ held' = [held EXCEPT ![d] = Nothing]
  BY Zenon DEF Resolve, ResolveFails
<1>2. srv'[d] = "loop" /\ \A e \in Deciders \ {d} : srv'[e] = srv[e] /\ held'[e] = held[e]
  BY Zenon, <1>1 DEF DeskType
<1>3. req'[r].step \in Over /\ \A p \in Reqs \ {r} : req'[p] = req[p]
  <2>1. \/ req' = [req EXCEPT ![r] = [step |-> "done", ans |-> held[d].said]]
        \/ req' = [req EXCEPT ![r] = [step |-> "stranded", ans |-> "denied"]]
    BY Zenon DEF Resolve, ResolveFails, Answer
  <2> QED BY <2>1 DEF DeskType, Over
<1>4. ASSUME NEW e \in Deciders, srv'[e] = "resolve"
      PROVE  /\ e # d /\ srv[e] = "resolve" /\ held'[e] = held[e]
             /\ \A p \in held[e].of : req'[p] = req[p]
  <2>1. e # d
    BY Zenon, <1>2, <1>4
  <2>2. srv[e] = "resolve" /\ held'[e] = held[e] /\ held[e].of \subseteq Reqs
    BY Zenon, <1>2, <1>4, <2>1 DEF DeskType
  <2>3. r \notin held[e].of
    BY Zenon, <1>1, <2>1, <2>2 DEF AnswerInv, OneCommits
  <2> QED BY Zenon, <1>3, <2>1, <2>2, <2>3
<1> QED BY Zenon, <1>3, <1>4, AnswerFrame

\* Every other step of a decider leaves the requests alone and starts no
\* verdict.
LEMMA OtherHandlers ==
  ASSUME DeskType, NEW d \in Deciders, DeciderStep(d),
         ~ \E r \in Reqs, v \in Verdicts, t \in Chosen : Verdict(d, r, v, t),
         ~ \E r \in Reqs : Resolve(d, r) \/ ResolveFails(d, r)
  PROVE  /\ req' = req /\ past' = past
         /\ \A e \in Deciders : srv'[e] = "resolve" => srv[e] = "resolve" /\ held'[e] = held[e]
<1>1. CASE Handshake(d) \/ PauseChecks(d) \/ PauseStores(d)
  <2>1. /\ req' = req /\ past' = past /\ held' = held
        /\ \E s \in {"checked", "pause", "loop"} : srv' = [srv EXCEPT ![d] = s]
    BY Zenon, <1>1 DEF Handshake, PauseChecks, PauseStores
  <2> QED BY <2>1 DEF DeskType
<1>2. CASE Register(d)
  <2>1. req' = req /\ past' = past /\ held' = held /\ srv' = [srv EXCEPT ![d] = "registered"]
    BY Zenon, <1>2 DEF Register
  <2> QED BY <2>1 DEF DeskType
<1>3. CASE ReplayReads(d)
  <2>1. /\ req' = req /\ past' = past /\ srv' = [srv EXCEPT ![d] = "replay"]
        /\ \E h : held' = [held EXCEPT ![d] = h]
    BY Zenon, <1>3 DEF ReplayReads
  <2> QED BY <2>1 DEF DeskType
<1>4. CASE ReplaySends(d)
  <2>1. /\ req' = req /\ past' = past /\ held' = [held EXCEPT ![d] = Nothing]
        /\ \E s \in {"none", "loop"} : srv' = [srv EXCEPT ![d] = s]
    BY Zenon, <1>4 DEF ReplaySends, Finish
  <2> QED BY <2>1 DEF DeskType
<1>5. CASE Ping(d) \/ Disconnected(d)
  <2>1. /\ req' = req /\ past' = past
        /\ \/ srv' = [srv EXCEPT ![d] = "none"] /\ held' = [held EXCEPT ![d] = Nothing]
           \/ srv' = srv /\ held' = held
    BY Zenon, <1>5 DEF Ping, Disconnected, Finish
  <2> QED BY <2>1 DEF DeskType
<1>6. CASE \/ Unpause(d) \/ ClientApplies(d) \/ Suspends(d) \/ Wakes(d) \/ Breaks(d)
           \/ LeaseLapses(d) \/ Reap(d) \/ Kick(d)
  BY Zenon, <1>6 DEF Unpause, ClientApplies, Suspends, Wakes, Breaks, LeaseLapses, Reap, Kick,
     deskVars
<1> QED BY Zenon, <1>1, <1>2, <1>3, <1>4, <1>5, <1>6 DEF DeciderStep

\* The verdicts and the requests at the start.
LEMMA AnswerInit == Init => AnswerInv
<1> SUFFICES ASSUME Init PROVE AnswerInv
  OBVIOUS
<1>1. \A r \in Reqs : req[r].ans = "none"
  BY DEF Init
<1>2. \A d \in Deciders : srv[d] # "resolve"
  BY DEF Init
<1> QED BY Zenon, <1>1, <1>2 DEF AnswerInv, Unanswered, Committing, OneCommits

\* Every step keeps the answers in order.
LEMMA AnswerKept ==
  ASSUME DeskType, AnswerInv, [Next]_vars
  PROVE  AnswerInv'
<1>1. ASSUME NEW r \in Reqs, ReqStep(r)
      PROVE  AnswerInv'
  <2>1. /\ req[r].step # "settle" /\ UNCHANGED <<srv, held>>
        /\ \A p \in Reqs \ {r} : req'[p] = req[p]
        /\ req'[r].step \in Over \/ req'[r].ans = "none"
    BY Zenon, <1>1, ReqMoves DEF AnswerInv, DeskType
  <2>2. ASSUME NEW d \in Deciders, srv[d] = "resolve", NEW p \in held[d].of
        PROVE  req'[p] = req[p]
    BY Zenon, <2>1, <2>2 DEF AnswerInv, Committing, DeskType
  <2> QED BY Zenon, <2>1, <2>2, AnswerFrame
<1>2. ASSUME NEW d \in Deciders, DeciderStep(d)
      PROVE  AnswerInv'
  <2>1. CASE \E r \in Reqs, v \in Verdicts, t \in Chosen : Verdict(d, r, v, t)
    <3>1. Chosen \subseteq Lasts
      BY DEF Chosen, Lasts
    <3> QED BY Zenon, <2>1, <3>1, VerdictStarts
  <2>2. CASE \E r \in Reqs : Resolve(d, r) \/ ResolveFails(d, r)
    BY Zenon, <2>2, VerdictEnds
  <2>3. CASE /\ ~ \E r \in Reqs, v \in Verdicts, t \in Chosen : Verdict(d, r, v, t)
             /\ ~ \E r \in Reqs : Resolve(d, r) \/ ResolveFails(d, r)
    BY Zenon, <1>2, <2>3, OtherHandlers, AnswerFrame
  <2> QED BY Zenon, <2>1, <2>2, <2>3
<1>3. CASE \/ \E m \in Modes : SwitchMode(m)
           \/ PauseLapses
           \/ \E i \in DOMAIN past : VerdictLapses(i)
           \/ UNCHANGED vars
  <2>1. UNCHANGED <<req, srv, held>>
    BY Zenon, <1>3 DEF SwitchMode, PauseLapses, VerdictLapses, vars, deskVars
  <2> QED BY Zenon, <2>1, AnswerFrame
<1> QED BY Zenon, <1>1, <1>2, <1>3 DEF Next

\* A nonempty set of indices has a greatest one.
LEMMA Greatest ==
  ASSUME WellOrdered, NEW n \in Nat, NEW S \in SUBSET (1 .. n), S # {}
  PROVE  \E i \in S : \A j \in S : j <= i
<1> DEFINE T == {m \in Nat : n - m \in S}
<1>1. \A i \in S : i \in 1 .. n /\ n - i \in Nat /\ n - (n - i) = i
  OBVIOUS
<1>2. \A i \in S : n - i \in T
  BY <1>1
<1>3. PICK m \in T : \A k \in T : m <= k
  <2>1. T \in SUBSET Nat /\ T # {}
    BY Zenon, <1>2
  <2> QED BY Zenon, <2>1 DEF WellOrdered
<1>4. m \in Nat /\ n - m \in S
  OBVIOUS
<1>5. ASSUME NEW j \in S
      PROVE  j <= n - m
  <2>1. m <= n - j
    BY Zenon, <1>2, <1>3
  <2>2. j \in 1 .. n
    BY Zenon, <1>1
  <2> QED BY <1>4, <2>1, <2>2
<1> QED BY Zenon, <1>4, <1>5

\* What a sequence is as a function.
LEMMA SeqFun ==
  ASSUME NEW S, NEW s \in Seq(S)
  PROVE  /\ Len(s) \in Nat /\ DOMAIN s = 1 .. Len(s)
         /\ s \in [1 .. Len(s) -> S] /\ \A i \in DOMAIN s : s[i] \in S
OBVIOUS

PastType == past \in Seq([said : Verdicts, lasts : Lasts])

\* active_verdict_for says "denied" unless a later verdict stands above the
\* denial.
LEMMA ActiveIsNewest ==
  ASSUME WellOrdered, PastType, ActiveVerdict # "denied",
         NEW i \in DOMAIN past, past[i].said = "denied", InEffect(i)
  PROVE  \E j \in DOMAIN past : j > i /\ InEffect(j) /\ past[j].said = "allowed"
<1> DEFINE on == {k \in DOMAIN past : InEffect(k)}
           top == CHOOSE k \in on : \A j \in on : j <= k
<1>1. Len(past) \in Nat /\ DOMAIN past = 1 .. Len(past)
  BY DEF PastType
<1>2. i \in on /\ on \in SUBSET (1 .. Len(past))
  BY Zenon, <1>1
<1>3. ActiveVerdict = past[top].said
  <2>1. on # {}
    BY Zenon, <1>2
  <2> QED BY Zenon, <2>1 DEF ActiveVerdict
<1>4. top \in on /\ \A j \in on : j <= top
  <2>1. \E k \in on : \A j \in on : j <= k
    BY Zenon, <1>1, <1>2, Greatest
  <2> QED BY Zenon, <2>1
<1>5. top \in DOMAIN past /\ InEffect(top)
  BY Zenon, <1>4
<1> HIDE DEF on, top
<1>6. past[top].said = "allowed"
  <2>1. past[top] \in [said : Verdicts, lasts : Lasts]
    BY Zenon, <1>5, SeqFun DEF PastType
  <2>2. past[top].said \in Verdicts
    BY Zenon, <2>1
  <2> QED BY Zenon, <1>3, <2>2 DEF Verdicts
<1>7. i <= top /\ i # top
  BY Zenon, <1>2, <1>3, <1>4
<1>8. top > i
  BY <1>1, <1>5, <1>7
<1> QED BY Zenon, <1>5, <1>6, <1>8

\* Nothing but the gate of the pause lets a paused request through.
LEMMA OnlyThePause ==
  ASSUME DeskType, AnswerInv, Next, NEW r \in Reqs, req[r].step = "paused",
         req'[r].ans = "allowed"
  PROVE  PausedVerdict(r)
<1>1. req'[r] # req[r]
  BY Zenon DEF AnswerInv, Unanswered, Over
<1>2. ASSUME NEW p \in Reqs, ReqStep(p)
      PROVE  PausedVerdict(r)
  <2>1. p = r
    BY Zenon, <1>1, <1>2, ReqMoves DEF AnswerInv, DeskType
  <2> QED BY Zenon, <1>2, <2>1 DEF ReqStep, Hold, AllowModeVerdict, StaticDenialVerdict,
         HoldCreates, HoldRefused, RegisterHold, TimesOut, FailClose, ExpireStranded
<1>3. ASSUME NEW d \in Deciders, DeciderStep(d)
      PROVE  FALSE
  <2>1. ASSUME NEW p \in Reqs, NEW v, NEW t, Verdict(d, p, v, t)
        PROVE  FALSE
    <3>1. req[p].step = "held" /\ Goto(p, "settle")
      BY Zenon, <2>1 DEF Verdict
    <3>2. p # r
      BY Zenon, <3>1
    <3> QED BY <1>1, <3>1, <3>2 DEF Goto, DeskType
  <2>2. ASSUME NEW p \in Reqs, Resolve(d, p) \/ ResolveFails(d, p)
        PROVE  FALSE
    <3>1. /\ srv[d] = "resolve" /\ p \in held[d].of
          /\ \E v : req' = [req EXCEPT ![p] = v]
      BY Zenon, <2>2 DEF Resolve, ResolveFails, Answer
    <3>2. req[p].step = "settle"
      BY Zenon, <3>1 DEF AnswerInv, Committing
    <3>3. p # r
      BY Zenon, <3>2
    <3> QED BY <1>1, <3>1, <3>3 DEF DeskType
  <2>3. CASE /\ ~ \E p \in Reqs, v \in Verdicts, t \in Chosen : Verdict(d, p, v, t)
             /\ ~ \E p \in Reqs : Resolve(d, p) \/ ResolveFails(d, p)
    BY Zenon, <1>1, <1>3, <2>3, OtherHandlers
  <2> QED BY Zenon, <2>1, <2>2, <2>3
<1>4. CASE \/ \E m \in Modes : SwitchMode(m)
           \/ PauseLapses
           \/ \E i \in DOMAIN past : VerdictLapses(i)
  BY Zenon, <1>1, <1>4 DEF SwitchMode, PauseLapses, VerdictLapses
<1> QED BY Zenon, <1>2, <1>3, <1>4 DEF Next

\* The verdicts of the destination stay verdicts.
LEMMA PastKept ==
  ASSUME DeskType, AnswerInv, PastType, [Next]_vars
  PROVE  PastType'
<1>1. CASE past' = past
  BY Zenon, <1>1 DEF PastType
<1>2. ASSUME NEW d \in Deciders, NEW r \in Reqs, Resolve(d, r)
      PROVE  PastType'
  <2>1. /\ past' = Append(past, [said |-> held[d].said, lasts |-> held[d].lasts])
        /\ held[d].said \in Verdicts /\ held[d].lasts \in Lasts
    BY Zenon, <1>2 DEF Resolve, AnswerInv, Committing
  <2> QED BY <2>1 DEF PastType
<1>3. ASSUME NEW i \in DOMAIN past, VerdictLapses(i)
      PROVE  PastType'
  <2>1. /\ Len(past) \in Nat /\ DOMAIN past = 1 .. Len(past)
        /\ past \in [1 .. Len(past) -> [said : Verdicts, lasts : Lasts]]
    BY Zenon, SeqFun DEF PastType
  <2>2. past' = [past EXCEPT ![i] = [past[i] EXCEPT !.lasts = "over"]]
    BY Zenon, <1>3 DEF VerdictLapses
  <2>3. [past[i] EXCEPT !.lasts = "over"] \in [said : Verdicts, lasts : Lasts]
    BY <2>1 DEF Lasts
  <2>4. past' \in [1 .. Len(past) -> [said : Verdicts, lasts : Lasts]]
    BY Zenon, <2>1, <2>2, <2>3
  <2> QED BY <2>1, <2>4 DEF PastType
<1>4. ASSUME NEW r \in Reqs, ReqStep(r)
      PROVE  past' = past
  BY Zenon, <1>4 DEF ReqStep, Hold, AllowModeVerdict, StaticDenialVerdict, PausedVerdict,
     HoldCreates, HoldRefused, RegisterHold, TimesOut, FailClose, ExpireStranded
<1>5. ASSUME NEW d \in Deciders, DeciderStep(d), ~ \E r \in Reqs : Resolve(d, r)
      PROVE  past' = past
  BY Zenon, <1>5, OtherHandlers DEF Verdict, ResolveFails
<1>6. CASE (\E m \in Modes : SwitchMode(m)) \/ PauseLapses \/ UNCHANGED vars
  <2>1. past' = past
    BY Zenon, <1>6 DEF SwitchMode, PauseLapses, vars
  <2> QED BY Zenon, <1>1, <2>1
<1> QED BY Zenon, <1>1, <1>2, <1>3, <1>4, <1>5, <1>6 DEF Next

-----------------------------------------------------------------------------
(* Types, and the bound on the queues.                                     *)

WsType ==
  /\ may \in Scenarios /\ mode \in Modes
  /\ pause \in BOOLEAN /\ since \in BOOLEAN

ReqType == req \in [Reqs -> [step : Steps, ans : Answers]]

Sockets == {"none", "checked", "registered", "replay", "loop", "resolve", "pause"}

SocketType ==
  /\ client \in [Deciders -> {"off", "on", "silent"}]
  /\ srv \in [Deciders -> Sockets]
  /\ fresh \subseteq Deciders /\ lost \subseteq Deciders

QueueBound == \A d \in Deciders : Len(queue[d]) <= QueueSize

TypeInv == WsType /\ PastType /\ ReqType /\ SocketType /\ QueueBound

\* The workspace.
LEMMA WsKept ==
  ASSUME WsType, [Next]_vars
  PROVE  WsType'
<1>1. ASSUME NEW r \in Reqs, ReqStep(r)
      PROVE  UNCHANGED wsVars
  BY Zenon, <1>1 DEF ReqStep, Hold, AllowModeVerdict, StaticDenialVerdict, PausedVerdict,
     HoldCreates, HoldRefused, RegisterHold, TimesOut, FailClose, ExpireStranded
<1>2. ASSUME NEW d \in Deciders, DeciderStep(d), ~ PauseStores(d), ~ Unpause(d)
      PROVE  UNCHANGED wsVars
  BY Zenon, <1>2 DEF DeciderStep, Handshake, Register, ReplayReads, ReplaySends, Ping,
     PauseChecks, Verdict, Resolve, ResolveFails, ClientApplies, Suspends, Wakes,
     Breaks, Disconnected, LeaseLapses, Reap, Kick
<1>3. ASSUME NEW d \in Deciders, PauseStores(d) \/ Unpause(d)
      PROVE  WsType'
  BY Zenon, <1>3 DEF PauseStores, Unpause, WsType
<1>4. ASSUME NEW m \in Modes, SwitchMode(m)
      PROVE  WsType'
  BY <1>4 DEF SwitchMode, PauseAfterSwitch, WsType
<1>5. CASE PauseLapses
  BY Zenon, <1>5 DEF PauseLapses, WsType
<1>6. CASE UNCHANGED wsVars
  BY Zenon, <1>6 DEF wsVars, WsType
<1>7. CASE (\E i \in DOMAIN past : VerdictLapses(i)) \/ UNCHANGED vars
  BY Zenon, <1>6, <1>7 DEF VerdictLapses, vars
<1> QED BY Zenon, <1>1, <1>2, <1>3, <1>4, <1>5, <1>6, <1>7 DEF Next

\* A request that moves to a step, or gets an answer, keeps its type.
LEMMA MovesTyped ==
  ASSUME ReqType, NEW r \in Reqs,
         \/ \E step \in Steps : Goto(r, step)
         \/ \E ans \in Answers : Answer(r, ans)
         \/ req' = [req EXCEPT ![r] = [step |-> "stranded", ans |-> "denied"]]
  PROVE  ReqType'
<1>1. req[r].ans \in Answers
  BY Zenon DEF ReqType
<1>2. PICK v \in [step : Steps, ans : Answers] : req' = [req EXCEPT ![r] = v]
  <2>1. ASSUME NEW step \in Steps, Goto(r, step)
        PROVE  \E v \in [step : Steps, ans : Answers] : req' = [req EXCEPT ![r] = v]
    BY Zenon, <1>1, <2>1 DEF Goto
  <2>2. ASSUME NEW ans \in Answers, Answer(r, ans)
        PROVE  \E v \in [step : Steps, ans : Answers] : req' = [req EXCEPT ![r] = v]
    BY Zenon, <2>2 DEF Answer, Steps
  <2>3. "stranded" \in Steps /\ "denied" \in Answers
    BY Zenon DEF Steps, Answers
  <2> QED BY Zenon, <2>1, <2>2, <2>3
<1> QED BY Zenon, <1>2 DEF ReqType

\* The requests.
LEMMA ReqTypeKept ==
  ASSUME DeskType, AnswerInv, ReqType, [Next]_vars
  PROVE  ReqType'
<1>1. ASSUME NEW r \in Reqs, ReqStep(r)
      PROVE  (\E step \in Steps : Goto(r, step)) \/ (\E ans \in Answers : Answer(r, ans))
  <2>1. CASE Hold(r)
    BY Zenon, <2>1 DEF Hold, Steps
  <2>2. CASE AllowModeVerdict(r) \/ StaticDenialVerdict(r) \/ HoldRefused(r) \/ FailClose(r)
    BY Zenon, <2>2 DEF AllowModeVerdict, StaticDenialVerdict, HoldRefused, FailClose, Answers
  <2>3. CASE PausedVerdict(r)
    BY Zenon, <2>3 DEF PausedVerdict, Answers
  <2>4. CASE HoldCreates(r)
    BY Zenon, <2>4 DEF HoldCreates, Steps, Answers
  <2>5. CASE RegisterHold(r) \/ TimesOut(r) \/ ExpireStranded(r)
    BY Zenon, <2>5 DEF RegisterHold, TimesOut, ExpireStranded, Steps
  <2> QED BY Zenon, <1>1, <2>1, <2>2, <2>3, <2>4, <2>5 DEF ReqStep
<1>2. ASSUME NEW d \in Deciders, DeciderStep(d)
      PROVE  ReqType'
  <2>1. ASSUME NEW r \in Reqs, NEW v, NEW t, Verdict(d, r, v, t)
        PROVE  ReqType'
    <3>1. Goto(r, "settle") /\ "settle" \in Steps
      BY Zenon, <2>1 DEF Verdict, Steps
    <3> QED BY Zenon, <3>1, MovesTyped
  <2>2. ASSUME NEW r \in Reqs, Resolve(d, r)
        PROVE  ReqType'
    <3>1. srv[d] = "resolve" /\ Answer(r, held[d].said)
      BY Zenon, <2>2 DEF Resolve
    <3>2. held[d].said \in Answers
      BY Zenon, <3>1 DEF AnswerInv, Committing, Verdicts, Answers
    <3> QED BY Zenon, <3>1, <3>2, MovesTyped
  <2>3. ASSUME NEW r \in Reqs, ResolveFails(d, r)
        PROVE  ReqType'
    BY Zenon, <2>3, MovesTyped DEF ResolveFails
  <2>4. CASE req' = req
    BY Zenon, <2>4 DEF ReqType
  <2> QED BY Zenon, <1>2, <2>1, <2>2, <2>3, <2>4, OtherHandlers
<1>3. CASE \/ \E m \in Modes : SwitchMode(m)
           \/ PauseLapses
           \/ \E i \in DOMAIN past : VerdictLapses(i)
           \/ UNCHANGED vars
  <2>1. req' = req
    BY Zenon, <1>3 DEF SwitchMode, PauseLapses, VerdictLapses, vars
  <2> QED BY Zenon, <2>1 DEF ReqType
<1> QED BY Zenon, <1>1, <1>2, <1>3, MovesTyped DEF Next

\* The sockets and their leases.
LEMMA SocketKept ==
  ASSUME SocketType, reg \subseteq Deciders, [Next]_vars
  PROVE  SocketType'
<1>1. ASSUME NEW r \in Reqs, ReqStep(r)
      PROVE  UNCHANGED <<client, srv, fresh, lost>>
  BY Zenon, <1>1 DEF ReqStep, Hold, AllowModeVerdict, StaticDenialVerdict, PausedVerdict,
     HoldCreates, HoldRefused, RegisterHold, TimesOut, FailClose, ExpireStranded, deskVars
<1>2. CASE UNCHANGED <<client, srv, fresh, lost>>
  BY Zenon, <1>2 DEF SocketType
<1>3. ASSUME NEW d \in Deciders, DeciderStep(d)
      PROVE  SocketType'
  <2> USE DEF SocketType
  <2>1. CASE Finish(d)
    BY Zenon, <2>1 DEF Finish, Sockets
  <2>2. CASE Handshake(d) \/ PauseChecks(d) \/ PauseStores(d)
    BY Zenon, <2>2 DEF Handshake, PauseChecks, PauseStores, Sockets
  <2>3. CASE Register(d)
    BY Zenon, <2>3 DEF Register, Sockets
  <2>4. CASE ReplayReads(d)
    BY Zenon, <2>4 DEF ReplayReads, Sockets
  <2>5. CASE ReplaySends(d)
    BY Zenon, <2>1, <2>5 DEF ReplaySends, Sockets
  <2>6. CASE Ping(d) \/ Disconnected(d)
    BY Zenon, <2>1, <2>6 DEF Ping, Disconnected
  <2>7. CASE \E r \in Reqs, v \in Verdicts, t \in Chosen : Verdict(d, r, v, t)
    BY Zenon, <2>7 DEF Verdict, Sockets
  <2>8. CASE \E r \in Reqs : Resolve(d, r) \/ ResolveFails(d, r)
    BY Zenon, <2>8 DEF Resolve, ResolveFails, Sockets
  <2>9. CASE Suspends(d) \/ Wakes(d) \/ Breaks(d) \/ Kick(d)
    BY Zenon, <2>9 DEF Suspends, Wakes, Breaks, Kick
  <2>10. CASE LeaseLapses(d)
    BY Zenon, <2>10 DEF LeaseLapses
  <2>11. CASE Unpause(d) \/ ClientApplies(d) \/ Reap(d)
    BY Zenon, <1>2, <2>11 DEF Unpause, ClientApplies, Reap, deskVars
  <2> QED BY Zenon, <1>3, <2>1, <2>2, <2>3, <2>4, <2>5, <2>6, <2>7, <2>8, <2>9, <2>10, <2>11
          DEF DeciderStep
<1>4. CASE \/ \E m \in Modes : SwitchMode(m)
           \/ PauseLapses
           \/ \E i \in DOMAIN past : VerdictLapses(i)
           \/ UNCHANGED vars
  <2>1. UNCHANGED <<client, srv, fresh, lost>>
    BY Zenon, <1>4 DEF SwitchMode, PauseLapses, VerdictLapses, vars, deskVars
  <2> QED BY Zenon, <1>2, <2>1
<1> QED BY Zenon, <1>1, <1>2, <1>3, <1>4 DEF Next

\* broadcast appends to a queue that is not full.
LEMMA BroadcastFits ==
  ASSUME queue \in [Deciders -> Seq(Wire)], QueueBound, NEW f, Broadcast(f)
  PROVE  QueueBound'
<1> SUFFICES ASSUME NEW d \in Deciders
             PROVE  Len(queue'[d]) <= QueueSize
  BY Zenon DEF QueueBound
<1>1. QueueSize \in Nat /\ queue[d] \in Seq(Wire) /\ Len(queue[d]) <= QueueSize
  BY Zenon, DeskAssumption DEF QueueBound
<1>2. \/ queue'[d] = queue[d]
      \/ queue'[d] = Append(queue[d], f) /\ ~ Full(d)
  BY Zenon DEF Broadcast
<1>3. CASE queue'[d] = Append(queue[d], f) /\ ~ Full(d)
  <2>1. Len(queue[d]) \in Nat /\ Len(Append(queue[d], f)) = Len(queue[d]) + 1
    BY <1>1
  <2> QED BY <1>1, <1>3, <2>1 DEF Full
<1> QED BY Zenon, <1>1, <1>2, <1>3

\* A replay is sent only when it fits.
LEMMA ReplayFits ==
  ASSUME DeskType, QueueBound, NEW d \in Deciders, ReplaySends(d)
  PROVE  Len(queue'[d]) <= QueueSize /\ \A e \in Deciders \ {d} : queue'[e] = queue[e]
<1>1. QueueSize \in Nat /\ queue[d] \in Seq(Wire)
  BY Zenon, DeskAssumption DEF DeskType
<1>2. CASE Finish(d)
  <2>1. queue' = [queue EXCEPT ![d] = <<>>]
    BY Zenon, <1>2 DEF Finish
  <2>2. queue'[d] = <<>> /\ \A e \in Deciders \ {d} : queue'[e] = queue[e]
    BY Zenon, <2>1 DEF DeskType
  <2>3. Len(queue'[d]) = 0
    BY <2>2
  <2> QED BY <1>1, <2>2, <2>3
<1>3. CASE ~ Finish(d)
  <2>1. PICK frames \in ReplayFrames(d) :
          /\ queue' = [queue EXCEPT ![d] = @ \o frames]
          /\ Len(queue[d]) + Cardinality(Replay(d)) <= QueueSize
    BY Zenon, <1>3 DEF ReplaySends
  <2>2. queue'[d] = queue[d] \o frames /\ \A e \in Deciders \ {d} : queue'[e] = queue[e]
    BY Zenon, <2>1 DEF DeskType
  <2>3. frames \in Seq(Wire) /\ Len(frames) = Cardinality(Replay(d))
    BY Zenon, Frames DEF ReplayFrames
  <2>4. Len(queue[d] \o frames) = Len(queue[d]) + Len(frames)
    BY <1>1, <2>3
  <2>5. Len(queue[d]) + Len(frames) <= QueueSize
    BY Zenon, <2>1, <2>3
  <2> QED BY Zenon, <2>2, <2>4, <2>5
<1> QED BY Zenon, <1>2, <1>3

\* The queues.
LEMMA QueueBoundKept ==
  ASSUME DeskType, QueueBound, [Next]_vars
  PROVE  QueueBound'
<1>1. CASE UNCHANGED queue
  BY Zenon, <1>1 DEF QueueBound
<1>2. CASE \E f : Broadcast(f)
  BY Zenon, <1>2, BroadcastFits DEF DeskType
<1>3. ASSUME NEW r \in Reqs, ReqStep(r)
      PROVE  UNCHANGED queue \/ \E f : Broadcast(f)
  BY Zenon, <1>3 DEF ReqStep, Hold, AllowModeVerdict, StaticDenialVerdict, PausedVerdict,
     HoldCreates, HoldRefused, RegisterHold, TimesOut, FailClose, ExpireStranded, deskVars
<1>4. ASSUME NEW d \in Deciders, Finish(d) \/ ReplaySends(d) \/ ClientApplies(d)
      PROVE  QueueBound'
  <2>1. QueueSize \in Nat /\ queue[d] \in Seq(Wire) /\ Len(queue[d]) <= QueueSize
    BY Zenon, DeskAssumption DEF DeskType, QueueBound
  <2>2. CASE Finish(d)
    <3>1. queue'[d] = <<>> /\ \A e \in Deciders \ {d} : queue'[e] = queue[e]
      BY Zenon, <2>2 DEF Finish, DeskType
    <3>2. Len(queue'[d]) <= QueueSize
      BY <2>1, <3>1
    <3> QED BY Zenon, <3>1, <3>2 DEF QueueBound
  <2>3. CASE ReplaySends(d)
    BY Zenon, <2>3, ReplayFits DEF QueueBound
  <2>4. CASE ClientApplies(d)
    <3>1. /\ queue[d] # <<>> /\ queue'[d] = Tail(queue[d])
          /\ \A e \in Deciders \ {d} : queue'[e] = queue[e]
      BY Zenon, <2>4 DEF ClientApplies, DeskType
    <3>2. Len(Tail(queue[d])) = Len(queue[d]) - 1 /\ Len(queue[d]) \in Nat
      BY <2>1, <3>1
    <3>3. Len(queue'[d]) <= QueueSize
      BY <2>1, <3>1, <3>2
    <3> QED BY Zenon, <3>1, <3>3 DEF QueueBound
  <2> QED BY Zenon, <1>4, <2>2, <2>3, <2>4
<1>5. ASSUME NEW d \in Deciders, DeciderStep(d)
      PROVE  \/ UNCHANGED queue \/ \E f : Broadcast(f)
             \/ Finish(d) \/ ReplaySends(d) \/ ClientApplies(d)
  BY Zenon, <1>5 DEF DeciderStep, Handshake, Register, ReplayReads, Ping, PauseChecks,
     PauseStores, Unpause, Verdict, Resolve, ResolveFails, Suspends, Wakes, Breaks,
     Disconnected, LeaseLapses, Reap, Kick, deskVars
<1>6. CASE \/ \E m \in Modes : SwitchMode(m)
           \/ PauseLapses
           \/ \E i \in DOMAIN past : VerdictLapses(i)
           \/ UNCHANGED vars
  <2>1. UNCHANGED queue
    BY Zenon, <1>6 DEF SwitchMode, PauseLapses, VerdictLapses, vars, deskVars
  <2> QED BY Zenon, <1>1, <2>1
<1> QED BY Zenon, <1>1, <1>2, <1>3, <1>4, <1>5, <1>6 DEF Next

\* The types at the start.
LEMMA TypeInit == Init => TypeInv
<1> SUFFICES ASSUME Init PROVE TypeInv
  OBVIOUS
<1>1. WsType
  BY Zenon DEF Init, WsType, Modes
<1>2. PastType
  <2>1. past \in Pasts \/ past = <<>>
    BY Zenon DEF Init
  <2>2. <<>> \in Seq([said : Verdicts, lasts : Lasts])
    OBVIOUS
  <2> QED BY Zenon, <2>1, <2>2, DeskAssumption DEF PastType
<1>3. ReqType
  <2>1. "idle" \in Steps /\ "none" \in Answers
    BY Zenon DEF Steps, Answers
  <2> QED BY Zenon, <2>1 DEF Init, ReqType
<1>4. SocketType
  BY Zenon DEF Init, SocketType, Sockets
<1>5. QueueBound
  <2>1. QueueSize \in Nat
    BY Zenon, DeskAssumption
  <2>2. \A d \in Deciders : queue[d] = <<>>
    BY Zenon DEF Init
  <2> QED BY <2>1, <2>2 DEF QueueBound
<1> QED BY Zenon, <1>1, <1>2, <1>3, <1>4, <1>5 DEF TypeInv

-----------------------------------------------------------------------------
DeciderInv == DeskInv /\ AnswerInv /\ TypeInv

\* Every step keeps the three together.
LEMMA DeciderKept ==
  ASSUME DeciderInv, [Next]_vars
  PROVE  DeciderInv'
<1>1. DeskInv /\ AnswerInv /\ TypeInv /\ DeskType
  BY Zenon DEF DeciderInv, DeskInv
<1>2. DeskInv'
  BY Zenon, <1>1, DeskInvKept
<1>3. AnswerInv'
  BY Zenon, <1>1, AnswerKept
<1>4. TypeInv'
  BY Zenon, <1>1, WsKept, PastKept, ReqTypeKept, SocketKept, QueueBoundKept DEF TypeInv, DeskType
<1> QED BY Zenon, <1>2, <1>3, <1>4 DEF DeciderInv

INSTANCE WellFoundedInduction

\* Every nonempty set of naturals has a least element.
LEMMA NatWellOrdered == WellOrdered
<1> SUFFICES ASSUME NEW T \in SUBSET Nat, T # {}
             PROVE  \E n \in T : \A m \in T : n <= m
  BY Zenon DEF WellOrdered
<1>1. PICK x \in T : \A y \in T : ~(<<y, x>> \in OpToRel(<, Nat))
  BY Zenon, WFMin, NatLessThanWellFounded
<1>2. \A y \in T : ~(y < x)
  BY Zenon, <1>1 DEF OpToRel
<1> QED BY SMTT(30), <1>2

\* Every reachable state satisfies the invariant.
THEOREM Invariance == Spec => []DeciderInv
<1>1. Init => DeciderInv
  BY Zenon, DeskInvInit, AnswerInit, TypeInit DEF DeciderInv
<1>2. DeciderInv /\ [Next]_vars => DeciderInv'
  BY Zenon, DeciderKept
<1> QED BY <1>1, <1>2, PTL DEF Spec

\* Every variable keeps its type, and neither a broadcast nor a replay takes a
\* send queue past SEND_QUEUE_SIZE.
THEOREM TypeCorrect == Spec => []TypeOK
<1>1. DeciderInv => TypeOK
  <2> SUFFICES ASSUME DeciderInv PROVE TypeOK
    OBVIOUS
  <2>1. DeskType /\ WsType /\ PastType /\ ReqType /\ SocketType /\ QueueBound
    BY Zenon DEF DeciderInv, DeskInv, TypeInv
  <2>2. ASSUME NEW d \in Deciders, NEW i \in DOMAIN queue[d]
        PROVE  queue[d][i].req \in Reqs
    <3>1. queue[d][i] \in Wire
      BY Zenon, <2>1, SeqFun DEF DeskType
    <3> QED BY Zenon, <3>1 DEF Wire
  <2> QED BY Zenon, <2>1, <2>2
          DEF TypeOK, DeskType, WsType, PastType, ReqType, SocketType, Sockets, QueueBound
<1> QED BY <1>1, Invariance, PTL

\* The pause keeps blocking what was denied: whoever decides meanwhile, and
\* whatever lapses, a paused request goes through only if no denial stands or a
\* later verdict that stands allows it.
THEOREM PauseLiftsNoDenial == Spec => PauseKeepsDenials
<1>1. ASSUME DeciderInv, [Next]_vars, NEW r \in Reqs, req[r].step = "paused",
             req'[r].ans = "allowed", NEW i \in DOMAIN past, past[i].said = "denied", InEffect(i)
      PROVE  \E j \in DOMAIN past : j > i /\ InEffect(j) /\ past[j].said = "allowed"
  <2>1. DeskType /\ AnswerInv /\ PastType
    BY Zenon, <1>1 DEF DeciderInv, DeskInv, TypeInv
  <2>2. CASE UNCHANGED vars
    <3>1. req[r].ans = "none"
      BY Zenon, <1>1, <2>1 DEF AnswerInv, Unanswered, Over
    <3> QED BY Zenon, <1>1, <2>2, <3>1 DEF vars
  <2>3. CASE Next
    <3>1. PausedVerdict(r)
      BY Zenon, <1>1, <2>1, <2>3, OnlyThePause
    <3>2. req'[r].ans = IF ActiveVerdict = "denied" THEN "denied" ELSE "allowed"
      BY Zenon, <2>1, <3>1 DEF PausedVerdict, Answer, DeskType
    <3>3. ActiveVerdict # "denied"
      BY Zenon, <1>1, <3>2
    <3> QED BY Zenon, <1>1, <2>1, <3>3, ActiveIsNewest, NatWellOrdered
  <2> QED BY Zenon, <1>1, <2>2, <2>3
<1>2. DeciderInv /\ [Next]_vars =>
        [\A r \in Reqs :
           (req[r].step = "paused" /\ req'[r].ans = "allowed") =>
             \A i \in DOMAIN past :
               (past[i].said = "denied" /\ InEffect(i)) =>
                 \E j \in DOMAIN past : j > i /\ InEffect(j) /\ past[j].said = "allowed"]_vars
  BY Zenon, <1>1
<1> QED BY <1>2, Invariance, PTL DEF Spec, PauseKeepsDenials
=============================================================================
