------------------------- MODULE AuthSessionsProofs -------------------------
(***************************************************************************)
(* For any number of requests, sockets and tokens, and any limit: every    *)
(* safety property of AuthSessions.                                        *)
(*                                                                         *)
(* A revocation finds every socket registered before it.  SocketsFollow is *)
(* not inductive by itself.  A refresh that fails because its user was     *)
(* deleted gives up the sockets it was to move, and only the deletion's    *)
(* own cut still reaches them; and a logout cuts the right sockets only    *)
(* because it has no list of sessions to work through.  FollowInv says     *)
(* both.                                                                   *)
(*                                                                         *)
(* A live token has its row.  TableInv says what a request knows at each   *)
(* of its steps, above all that the rows it is going to delete belong to   *)
(* tokens it has blocklisted or will have blocklisted by then; RowInv      *)
(* speaks of every token ever minted, not only of those a client holds.    *)
(*                                                                         *)
(* The cap holds.  Requests that interleave take their victims from lists  *)
(* of different ages, and none of them alone need remove enough.  CapInv   *)
(* says that one of them does, or that one has still to enforce the cap.   *)
(***************************************************************************)
EXTENDS AuthSessions, SeqFilterProofs, TLAPS

\* The steps in which a request still has sockets to cut or to move.
Reaching == {"unrow", "replace", "retarget", "kick", "kick2", "cut", "cut2"}

UserCut(p, s) ==
  req[p].step = "cut" \/ (req[p].step = "cut2" /\ s \in Deciders)

Followed(s) ==
  Open(s) =>
    /\ sock[s].jti \in black => \E p \in Requests : WillReach(p, s)
    /\ account # "active" => \E p \in Requests : UserCut(p, s)

Shape ==
  /\ DOMAIN req = Requests
  /\ DOMAIN sock = AllSockets

\* The single session a request revokes is the one of its token.
OneByOne ==
  \A p \in Requests :
    req[p].step \in {"check", "revoke", "unrow"} => req[p].todo = <<>>

FollowInv ==
  /\ Shape
  /\ OneByOne
  /\ \A s \in AllSockets \ late : Followed(s)

-----------------------------------------------------------------------------
(* What a request's move does to the other requests and to itself.         *)

OthersStay(p) ==
  /\ DOMAIN req' = Requests
  /\ \A q \in Requests : q # p => req'[q] = req[q]

\* A request that moves on leaves the others alone.
LEMMA MovesOne ==
  ASSUME Shape, NEW p \in Requests, NEW step, NEW new, NEW todo, NEW gone,
         Moves(p, step, new, todo, gone)
  PROVE  /\ OthersStay(p)
         /\ req'[p].step = step /\ req'[p].todo = todo /\ req'[p].tok = req[p].tok
BY Zenon DEF Shape, Moves, OthersStay

\* A request that begins leaves the others alone, and has no list yet.
LEMMA BeginsOne ==
  ASSUME Shape, NEW p \in Requests, NEW op, NEW step, NEW t,
         Begins(p, op, step, t)
  PROVE  /\ OthersStay(p)
         /\ req[p].step = "none"
         /\ req'[p].step = step /\ req'[p].todo = <<>>
BY Zenon DEF Shape, Begins, OthersStay

\* A request that ends leaves the others alone.
LEMMA EndsOne ==
  ASSUME Shape, NEW p \in Requests, Ends(p)
  PROVE  /\ OthersStay(p)
         /\ req'[p].step = "none"
BY Zenon DEF Shape, Ends, OthersStay, NoReq

\* Another request still reaches the socket it was going to reach.
LEMMA StillReached ==
  ASSUME NEW p \in Requests, OthersStay(p), NEW q \in Requests, q # p,
         NEW s \in AllSockets, sock'[s] = sock[s]
  PROVE  /\ WillReach(q, s) => WillReach(q, s)'
         /\ UserCut(q, s) => UserCut(q, s)'
BY Zenon DEF OthersStay, WillReach, UserCut, Cutting

\* A request that cuts the user's sockets is one that will reach them.
LEMMA CutReaches ==
  ASSUME NEW p \in Requests, NEW s \in AllSockets, UserCut(p, s)
  PROVE  WillReach(p, s)
BY Zenon DEF UserCut, WillReach

\* The list of a request stays empty where it must be.
LEMMA StaysOneByOne ==
  ASSUME OneByOne, NEW p \in Requests, OthersStay(p),
         req'[p].step \in {"check", "revoke", "unrow"} => req'[p].todo = <<>>
  PROVE  OneByOne'
BY Zenon DEF OneByOne, OthersStay

-----------------------------------------------------------------------------
(* The kinds of step.                                                      *)

\* A step of a request with no socket to reach, which touches neither the
\* sockets nor what makes them live.
LEMMA QuietStep ==
  ASSUME FollowInv, NEW p \in Requests, OthersStay(p),
         req[p].step \notin Reaching,
         UNCHANGED <<sock, late, black, account>>
  PROVE  \A s \in AllSockets \ late' : Followed(s)'
<1> SUFFICES ASSUME NEW s \in AllSockets, s \notin late, Open(s)'
             PROVE  /\ sock[s].jti \in black => \E q \in Requests : WillReach(q, s)'
                    /\ account # "active" => \E q \in Requests : UserCut(q, s)'
  BY Zenon DEF Followed
<1>1. Open(s) /\ Followed(s) /\ sock'[s] = sock[s]
  BY Zenon DEF FollowInv, Open
<1>2. \A q \in Requests : (WillReach(q, s) \/ UserCut(q, s)) => q # p
  BY Zenon DEF WillReach, UserCut, Reaching
<1> QED BY Zenon, <1>1, <1>2, StillReached DEF Followed

\* A jti is blocklisted by a request that from now on reaches its sockets.
LEMMA BlocklistStep ==
  ASSUME FollowInv, NEW p \in Requests, OthersStay(p),
         req[p].step \notin Reaching,
         NEW t, black' = black \cup {t},
         UNCHANGED <<sock, late, account>>,
         \A s \in AllSockets : sock[s].jti = t => WillReach(p, s)'
  PROVE  \A s \in AllSockets \ late' : Followed(s)'
<1> SUFFICES ASSUME NEW s \in AllSockets, s \notin late, Open(s)'
             PROVE  /\ sock[s].jti \in black \cup {t} =>
                         \E q \in Requests : WillReach(q, s)'
                    /\ account # "active" => \E q \in Requests : UserCut(q, s)'
  BY Zenon DEF Followed
<1>1. Open(s) /\ Followed(s) /\ sock'[s] = sock[s]
  BY Zenon DEF FollowInv, Open
<1>2. \A q \in Requests : (WillReach(q, s) \/ UserCut(q, s)) => q # p
  BY Zenon DEF WillReach, UserCut, Reaching
<1> QED BY Zenon, <1>1, <1>2, StillReached DEF Followed

\* A step of a request that reaches afterwards, or has closed, every socket it
\* reached before.
LEMMA CloseStep ==
  ASSUME FollowInv, NEW p \in Requests, OthersStay(p),
         UNCHANGED <<black, account>>,
         NEW some, Close(some),
         \A s \in AllSockets \ some : Open(s) /\ WillReach(p, s) => WillReach(p, s)',
         \A s \in AllSockets \ some : Open(s) /\ UserCut(p, s) => UserCut(p, s)'
  PROVE  \A s \in AllSockets \ late' : Followed(s)'
<1> SUFFICES ASSUME NEW s \in AllSockets, s \notin late', Open(s)'
             PROVE  /\ sock'[s].jti \in black => \E q \in Requests : WillReach(q, s)'
                    /\ account # "active" => \E q \in Requests : UserCut(q, s)'
  BY Zenon DEF Followed
<1>1. s \notin some
  BY Zenon DEF Close, Open, NoSock
<1>2. sock'[s] = sock[s] /\ s \notin late
  BY Zenon, <1>1 DEF Close
<1>3. Open(s) /\ Followed(s)
  BY Zenon, <1>2 DEF FollowInv, Open
<1>4. sock[s].jti \in black => \E q \in Requests : WillReach(q, s)'
  BY Zenon, <1>1, <1>2, <1>3, StillReached DEF Followed
<1>5. account # "active" => \E q \in Requests : UserCut(q, s)'
  BY Zenon, <1>1, <1>2, <1>3, StillReached DEF Followed
<1> QED BY Zenon, <1>2, <1>4, <1>5

\* A step of one socket.
LEMMA SocketMoves ==
  ASSUME FollowInv, NEW s \in AllSockets, NEW r,
         sock' = [sock EXCEPT ![s] = r],
         UNCHANGED <<black, account, req>>,
         late \subseteq late',
         s \notin late' /\ r.step = "open" => r.jti \notin black /\ account = "active"
  PROVE  \A u \in AllSockets \ late' : Followed(u)'
<1> SUFFICES ASSUME NEW u \in AllSockets, u \notin late', Open(u)'
             PROVE  /\ sock'[u].jti \in black => \E q \in Requests : WillReach(q, u)'
                    /\ account # "active" => \E q \in Requests : UserCut(q, u)'
  BY Zenon DEF Followed
<1>1. CASE u = s
  <2>1. sock'[u] = r
    BY Zenon, <1>1 DEF FollowInv, Shape
  <2> QED BY Zenon, <1>1, <2>1 DEF Open
<1>2. CASE u # s
  <2>1. sock'[u] = sock[u]
    BY Zenon, <1>2 DEF FollowInv, Shape
  <2>2. Open(u) /\ Followed(u)
    BY Zenon, <2>1 DEF Open, FollowInv
  <2>3. ASSUME NEW q \in Requests
        PROVE  (WillReach(q, u) => WillReach(q, u)') /\ (UserCut(q, u) => UserCut(q, u)')
    BY Zenon, <2>1 DEF WillReach, UserCut, Cutting
  <2> QED BY Zenon, <2>1, <2>2, <2>3 DEF Followed
<1> QED BY Zenon, <1>1, <1>2

-----------------------------------------------------------------------------
(* The steps of a request.                                                 *)

\* What the steps that neither revoke nor cut anything have in common.
QuietMove(p) ==
  /\ OthersStay(p)
  /\ req[p].step \notin Reaching
  /\ req'[p].step \in {"check", "revoke", "unrow"} => req'[p].todo = <<>>
  /\ UNCHANGED <<sock, late, black, account>>

\* They keep the invariant.
LEMMA QuietKeeps ==
  ASSUME FollowInv, NEW p \in Requests, QuietMove(p)
  PROVE  FollowInv'
<1>1. \A s \in AllSockets \ late' : Followed(s)'
  BY Zenon, QuietStep DEF QuietMove
<1>2. OneByOne'
  BY Zenon, StaysOneByOne DEF QuietMove, FollowInv
<1>3. Shape'
  BY Zenon DEF QuietMove, OthersStay, FollowInv, Shape
<1> QED BY Zenon, <1>1, <1>2, <1>3 DEF FollowInv

\* Logging in, recording and listing sessions, enforcing the cap, and removing
\* rows are such steps, and so is every request that only begins.
LEMMA QuietSteps ==
  ASSUME FollowInv, NEW p \in Requests,
         \/ Login(p) \/ RecordSession(p) \/ RefreshChecks(p) \/ EnforceLimit(p)
         \/ RevokeAll(p) \/ RemoveSessions(p)
         \/ ChangePassword(p) \/ DisableUser(p) \/ DeleteUser(p)
         \/ \E t \in held : Logout(p, t)
  PROVE  FollowInv'
<1> USE DEF FollowInv
<1>1. CASE Login(p)
  BY Zenon, <1>1, BeginsOne, QuietKeeps DEF Login, QuietMove, dbVars, Reaching
<1>2. CASE RecordSession(p)
  BY SMTT(30), <1>2, MovesOne, EndsOne, QuietKeeps
  DEF RecordSession, GotoWith, QuietMove, Reaching
<1>3. CASE RefreshChecks(p)
  <2>1. req[p].step = "check" /\ req[p].todo = <<>> /\ UNCHANGED <<sock, late, black, account>>
    BY Zenon, <1>3 DEF RefreshChecks, OneByOne, dbVars
  <2>2. Ends(p) \/ Goto(p, "swap") \/ Goto(p, "revoke")
    BY Zenon, <1>3 DEF RefreshChecks
  <2> QED BY SMTT(30), <2>1, <2>2, MovesOne, EndsOne, QuietKeeps DEF Goto, QuietMove, Reaching
<1>4. CASE EnforceLimit(p)
  <2>1. req[p].step = "enforce" /\ UNCHANGED <<sock, late, black, account>>
    BY Zenon, <1>4 DEF EnforceLimit
  <2>2. Ends(p) \/ \E all : Revokes(p, all)
    BY Zenon, <1>4 DEF EnforceLimit, Returns
  <2> QED BY <2>1, <2>2, MovesOne, EndsOne, QuietKeeps DEF Revokes, QuietMove, Reaching
<1>5. CASE RevokeAll(p)
  <2>1. req[p].step = "list" /\ UNCHANGED <<sock, late, black, account>>
    BY Zenon, <1>5 DEF RevokeAll, dbVars
  <2>2. Ends(p) \/ Goto(p, "flag") \/ Revokes(p, rows)
    BY Zenon, <1>5 DEF RevokeAll, AfterRevokes
  <2> QED BY <2>1, <2>2, MovesOne, EndsOne, QuietKeeps
          DEF Revokes, Goto, QuietMove, Reaching
<1>6. CASE RemoveSessions(p)
  <2>1. req[p].step = "drop" /\ UNCHANGED <<sock, late, black, account>>
    BY Zenon, <1>6 DEF RemoveSessions
  <2>2. Ends(p) \/ Goto(p, "flag")
    BY Zenon, <1>6 DEF RemoveSessions, AfterRevokes, Returns
  <2> QED BY <2>1, <2>2, MovesOne, EndsOne, QuietKeeps DEF Goto, QuietMove, Reaching
<1>7. CASE ChangePassword(p) \/ DisableUser(p) \/ DeleteUser(p)
  BY Zenon, <1>7, BeginsOne, QuietKeeps
  DEF ChangePassword, DisableUser, DeleteUser, Admin, QuietMove, dbVars, Reaching
<1>8. CASE \E t \in held : Logout(p, t)
  BY Zenon, <1>8, BeginsOne, QuietKeeps DEF Logout, QuietMove, dbVars, Reaching
<1> QED BY Zenon, <1>1, <1>2, <1>3, <1>4, <1>5, <1>6, <1>7, <1>8

\* A refresh of a live token begins; one of a blocklisted token answers with the
\* cached replacement and changes no request.
LEMMA RefreshKeeps ==
  ASSUME FollowInv, NEW p \in Requests, NEW t \in held, Refresh(p, t)
  PROVE  FollowInv'
<1>1. UNCHANGED <<sock, late, black, account>>
  BY Zenon DEF Refresh, dbVars
<1>2. CASE Begins(p, "refresh", "check", t)
  BY Zenon, <1>1, <1>2, BeginsOne, QuietKeeps DEF QuietMove, Reaching, FollowInv
<1>3. CASE UNCHANGED req
  BY <1>1, <1>3 DEF FollowInv, Shape, OneByOne, Followed, Open, WillReach, UserCut,
                    Cutting
<1> QED BY Zenon, <1>2, <1>3 DEF Refresh

\* A swap, a revocation of many and a revocation of one each blocklist a jti
\* whose sockets they reach afterwards.
LEMMA BlocklistSteps ==
  ASSUME FollowInv, NEW p \in Requests,
         SwapBlocklists(p) \/ BlocklistNext(p) \/ RevokeBlocklists(p)
  PROVE  FollowInv'
<1> USE DEF FollowInv
<1>1. CASE SwapBlocklists(p)
  <2>1. /\ req[p].step = "swap" /\ black' = black \cup {req[p].tok}
        /\ GotoWith(p, "replace", minted + 1) /\ UNCHANGED <<sock, late, account>>
    BY Zenon, <1>1 DEF SwapBlocklists, Blocklist
  <2>2. OthersStay(p) /\ req'[p].step = "replace" /\ req'[p].tok = req[p].tok
    BY Zenon, <2>1, MovesOne DEF GotoWith
  <2>3. \A s \in AllSockets : sock[s].jti = req[p].tok => WillReach(p, s)'
    BY Zenon, <2>1, <2>2 DEF WillReach
  <2>4. \A s \in AllSockets \ late' : Followed(s)'
    BY Zenon, <2>1, <2>2, <2>3, BlocklistStep DEF Reaching
  <2> QED BY Zenon, <2>1, <2>2, <2>4, StaysOneByOne DEF Shape, OthersStay
<1>2. CASE BlocklistNext(p)
  <2>1. /\ req[p].step = "block" /\ req[p].todo # <<>>
        /\ black' = black \cup {Head(req[p].todo)}
        /\ Goto(p, "kick") /\ UNCHANGED <<sock, late, account>>
    BY Zenon, <1>2 DEF BlocklistNext, Blocklist
  <2>2. OthersStay(p) /\ req'[p].step = "kick" /\ req'[p].todo = req[p].todo
    BY <2>1, MovesOne DEF Goto
  <2>3. \A s \in AllSockets : sock[s].jti = Head(req[p].todo) => WillReach(p, s)'
    BY Zenon, <2>1, <2>2 DEF WillReach, Cutting
  <2>4. \A s \in AllSockets \ late' : Followed(s)'
    BY Zenon, <2>1, <2>2, <2>3, BlocklistStep DEF Reaching
  <2> QED BY Zenon, <2>1, <2>2, <2>4, StaysOneByOne DEF Shape, OthersStay
<1>3. CASE RevokeBlocklists(p)
  <2>1. /\ req[p].step = "revoke" /\ black' = black \cup {req[p].tok}
        /\ Goto(p, "unrow") /\ UNCHANGED <<sock, late, account>>
    BY Zenon, <1>3 DEF RevokeBlocklists, Blocklist
  <2>2. /\ OthersStay(p) /\ req'[p].step = "unrow" /\ req'[p].tok = req[p].tok
        /\ req'[p].todo = <<>>
    BY <2>1, MovesOne DEF Goto, OneByOne
  <2>3. \A s \in AllSockets : sock[s].jti = req[p].tok => WillReach(p, s)'
    BY Zenon, <2>1, <2>2 DEF WillReach
  <2>4. \A s \in AllSockets \ late' : Followed(s)'
    BY Zenon, <2>1, <2>2, <2>3, BlocklistStep DEF Reaching
  <2> QED BY Zenon, <2>1, <2>2, <2>4, StaysOneByOne DEF Shape, OthersStay
<1> QED BY Zenon, <1>1, <1>2, <1>3

\* Moving the row keeps the sockets in view; when the user is gone the swap
\* fails, and the deletion that cuts the sockets is still under way.
LEMMA SwapReplacesKeeps ==
  ASSUME FollowInv, NEW p \in Requests, SwapReplaces(p)
  PROVE  FollowInv'
<1> USE DEF FollowInv
<1>1. /\ req[p].step = "replace" /\ UNCHANGED <<sock, late, black, account>>
      /\ (account = "deleted" /\ Ends(p)) \/ Goto(p, "retarget")
  BY Zenon DEF SwapReplaces
<1>2. /\ OthersStay(p)
      /\ req'[p].step \notin {"check", "revoke", "unrow"}
      /\ account # "deleted" => req'[p].step = "retarget" /\ req'[p].tok = req[p].tok
      /\ \/ account = "deleted"
         \/ req'[p].step = "retarget" /\ req'[p].tok = req[p].tok
  BY <1>1, MovesOne, EndsOne DEF Goto
<1>3. ASSUME NEW s \in AllSockets, s \notin late, Open(s)
      PROVE  /\ sock[s].jti \in black => \E q \in Requests : WillReach(q, s)'
             /\ account # "active" => \E q \in Requests : UserCut(q, s)'
  <2>1. Followed(s) /\ sock'[s] = sock[s]
    BY Zenon, <1>1, <1>3
  <2>2. account # "active" => \E q \in Requests : UserCut(q, s)'
    <3>1. \A q \in Requests : UserCut(q, s) => q # p
      BY Zenon, <1>1 DEF UserCut
    <3> QED BY Zenon, <1>2, <1>3, <2>1, <3>1, StillReached DEF Followed
  <2>3. ASSUME sock[s].jti \in black
        PROVE  \E q \in Requests : WillReach(q, s)'
    <3>1. PICK q \in Requests : WillReach(q, s)
      BY Zenon, <1>3, <2>1, <2>3 DEF Followed
    <3>2. CASE q # p
      BY Zenon, <1>2, <2>1, <3>1, <3>2, StillReached
    <3>3. CASE q = p /\ account # "deleted"
      <4>1. req[p].tok = sock[s].jti
        BY Zenon, <1>1, <3>1, <3>3 DEF WillReach
      <4> QED BY Zenon, <1>2, <2>1, <3>3, <4>1 DEF WillReach
    <3>4. CASE account = "deleted"
      <4>1. PICK u \in Requests : UserCut(u, s)'
        BY Zenon, <2>2, <3>4
      <4>2. WillReach(u, s)'
        BY Zenon, <4>1 DEF UserCut, WillReach
      <4> QED BY Zenon, <4>2
    <3> QED BY Zenon, <3>2, <3>3, <3>4
  <2> QED BY Zenon, <2>2, <2>3
<1>4. \A s \in AllSockets \ late' : Followed(s)'
  BY Zenon, <1>1, <1>3 DEF Followed, Open
<1> QED BY Zenon, <1>1, <1>2, <1>4, StaysOneByOne DEF Shape, OthersStay

\* Moving the sockets: those of the old jti are filed under the new one, which
\* is live, or they are late.
LEMMA SwapRetargetsKeeps ==
  ASSUME FollowInv, NEW p \in Requests, SwapRetargets(p)
  PROVE  FollowInv'
<1> USE DEF FollowInv
<1> DEFINE moved == OnJti(AllSockets, req[p].tok)
<1>1. /\ req[p].step = "retarget" /\ UNCHANGED <<black, account>>
      /\ Goto(p, "enforce")
      /\ sock' = [s \in AllSockets |->
                    IF s \in moved THEN Filed(req[p].new) ELSE sock[s]]
      /\ late' = IF req[p].new \in black THEN late \cup moved
                 ELSE IF account = "active" THEN late \ moved ELSE late
  BY Zenon DEF SwapRetargets, dbVars
<1>2. OthersStay(p) /\ req'[p].step = "enforce"
  BY Zenon, <1>1, MovesOne DEF Goto
<1>3. ASSUME NEW s \in AllSockets, s \notin late', Open(s)'
      PROVE  /\ sock'[s].jti \in black => \E q \in Requests : WillReach(q, s)'
             /\ account # "active" => \E q \in Requests : UserCut(q, s)'
  <2>1. CASE s \in moved
    <3>1. sock'[s].jti = req[p].new /\ Open(s)
      BY Zenon, <1>1, <2>1 DEF Filed, OnJti
    <3>2. req[p].new \notin black
      BY Zenon, <1>1, <1>3, <2>1
    <3>3. account # "active" => s \notin late
      BY Zenon, <1>1, <1>3, <3>2
    <3>4. ASSUME account # "active"
          PROVE  \E q \in Requests : UserCut(q, s)'
      <4>1. PICK q \in Requests : UserCut(q, s)
        BY Zenon, <3>1, <3>3, <3>4 DEF Followed
      <4>2. q # p
        BY Zenon, <1>1, <4>1 DEF UserCut
      <4> QED BY Zenon, <1>2, <4>1, <4>2 DEF OthersStay, UserCut
    <3> QED BY Zenon, <3>1, <3>2, <3>4
  <2>2. CASE s \notin moved
    <3>1. sock'[s] = sock[s] /\ s \notin late
      BY Zenon, <1>1, <1>3, <2>2
    <3>2. Open(s) /\ Followed(s)
      BY Zenon, <1>3, <3>1 DEF Open
    <3>3. sock[s].jti # req[p].tok
      BY Zenon, <2>2, <3>2 DEF OnJti
    <3>4. \A q \in Requests : (WillReach(q, s) \/ UserCut(q, s)) => q # p
      BY Zenon, <1>1, <3>3 DEF WillReach, UserCut
    <3> QED BY Zenon, <1>2, <3>1, <3>2, <3>4, StillReached DEF Followed
  <2> QED BY Zenon, <2>1, <2>2
<1>4. \A s \in AllSockets \ late' : Followed(s)'
  BY Zenon, <1>1, <1>3 DEF Followed
<1>5. DOMAIN sock' = AllSockets
  BY Zenon, <1>1
<1> QED BY Zenon, <1>2, <1>4, <1>5, StaysOneByOne DEF Shape, OthersStay

\* Cutting the sockets of a jti, and then those of the user, gives up only the
\* sockets that are closed.
LEMMA CloseSteps ==
  ASSUME FollowInv, NEW p \in Requests,
         \/ KickSockets(p) \/ KickDeciders(p) \/ CutSockets(p) \/ CutDeciders(p)
  PROVE  FollowInv'
<1> USE DEF FollowInv
<1>0. \A some : Close(some) => DOMAIN sock' = AllSockets
  BY Zenon DEF Close
<1>1. CASE KickSockets(p)
  <2>1. /\ req[p].step = "kick" /\ Goto(p, "kick2") /\ UNCHANGED <<black, account>>
        /\ Close(OnJti(Sockets, Cutting(p)))
    BY Zenon, <1>1 DEF KickSockets, dbVars
  <2>2. OthersStay(p) /\ req'[p].step = "kick2" /\ Cutting(p)' = Cutting(p)
    BY SMTT(30), <2>1, MovesOne DEF Goto, Cutting
  <2>3. ASSUME NEW s \in AllSockets, s \notin OnJti(Sockets, Cutting(p)), Open(s)
        PROVE  /\ WillReach(p, s) => WillReach(p, s)'
               /\ ~ UserCut(p, s)
    <3>1. sock'[s] = sock[s]
      BY Zenon, <2>1, <2>3 DEF Close
    <3>2. WillReach(p, s) => Cutting(p) = sock[s].jti /\ s \in Deciders
      BY Zenon, <2>1, <2>3 DEF WillReach, OnJti, AllSockets
    <3> QED BY Zenon, <2>1, <2>2, <3>1, <3>2 DEF WillReach, UserCut
  <2>4. \A s \in AllSockets \ late' : Followed(s)'
    BY Zenon, <2>1, <2>2, <2>3, CloseStep
  <2> QED BY Zenon, <1>0, <2>1, <2>2, <2>4, StaysOneByOne DEF Shape, OthersStay
<1>2. CASE KickDeciders(p)
  <2>1. /\ req[p].step = "kick2" /\ UNCHANGED <<black, account>>
        /\ Close(OnJti(Deciders, Cutting(p)))
        /\ \/ Ends(p)
           \/ \E step \in {"drop", "block"} :
                Moves(p, step, req[p].new, Tail(req[p].todo), req[p].gone)
    BY Zenon, <1>2 DEF KickDeciders, dbVars
  <2>2. OthersStay(p) /\ req'[p].step \in {"none", "drop", "block"}
    BY Zenon, <2>1, MovesOne, EndsOne
  <2>3. ASSUME NEW s \in AllSockets, s \notin OnJti(Deciders, Cutting(p)), Open(s)
        PROVE  ~ WillReach(p, s) /\ ~ UserCut(p, s)
    BY Zenon, <2>1, <2>3 DEF WillReach, UserCut, OnJti
  <2>4. \A s \in AllSockets \ late' : Followed(s)'
    BY Zenon, <2>1, <2>2, <2>3, CloseStep
  <2> QED BY Zenon, <1>0, <2>1, <2>2, <2>4, StaysOneByOne DEF Shape, OthersStay
<1>3. CASE CutSockets(p)
  <2>1. /\ req[p].step = "cut" /\ Goto(p, "cut2") /\ UNCHANGED <<black, account>>
        /\ Close({s \in Sockets : Open(s)})
    BY Zenon, <1>3 DEF CutSockets, dbVars
  <2>2. OthersStay(p) /\ req'[p].step = "cut2"
    BY Zenon, <2>1, MovesOne DEF Goto
  <2>3. ASSUME NEW s \in AllSockets, s \notin {u \in Sockets : Open(u)}, Open(s)
        PROVE  WillReach(p, s)' /\ UserCut(p, s)'
    BY Zenon, <2>2, <2>3 DEF WillReach, UserCut, AllSockets
  <2>4. \A s \in AllSockets \ late' : Followed(s)'
    BY Zenon, <2>1, <2>2, <2>3, CloseStep
  <2> QED BY Zenon, <1>0, <2>1, <2>2, <2>4, StaysOneByOne DEF Shape, OthersStay
<1>4. CASE CutDeciders(p)
  <2>1. /\ req[p].step = "cut2" /\ Ends(p) /\ UNCHANGED <<black, account>>
        /\ Close({s \in Deciders : Open(s)})
    BY Zenon, <1>4 DEF CutDeciders, dbVars
  <2>2. OthersStay(p) /\ req'[p].step = "none"
    BY Zenon, <2>1, EndsOne
  <2>3. ASSUME NEW s \in AllSockets, s \notin {u \in Deciders : Open(u)}, Open(s)
        PROVE  ~ WillReach(p, s) /\ ~ UserCut(p, s)
    BY Zenon, <2>1, <2>3 DEF WillReach, UserCut
  <2>4. \A s \in AllSockets \ late' : Followed(s)'
    BY Zenon, <2>1, <2>2, <2>3, CloseStep
  <2> QED BY Zenon, <1>0, <2>1, <2>2, <2>4, StaysOneByOne DEF Shape, OthersStay
<1> QED BY Zenon, <1>1, <1>2, <1>3, <1>4

\* The row goes and the sockets are next: the request's list is empty, so the
\* jti it cuts is the one it blocklisted.
LEMMA RevokeRemovesKeeps ==
  ASSUME FollowInv, NEW p \in Requests, RevokeRemoves(p)
  PROVE  FollowInv'
<1> USE DEF FollowInv
<1>1. /\ req[p].step = "unrow" /\ req[p].todo = <<>> /\ Goto(p, "kick")
      /\ UNCHANGED <<sock, late, black, account>>
  BY Zenon DEF RevokeRemoves, OneByOne
<1>2. /\ OthersStay(p) /\ req'[p].step = "kick" /\ req'[p].tok = req[p].tok
      /\ req'[p].todo = <<>>
  BY SMTT(30), <1>1, MovesOne DEF Goto
<1>3. ASSUME NEW s \in AllSockets, s \notin late, Open(s)
      PROVE  /\ sock[s].jti \in black => \E q \in Requests : WillReach(q, s)'
             /\ account # "active" => \E q \in Requests : UserCut(q, s)'
  <2>1. Followed(s) /\ sock'[s] = sock[s]
    BY Zenon, <1>1, <1>3
  <2>2. WillReach(p, s) => WillReach(p, s)'
    BY Zenon, <1>1, <1>2 DEF WillReach, Cutting
  <2>3. ~ UserCut(p, s)
    BY Zenon, <1>1 DEF UserCut
  <2> QED BY Zenon, <1>2, <1>3, <2>1, <2>2, <2>3, StillReached DEF Followed
<1>4. \A s \in AllSockets \ late' : Followed(s)'
  BY Zenon, <1>1, <1>3 DEF Followed, Open
<1> QED BY Zenon, <1>1, <1>2, <1>4, StaysOneByOne DEF Shape, OthersStay

\* The sockets a failed request does not reach any more are late.
LEMMA FailureKeeps ==
  ASSUME FollowInv, NEW p \in Requests, SwapReplaceFails(p) \/ RevokeRemoveFails(p)
  PROVE  FollowInv'
<1> USE DEF FollowInv
<1>1. /\ req[p].step \in {"unrow", "replace"} /\ Ends(p)
      /\ late' = late \cup OnJti(AllSockets, req[p].tok)
      /\ UNCHANGED <<sock, black, account>>
  BY Zenon DEF SwapReplaceFails, RevokeRemoveFails, dbVars
<1>2. OthersStay(p) /\ req'[p].step = "none"
  BY Zenon, <1>1, EndsOne
<1>3. ASSUME NEW s \in AllSockets, s \notin late', Open(s)
      PROVE  /\ sock[s].jti \in black => \E q \in Requests : WillReach(q, s)'
             /\ account # "active" => \E q \in Requests : UserCut(q, s)'
  <2>1. Followed(s) /\ sock'[s] = sock[s] /\ sock[s].jti # req[p].tok
    BY Zenon, <1>1, <1>3 DEF OnJti
  <2>2. ~ WillReach(p, s) /\ ~ UserCut(p, s)
    BY Zenon, <1>1, <2>1 DEF WillReach, UserCut
  <2> QED BY Zenon, <1>2, <1>3, <2>1, <2>2, StillReached DEF Followed
<1>4. \A s \in AllSockets \ late' : Followed(s)'
  BY Zenon, <1>1, <1>3 DEF Followed, Open
<1> QED BY Zenon, <1>1, <1>2, <1>4, StaysOneByOne DEF Shape, OthersStay

\* The user is disabled or deleted, and every socket is about to be cut.
LEMMA SetAccountKeeps ==
  ASSUME FollowInv, NEW p \in Requests, SetAccount(p)
  PROVE  FollowInv'
<1> USE DEF FollowInv
<1>1. req[p].step = "flag" /\ Goto(p, "cut") /\ UNCHANGED <<sock, late, black>>
  BY Zenon DEF SetAccount
<1>2. OthersStay(p) /\ req'[p].step = "cut"
  BY Zenon, <1>1, MovesOne DEF Goto
<1>3. \A s \in AllSockets : WillReach(p, s)' /\ UserCut(p, s)'
  BY Zenon, <1>2 DEF WillReach, UserCut
<1>4. \A s \in AllSockets \ late' : Followed(s)'
  BY Zenon, <1>3 DEF Followed
<1> QED BY Zenon, <1>1, <1>2, <1>4, StaysOneByOne DEF Shape, OthersStay

-----------------------------------------------------------------------------
(* The steps of a socket, and the theorem.                                 *)

\* A handshake files a socket under a live jti and user, or late.
LEMMA SocketKeeps ==
  ASSUME FollowInv, NEW s \in AllSockets, SocketStep(s)
  PROVE  FollowInv'
<1> USE DEF FollowInv
<1>1. CASE \E t \in held : Connect(s, t)
  <2>1. PICK t \in held : Connect(s, t)
    BY Zenon, <1>1
  <2>2. /\ sock' = [sock EXCEPT ![s] = [step |-> "checked", jti |-> t]]
        /\ UNCHANGED <<black, account, req, late>>
    BY Zenon, <2>1 DEF Connect, dbVars
  <2>3. \A u \in AllSockets \ late' : Followed(u)'
    BY Zenon, <2>2, SocketMoves
  <2> QED BY Zenon, <2>2, <2>3 DEF Shape, OneByOne
<1>2. CASE ConnectReadsUser(s)
  <2> DEFINE r == IF account = "active" THEN [step |-> "authed", jti |-> sock[s].jti]
                  ELSE NoSock
  <2>1. sock' = [sock EXCEPT ![s] = r] /\ UNCHANGED <<black, account, req, late>>
    BY Zenon, <1>2 DEF ConnectReadsUser, dbVars
  <2>2. r.step # "open"
    BY Zenon DEF NoSock
  <2> HIDE DEF r
  <2>3. \A u \in AllSockets \ late' : Followed(u)'
    BY Zenon, <2>1, <2>2, SocketMoves
  <2> QED BY Zenon, <2>1, <2>3 DEF Shape, OneByOne
<1>3. CASE RegisterSocket(s)
  <2>1. /\ sock' = [sock EXCEPT ![s] = Filed(sock[s].jti)]
        /\ UNCHANGED <<black, account, req>>
        /\ late' = IF sock[s].jti \in black \/ account # "active"
                   THEN late \cup {s} ELSE late
    BY Zenon, <1>3 DEF RegisterSocket, dbVars
  <2>2. late \subseteq late'
    BY Zenon, <2>1
  <2>3. s \notin late' => sock[s].jti \notin black /\ account = "active"
    BY Zenon, <2>1
  <2>4. Filed(sock[s].jti).jti = sock[s].jti
    BY Zenon DEF Filed
  <2>5. \A u \in AllSockets \ late' : Followed(u)'
    BY Zenon, <2>1, <2>2, <2>3, <2>4, SocketMoves
  <2> QED BY Zenon, <2>1, <2>5 DEF Shape, OneByOne
<1>4. CASE SocketEnds(s)
  <2>1. Close({s}) /\ UNCHANGED <<black, account, req>>
    BY Zenon, <1>4 DEF SocketEnds, dbVars
  <2>2. ASSUME NEW u \in AllSockets, u \notin late', Open(u)'
        PROVE  /\ sock'[u].jti \in black => \E q \in Requests : WillReach(q, u)'
               /\ account # "active" => \E q \in Requests : UserCut(q, u)'
    <3>1. u # s
      BY Zenon, <2>1, <2>2 DEF Close, Open, NoSock
    <3>2. sock'[u] = sock[u] /\ u \notin late
      BY Zenon, <2>1, <2>2, <3>1 DEF Close
    <3>3. Open(u) /\ Followed(u)
      BY Zenon, <2>2, <3>2 DEF Open
    <3>4. ASSUME NEW q \in Requests
          PROVE  /\ WillReach(q, u) => WillReach(q, u)'
                 /\ UserCut(q, u) => UserCut(q, u)'
      BY Zenon, <2>1, <3>2 DEF WillReach, UserCut, Cutting
    <3> QED BY Zenon, <3>2, <3>3, <3>4 DEF Followed
  <2>3. \A u \in AllSockets \ late' : Followed(u)'
    BY Zenon, <2>1, <2>2 DEF Followed
  <2> QED BY Zenon, <2>1, <2>3 DEF Shape, OneByOne, Close
<1> QED BY Zenon, <1>1, <1>2, <1>3, <1>4 DEF SocketStep

\* After a crash no request and no socket is left.
LEMMA CrashKeeps ==
  ASSUME FollowInv, Crash
  PROVE  FollowInv'
<1>1. /\ req' = [p \in Requests |-> NoReq]
      /\ sock' = [s \in AllSockets |-> NoSock]
  BY Zenon DEF Crash
<1>2. Shape'
  BY Zenon, <1>1 DEF Shape
<1>3. OneByOne'
  BY Zenon, <1>1 DEF OneByOne, NoReq
<1>4. \A s \in AllSockets : ~ Open(s)'
  BY Zenon, <1>1 DEF Open, NoSock
<1> QED BY Zenon, <1>2, <1>3, <1>4 DEF FollowInv, Followed

\* Steps that leave sockets, requests, blocklist and account alone.
LEMMA StutterKeeps ==
  ASSUME FollowInv, UNCHANGED <<sock, late, black, account, req>>
  PROVE  FollowInv'
BY DEF FollowInv, Shape, OneByOne, Followed, Open, WillReach, UserCut, Cutting

\* Every step keeps the invariant.
LEMMA FollowInvKept ==
  ASSUME FollowInv, [Next]_vars
  PROVE  FollowInv'
<1>1. CASE \E p \in Requests : RequestStep(p)
  <2>1. PICK p \in Requests : RequestStep(p)
    BY Zenon, <1>1
  <2> QED BY Zenon, <2>1, QuietSteps, RefreshKeeps, BlocklistSteps, SwapReplacesKeeps,
             SwapRetargetsKeeps, CloseSteps, RevokeRemovesKeeps, SetAccountKeeps,
             FailureKeeps
          DEF RequestStep
<1>2. CASE \E s \in AllSockets : SocketStep(s)
  BY Zenon, <1>2, SocketKeeps
<1>3. CASE \E t \in Tokens : RefreshExpired(t) \/ Expires(t)
  BY Zenon, <1>3, StutterKeeps DEF RefreshExpired, Expires, dbVars
<1>4. CASE Crash
  BY Zenon, <1>4, CrashKeeps
<1>5. CASE UNCHANGED vars
  BY Zenon, <1>5, StutterKeeps DEF vars, dbVars
<1> QED BY Zenon, <1>1, <1>2, <1>3, <1>4, <1>5 DEF Next

\* A revocation finds every socket registered before it, for any number of
\* concurrent logins, refreshes, logouts, administrative requests, handshakes and
\* crashes: an open socket under a blocklisted jti, or of a disabled or deleted
\* user, is one a request under way still cuts or moves, unless it was filed
\* late or that request failed on the database.
THEOREM Follows == Spec => []SocketsFollow
<1>1. Init => FollowInv
  BY DEF Init, FollowInv, Shape, OneByOne, Followed, Open, NoReq, NoSock
<1>2. FollowInv /\ [Next]_vars => FollowInv'
  BY Zenon, FollowInvKept
<1>3. FollowInv => SocketsFollow
  <2> SUFFICES ASSUME FollowInv, NEW s \in AllSockets \ late, Open(s),
                      sock[s].jti \in black \/ account # "active"
               PROVE  \E p \in Requests : WillReach(p, s)
    BY Zenon DEF SocketsFollow
  <2>1. Followed(s)
    BY Zenon DEF FollowInv
  <2> QED BY Zenon, <2>1, CutReaches DEF Followed
<1> QED BY <1>1, <1>2, <1>3, PTL DEF Spec
-----------------------------------------------------------------------------
(* Rows and tokens: types, live tokens and the cap.                        *)

Grants == {"login", "refresh"}

\* What a request is, when m tokens have been minted.
RequestOf(m) ==
  [op : Ops, step : Steps, tok : 0 .. m, new : 0 .. m, todo : Seq(1 .. m),
   gone : SUBSET (1 .. m)]

\* The request works through a list of victims.
Removing(p) ==
  \/ req[p].step \in {"block", "drop"}
  \/ req[p].step \in {"kick", "kick2"} /\ req[p].todo # <<>>

\* ... because the user has too many sessions.
Capping(p) == req[p].op \in Grants /\ Removing(p)

\* What a request knows at each of its steps: the token it presents, the token
\* it minted, and that what it deletes is, or will be, in the blocklist.
Knows(p) ==
  /\ req[p].step = "record" => req[p].op \in Grants
  /\ req[p].step = "list" => req[p].op \notin Grants
  /\ req[p].step \in {"check", "swap", "replace", "revoke", "unrow"} => req[p].tok # 0
  /\ req[p].step \in {"replace", "retarget", "enforce"} => req[p].new # 0
  /\ Capping(p) => req[p].new # 0
  /\ req[p].step \in {"replace", "unrow"} => req[p].tok \in black
  /\ req[p].step \in {"kick", "kick2"} /\ req[p].todo # <<>> =>
       Head(req[p].todo) \in black
  /\ req[p].step = "drop" => req[p].todo = <<>>
  /\ req[p].gone \subseteq black \cup Range(req[p].todo)

\* A replacement that has no row yet is in no row, and has one owner.
Fresh ==
  \A p \in Requests : req[p].step = "replace" =>
    /\ req[p].new \notin Rows
    /\ \A q \in Requests : q # p /\ req[q].step = "replace" => req[q].new # req[p].new

\* Every token ever minted has its row, or gets it, or is dead.
HasRow(t) ==
  \/ t \in Rows \/ t \in black \/ t \in expired \/ t \in torn
  \/ \E p \in Requests : req[p].step = "replace" /\ req[p].new = t
RowInv == account # "deleted" => \A t \in 1 .. minted : HasRow(t)

\* At most Limit sessions.
Within(some) == \E b \in Seq(Tokens) : Len(b) <= Limit /\ some \subseteq Range(b)

\* While a request removes victims because of the cap, some request will still
\* enforce it, or the rows are within it, or will be when the victims of some
\* request are gone.
CapInv ==
  (\E p \in Requests : Capping(p)) =>
    \/ \E p \in Requests : req[p].step \in {"retarget", "enforce"}
    \/ Within(Rows)
    \/ \E p \in Requests : Removing(p) /\ Within(Rows \ req[p].gone)

\* The tables are well formed and every request knows what it does.
TableInv ==
  /\ TypeOK
  /\ OneByOne
  /\ \A p \in Requests : Knows(p)
  /\ Fresh

\* The parts of TypeOK.
BaseType ==
  /\ may \in Scenarios
  /\ account \in {"active", "disabled", "deleted"}
  /\ minted \in 0 .. MaxTokens
  /\ held \subseteq 1 .. minted
  /\ expired \subseteq 1 .. minted
  /\ black \subseteq 1 .. minted
  /\ cached \in [Tokens -> 0 .. minted]
  /\ torn \subseteq 1 .. minted
RowsType == rows \in Seq(1 .. minted) /\ IsInjective(rows)
RequestType == req \in [Requests -> RequestOf(minted)]
SocketType ==
  /\ sock \in [AllSockets -> [step : {"none", "checked", "authed", "open"},
                              jti : 0 .. minted]]
  /\ late \subseteq {s \in AllSockets : Open(s)}

\* TypeOK is its parts, now ...
LEMMA TypeParts == TypeOK <=> BaseType /\ RowsType /\ RequestType /\ SocketType
BY Zenon DEF TypeOK, BaseType, RowsType, RequestType, RequestOf, SocketType

\* ... and after a step.
LEMMA TypePartsNext ==
  ASSUME BaseType', RowsType', RequestType', SocketType'
  PROVE  TypeOK'
BY Zenon DEF TypeOK, BaseType, RowsType, RequestType, RequestOf, SocketType

\* Numbers of tokens are naturals.
LEMMA Bounds ==
  /\ MaxTokens \in Nat /\ Limit \in Nat
  /\ BaseType => minted \in Nat /\ 1 .. minted \subseteq Tokens
BY SessionsAssumption DEF BaseType, Tokens

\* A sequence over a set is one over a larger set.
LEMMA SeqGrows ==
  ASSUME NEW A, NEW B, A \subseteq B, NEW s \in Seq(A)
  PROVE  s \in Seq(B)
OBVIOUS

\* A request is still one when more tokens have been minted.
LEMMA RequestGrows ==
  ASSUME NEW m \in Nat, NEW n \in Nat, m <= n
  PROVE  RequestOf(m) \subseteq RequestOf(n)
<1> SUFFICES ASSUME NEW r \in RequestOf(m) PROVE r \in RequestOf(n)
  OBVIOUS
<1>1. 0 .. m \subseteq 0 .. n /\ 1 .. m \subseteq 1 .. n
  OBVIOUS
<1>2. r.todo \in Seq(1 .. n)
  BY Zenon, <1>1, SeqGrows DEF RequestOf
<1> QED BY Zenon, <1>1, <1>2 DEF RequestOf

\* What a request has in its fields.
LEMMA RequestFields ==
  ASSUME RequestType, NEW p \in Requests
  PROVE  /\ req[p].op \in Ops /\ req[p].step \in Steps
         /\ req[p].tok \in 0 .. minted /\ req[p].new \in 0 .. minted
         /\ req[p].todo \in Seq(1 .. minted) /\ req[p].gone \subseteq 1 .. minted
BY Zenon DEF RequestType, RequestOf

\* The type of the requests after one of them moves, begins or ends.
LEMMA MovesType ==
  ASSUME RequestType, minted \in Nat, minted' \in Nat, minted <= minted',
         NEW p \in Requests, NEW step \in Steps, NEW new \in 0 .. minted',
         NEW todo \in Seq(1 .. minted'), NEW gone \in SUBSET (1 .. minted'),
         Moves(p, step, new, todo, gone)
  PROVE  /\ RequestType' /\ OthersStay(p)
         /\ req'[p].op = req[p].op /\ req'[p].step = step /\ req'[p].tok = req[p].tok
         /\ req'[p].new = new /\ req'[p].todo = todo /\ req'[p].gone = gone
<1> DEFINE r == [op |-> req[p].op, step |-> step, tok |-> req[p].tok, new |-> new,
                 todo |-> todo, gone |-> gone]
<1>1. req[p].op \in Ops /\ req[p].tok \in 0 .. minted'
  BY RequestFields
<1>2. r \in RequestOf(minted')
  BY Zenon, <1>1 DEF RequestOf
<1>3. req \in [Requests -> RequestOf(minted')]
  BY Zenon, RequestGrows DEF RequestType
<1>4. req' = [req EXCEPT ![p] = r]
  BY Zenon DEF Moves
<1>5. req'[p] = r /\ OthersStay(p) /\ req' \in [Requests -> RequestOf(minted')]
  <2> HIDE DEF r
  <2> QED BY Zenon, <1>2, <1>3, <1>4 DEF OthersStay
<1> QED BY <1>5 DEF RequestType, RequestOf

\* A request that only goes to another step keeps its other fields.
LEMMA GotoType ==
  ASSUME RequestType, minted \in Nat, minted' = minted, NEW p \in Requests,
         NEW step \in Steps, Goto(p, step)
  PROVE  /\ RequestType' /\ OthersStay(p)
         /\ req'[p].op = req[p].op /\ req'[p].step = step /\ req'[p].tok = req[p].tok
         /\ req'[p].new = req[p].new
         /\ req'[p].todo = req[p].todo /\ req'[p].gone = req[p].gone
<1>1. minted' \in Nat /\ minted <= minted'
  OBVIOUS
<1>2. /\ req[p].new \in 0 .. minted' /\ req[p].todo \in Seq(1 .. minted')
      /\ req[p].gone \in SUBSET (1 .. minted')
  BY Zenon, RequestFields
<1>3. Moves(p, step, req[p].new, req[p].todo, req[p].gone)
  BY Zenon DEF Goto
<1> QED BY SMT, <1>1, <1>2, <1>3, MovesType

\* A request that sets out to revoke the sessions in all.
LEMMA RevokesType ==
  ASSUME RequestType, minted \in Nat, minted' = minted, NEW p \in Requests,
         NEW all \in Seq(1 .. minted), Range(all) \subseteq 1 .. minted, Revokes(p, all)
  PROVE  /\ RequestType' /\ OthersStay(p)
         /\ req'[p].op = req[p].op /\ req'[p].step = "block" /\ req'[p].tok = req[p].tok
         /\ req'[p].new = req[p].new
         /\ req'[p].todo = all /\ req'[p].gone = Range(all)
<1>1. minted' \in Nat /\ minted <= minted'
  OBVIOUS
<1>2. /\ req[p].new \in 0 .. minted' /\ all \in Seq(1 .. minted')
      /\ Range(all) \in SUBSET (1 .. minted')
  BY Zenon, RequestFields
<1>3. Moves(p, "block", req[p].new, all, Range(all)) /\ "block" \in Steps
  BY Zenon DEF Revokes, Steps
<1> QED BY SMT, <1>1, <1>2, <1>3, MovesType

\* A token that a request names is a minted one, unless it names none.
LEMMA NamesMinted ==
  ASSUME RequestType, minted \in Nat, NEW p \in Requests
  PROVE  /\ req[p].tok # 0 => req[p].tok \in 1 .. minted
         /\ req[p].new # 0 => req[p].new \in 1 .. minted
<1>1. \A t \in 0 .. minted : t # 0 => t \in 1 .. minted
  OBVIOUS
<1> QED BY Zenon, <1>1, RequestFields

\* The same for a request that begins ...
LEMMA BeginsType ==
  ASSUME RequestType, minted \in Nat, minted' = minted, NEW p \in Requests,
         NEW op \in Ops, NEW step \in Steps, NEW t \in 0 .. minted,
         Begins(p, op, step, t)
  PROVE  /\ RequestType' /\ OthersStay(p)
         /\ req'[p].op = op /\ req'[p].step = step /\ req'[p].tok = t
         /\ req'[p].new = 0 /\ req'[p].todo = <<>> /\ req'[p].gone = {}
<1> DEFINE r == [op |-> op, step |-> step, tok |-> t, new |-> 0, todo |-> <<>>,
                 gone |-> {}]
<1>1. r \in RequestOf(minted)
  BY DEF RequestOf
<1>2. req' = [req EXCEPT ![p] = r]
  BY Zenon DEF Begins
<1>3. req'[p] = r /\ OthersStay(p) /\ req' \in [Requests -> RequestOf(minted')]
  <2> HIDE DEF r
  <2> QED BY Zenon, <1>1, <1>2 DEF OthersStay, RequestType
<1> QED BY <1>3 DEF RequestType, RequestOf

\* ... and for one that ends.
LEMMA EndsType ==
  ASSUME RequestType, minted \in Nat, minted' \in Nat, minted <= minted',
         NEW p \in Requests, Ends(p)
  PROVE  RequestType' /\ OthersStay(p) /\ req'[p] = NoReq
<1>1. NoReq \in RequestOf(minted')
  BY DEF NoReq, RequestOf, Ops, Steps
<1>2. req \in [Requests -> RequestOf(minted')]
  BY Zenon, RequestGrows DEF RequestType
<1> QED BY Zenon, <1>1, <1>2 DEF Ends, OthersStay, RequestType

\* What no request is at: a request that has ended knows nothing.
LEMMA NoneKnows ==
  ASSUME NEW p \in Requests, req'[p] = NoReq
  PROVE  Knows(p)' /\ req'[p].step = "none"
BY DEF Knows, Capping, Removing, NoReq, Grants

\* A step of one request keeps the invariant when it keeps the types, what the
\* request knows and what is fresh.
LEMMA TableStep ==
  ASSUME TableInv, NEW p \in Requests, OthersStay(p), TypeOK', black \subseteq black',
         Knows(p)',
         req'[p].step \in {"check", "revoke", "unrow"} => req'[p].todo = <<>>,
         \A q \in Requests : q # p /\ req[q].step = "replace" => req[q].new \notin Rows',
         req'[p].step = "replace" =>
           /\ req'[p].new \notin Rows'
           /\ \A q \in Requests : q # p /\ req[q].step = "replace" =>
                req[q].new # req'[p].new
  PROVE  TableInv'
<1>1. OneByOne'
  BY Zenon, StaysOneByOne DEF TableInv
<1>2. ASSUME NEW q \in Requests PROVE Knows(q)'
  <2>1. CASE q = p
    BY Zenon, <2>1
  <2>2. CASE q # p
    <3>1. req'[q] = req[q] /\ Knows(q)
      BY Zenon, <2>2 DEF OthersStay, TableInv
    <3> QED BY Zenon, <3>1 DEF Knows, Capping, Removing
  <2> QED BY Zenon, <2>1, <2>2
<1>3. Fresh'
  <2> SUFFICES ASSUME NEW q \in Requests, req'[q].step = "replace"
               PROVE  /\ req'[q].new \notin Rows'
                      /\ \A u \in Requests : u # q /\ req'[u].step = "replace" =>
                           req'[u].new # req'[q].new
    BY Zenon DEF Fresh
  <2>1. \A u \in Requests : u # p => req'[u] = req[u]
    BY Zenon DEF OthersStay
  <2>2. CASE q = p
    BY Zenon, <2>1, <2>2
  <2>3. CASE q # p
    BY Zenon, <2>1, <2>3 DEF TableInv, Fresh
  <2> QED BY Zenon, <2>2, <2>3
<1> QED BY Zenon, <1>1, <1>2, <1>3 DEF TableInv

-----------------------------------------------------------------------------
(* The steps of a request keep TableInv.                                   *)

\* Sockets that do not change keep their type when tokens are minted.
LEMMA SocketsSame ==
  ASSUME SocketType, minted \in Nat, minted' \in Nat, minted <= minted',
         UNCHANGED <<sock, late>>
  PROVE  SocketType'
BY DEF SocketType, Open

\* A request that begins.
LEMMA BeginTables ==
  ASSUME TableInv, NEW p \in Requests, NEW op \in Ops, NEW step, NEW t \in 0 .. minted,
         \/ op = "login" /\ step = "record"
         \/ op = "refresh" /\ step = "check" /\ t # 0
         \/ op = "logout" /\ step = "revoke" /\ t # 0
         \/ op \in {"change", "delete"} /\ step = "list"
         \/ op = "disable" /\ step = "flag",
         Begins(p, op, step, t),
         UNCHANGED <<may, dbVars, held, expired, sock, late, torn>>
  PROVE  TableInv'
<1>1. BaseType /\ RowsType /\ RequestType /\ SocketType /\ minted \in Nat
  BY Zenon, TypeParts, Bounds DEF TableInv
<1>2. UNCHANGED <<account, minted, black, cached, rows>>
  BY Zenon DEF dbVars
<1>3. step \in Steps
  BY Zenon DEF Steps
<1>4. /\ RequestType' /\ OthersStay(p)
      /\ req'[p].op = op /\ req'[p].step = step /\ req'[p].tok = t
      /\ req'[p].new = 0 /\ req'[p].todo = <<>> /\ req'[p].gone = {}
  BY Zenon, <1>1, <1>2, <1>3, BeginsType
<1>5. BaseType' /\ RowsType' /\ SocketType'
  BY <1>1, <1>2, SocketsSame DEF BaseType, RowsType
<1>6. TypeOK'
  BY Zenon, <1>4, <1>5, TypePartsNext
<1>7. Knows(p)'
  BY Zenon, <1>4 DEF Knows, Capping, Removing, Grants
<1>8. Rows' = Rows
  BY Zenon, <1>2 DEF Rows
<1> QED BY Zenon, <1>2, <1>4, <1>6, <1>7, <1>8, TableStep DEF TableInv, Fresh

\* The steps that begin a request.
LEMMA BeginningsTable ==
  ASSUME TableInv, NEW p \in Requests,
         \/ Login(p) \/ ChangePassword(p) \/ DisableUser(p) \/ DeleteUser(p)
         \/ \E t \in held : Logout(p, t)
  PROVE  TableInv'
<1>0. 0 \in 0 .. minted /\ \A t \in held : t \in 0 .. minted /\ t # 0
  BY Bounds, TypeParts DEF TableInv, BaseType
<1>1. CASE Login(p)
  BY Zenon, <1>0, <1>1, BeginTables DEF Login, Ops
<1>2. CASE ChangePassword(p)
  BY Zenon, <1>0, <1>2, BeginTables DEF ChangePassword, Admin, Ops
<1>3. CASE DisableUser(p)
  BY Zenon, <1>0, <1>3, BeginTables DEF DisableUser, Admin, Ops
<1>4. CASE DeleteUser(p)
  BY Zenon, <1>0, <1>4, BeginTables DEF DeleteUser, Admin, Ops
<1>5. CASE \E t \in held : Logout(p, t)
  BY Zenon, <1>0, <1>5, BeginTables DEF Logout, Ops
<1> QED BY Zenon, <1>1, <1>2, <1>3, <1>4, <1>5

\* Steps that touch no row, request or socket, and only add to what is held, torn
\* or expired.
LEMMA ClientTables ==
  ASSUME TableInv, UNCHANGED <<dbVars, req, sock, late>>, BaseType'
  PROVE  TableInv'
<1>1. BaseType /\ RowsType /\ RequestType /\ SocketType /\ minted \in Nat
  BY Zenon, TypeParts, Bounds DEF TableInv
<1>2. UNCHANGED <<account, minted, black, cached, rows>>
  BY Zenon DEF dbVars
<1>3. RowsType' /\ RequestType' /\ SocketType'
  BY <1>1, <1>2, SocketsSame DEF RowsType, RequestType
<1>4. TypeOK'
  BY Zenon, <1>3, TypePartsNext
<1>5. OneByOne' /\ (\A p \in Requests : Knows(p)') /\ Fresh'
  BY Zenon, <1>2 DEF TableInv, OneByOne, Knows, Capping, Removing, Fresh, Rows
<1> QED BY Zenon, <1>4, <1>5 DEF TableInv

\* A refresh begins, or answers with the cached replacement.
LEMMA RefreshTable ==
  ASSUME TableInv, NEW p \in Requests, NEW t \in held, Refresh(p, t)
  PROVE  TableInv'
<1>1. BaseType /\ minted \in Nat /\ 1 .. minted \subseteq Tokens
  BY Zenon, TypeParts, Bounds DEF TableInv
<1>2. UNCHANGED <<may, dbVars, expired, sock, late, torn>>
  BY Zenon DEF Refresh
<1>3. CASE t \in black
  <2>1. cached[t] # 0 /\ held' = held \cup {cached[t]} /\ UNCHANGED req
    BY Zenon, <1>3 DEF Refresh
  <2>2. t \in Tokens
    BY Zenon, <1>1 DEF BaseType
  <2>3. cached[t] \in 1 .. minted
    BY <1>1, <2>1, <2>2 DEF BaseType
  <2>4. BaseType'
    BY Zenon, <1>1, <1>2, <2>1, <2>3 DEF BaseType, dbVars
  <2> QED BY Zenon, <1>2, <2>1, <2>4, ClientTables
<1>4. CASE t \notin black
  <2>1. Begins(p, "refresh", "check", t) /\ UNCHANGED held
    BY Zenon, <1>4 DEF Refresh
  <2>2. t \in 0 .. minted /\ t # 0
    BY <1>1 DEF BaseType
  <2> QED BY Zenon, <1>2, <2>1, <2>2, BeginTables DEF Ops
<1> QED BY Zenon, <1>3, <1>4

\* A client gets the replacement of an expired token, or a token expires.
LEMMA RefreshExpiredTable ==
  ASSUME TableInv, NEW t \in Tokens, RefreshExpired(t) \/ Expires(t)
  PROVE  TableInv'
<1>1. BaseType /\ minted \in Nat /\ 1 .. minted \subseteq Tokens
  BY Zenon, TypeParts, Bounds DEF TableInv
<1>2. CASE RefreshExpired(t)
  <2>1. cached[t] # 0 /\ held' = held \cup {cached[t]}
        /\ UNCHANGED <<may, dbVars, expired, req, sock, late, torn>>
    BY Zenon, <1>2 DEF RefreshExpired
  <2>2. cached[t] \in 1 .. minted
    BY <1>1, <2>1 DEF BaseType
  <2>3. BaseType'
    BY Zenon, <1>1, <2>1, <2>2 DEF BaseType, dbVars
  <2> QED BY Zenon, <2>1, <2>3, ClientTables
<1>3. CASE Expires(t)
  <2>1. t \in 1 .. minted /\ expired' = expired \cup {t}
        /\ UNCHANGED <<may, dbVars, held, req, sock, late, torn>>
    BY Zenon, <1>3 DEF Expires
  <2>2. BaseType'
    BY Zenon, <1>1, <2>1 DEF BaseType, dbVars
  <2> QED BY Zenon, <2>1, <2>2, ClientTables
<1> QED BY Zenon, <1>2, <1>3

\* A step that leaves the database alone, the sockets well-typed, and moves one
\* request on, or ends it.
LEMMA MoveTables ==
  ASSUME TableInv, NEW p \in Requests, OthersStay(p), RequestType', Knows(p)',
         UNCHANGED <<may, dbVars, held, expired, torn>>, SocketType',
         req'[p].step # "replace",
         req'[p].step \in {"check", "revoke", "unrow"} => req'[p].todo = <<>>
  PROVE  TableInv'
<1>1. BaseType /\ RowsType
  BY Zenon, TypeParts DEF TableInv
<1>2. UNCHANGED <<account, minted, black, cached, rows>>
  BY Zenon DEF dbVars
<1>3. BaseType' /\ RowsType' /\ Rows' = Rows
  BY Zenon, <1>1, <1>2 DEF BaseType, RowsType, Rows
<1>4. TypeOK'
  BY Zenon, <1>3, TypePartsNext
<1> QED BY Zenon, <1>2, <1>3, <1>4, TableStep DEF TableInv, Fresh

\* The checks of a refresh.
LEMMA RefreshChecksTable ==
  ASSUME TableInv, NEW p \in Requests, RefreshChecks(p)
  PROVE  TableInv'
<1>1. RequestType /\ SocketType /\ minted \in Nat /\ OneByOne /\ Knows(p)
  BY Zenon, TypeParts, Bounds DEF TableInv
<1>2. /\ req[p].step = "check"
      /\ Ends(p) \/ Goto(p, "swap") \/ Goto(p, "revoke")
      /\ UNCHANGED <<may, dbVars, held, expired, sock, late, torn>>
  BY Zenon DEF RefreshChecks
<1>3. minted' = minted /\ black' = black /\ SocketType'
  BY SMTT(30), <1>1, <1>2, SocketsSame DEF dbVars
<1>4. CASE Ends(p)
  <2>1. RequestType' /\ OthersStay(p) /\ req'[p] = NoReq
    BY SMTT(30), <1>1, <1>3, <1>4, EndsType
  <2> QED BY Zenon, <1>2, <1>3, <2>1, NoneKnows, MoveTables
<1>5. ASSUME NEW step \in {"swap", "revoke"}, Goto(p, step)
      PROVE  TableInv'
  <2>1. /\ RequestType' /\ OthersStay(p)
        /\ req'[p].op = req[p].op /\ req'[p].step = step /\ req'[p].tok = req[p].tok
        /\ req'[p].todo = req[p].todo /\ req'[p].gone = req[p].gone
    BY Zenon, <1>1, <1>3, <1>5, GotoType DEF Steps
  <2>2. req[p].todo = <<>>
    BY Zenon, <1>1, <1>2 DEF OneByOne
  <2>3. Knows(p)'
    BY Zenon, <1>1, <1>2, <1>3, <2>1, <2>2 DEF Knows, Capping, Removing
  <2> QED BY Zenon, <1>2, <1>3, <2>1, <2>2, <2>3, MoveTables
<1> QED BY Zenon, <1>2, <1>4, <1>5

\* Blocklisting keeps the types.
LEMMA BlocklistType ==
  ASSUME BaseType, minted \in Nat, minted' \in Nat, minted <= minted',
         minted' \in 0 .. MaxTokens,
         NEW t \in 1 .. minted, NEW new \in 0 .. minted', Blocklist(t, new),
         UNCHANGED <<may, account, held, expired, torn>>
  PROVE  BaseType' /\ black' = black \cup {t}
<1>1. black' = black \cup {t}
  BY Zenon DEF Blocklist
<1>2. cached' \in [Tokens -> 0 .. minted']
  <2>1. cached \in [Tokens -> 0 .. minted']
    BY DEF BaseType
  <2>2. CASE t \in black
    BY Zenon, <2>1, <2>2 DEF Blocklist
  <2>3. CASE t \notin black
    BY Zenon, <2>1, <2>3 DEF Blocklist
  <2> QED BY Zenon, <2>2, <2>3
<1> QED BY <1>1, <1>2 DEF BaseType

\* The row of a login.
LEMMA RecordTable ==
  ASSUME TableInv, NEW p \in Requests, RecordSession(p)
  PROVE  TableInv'
<1>1. /\ BaseType /\ RowsType /\ RequestType /\ SocketType /\ minted \in Nat
      /\ Knows(p) /\ MaxTokens \in Nat
  BY Zenon, TypeParts, Bounds DEF TableInv
<1>2. /\ req[p].step = "record" /\ minted < MaxTokens /\ minted' = minted + 1
      /\ UNCHANGED <<may, account, held, expired, black, cached, sock, late, torn>>
      /\ \/ Ends(p) /\ UNCHANGED rows
         \/ rows' = Append(rows, minted + 1) /\ GotoWith(p, "enforce", minted + 1)
  BY Zenon DEF RecordSession
<1>3. /\ minted' \in Nat /\ minted <= minted' /\ minted' \in 0 .. MaxTokens
      /\ minted + 1 \in 1 .. minted' /\ minted + 1 # 0
      /\ 0 .. minted \subseteq 0 .. minted' /\ 1 .. minted \subseteq 1 .. minted'
  BY <1>1, <1>2
<1>4. BaseType' /\ SocketType'
  BY Zenon, <1>1, <1>2, <1>3, SocketsSame DEF BaseType
<1>5. rows \in Seq(1 .. minted') /\ Rows \subseteq 1 .. minted
  BY SMTT(30), <1>1, <1>3, SeqGrows DEF RowsType, Rows, Range
<1>6. CASE Ends(p) /\ UNCHANGED rows
  <2>1. RequestType' /\ OthersStay(p) /\ req'[p] = NoReq
    BY Zenon, <1>1, <1>3, <1>6, EndsType
  <2>2. RowsType' /\ Rows' = Rows
    BY Zenon, <1>1, <1>5, <1>6 DEF RowsType, Rows
  <2>3. TypeOK'
    BY Zenon, <1>4, <2>1, <2>2, TypePartsNext
  <2> QED BY SMTT(30), <1>2, <2>1, <2>2, <2>3, NoneKnows, TableStep DEF TableInv, Fresh, NoReq
<1>7. CASE rows' = Append(rows, minted + 1) /\ GotoWith(p, "enforce", minted + 1)
  <2>1. req[p].todo \in Seq(1 .. minted') /\ req[p].gone \in SUBSET (1 .. minted')
        /\ "enforce" \in Steps /\ minted + 1 \in 0 .. minted'
    BY SMTT(30), <1>1, <1>3, SeqGrows, RequestFields DEF Steps
  <2>2. /\ RequestType' /\ OthersStay(p)
        /\ req'[p].op = req[p].op /\ req'[p].step = "enforce"
        /\ req'[p].new = minted + 1
        /\ req'[p].todo = req[p].todo /\ req'[p].gone = req[p].gone
    BY SMTT(30), <1>1, <1>3, <1>7, <2>1, MovesType DEF GotoWith
  <2>3. minted + 1 \notin Rows
    BY SMTT(30), <1>1, <1>5
  <2>4. RowsType' /\ Rows' = Rows \cup {minted + 1}
    BY SMTT(30), <1>1, <1>3, <1>5, <1>7, <2>3, AppendNew DEF RowsType, Rows
  <2>6. TypeOK'
    BY Zenon, <1>4, <2>2, <2>4, TypePartsNext
  <2>7. Knows(p)'
    BY Zenon, <1>1, <1>2, <1>3, <2>2 DEF Knows, Capping, Removing
  <2>8. \A q \in Requests : q # p /\ req[q].step = "replace" => req[q].new \notin Rows'
    BY SMTT(30), <1>1, <2>4, RequestFields DEF TableInv, Fresh
  <2> QED BY Zenon, <1>2, <2>2, <2>6, <2>7, <2>8, TableStep
<1> QED BY Zenon, <1>2, <1>6, <1>7

\* The first half of a swap.
LEMMA SwapBlocklistsTable ==
  ASSUME TableInv, NEW p \in Requests, SwapBlocklists(p)
  PROVE  TableInv'
<1>1. /\ BaseType /\ RowsType /\ RequestType /\ SocketType /\ minted \in Nat
      /\ Knows(p) /\ MaxTokens \in Nat
  BY Zenon, TypeParts, Bounds DEF TableInv
<1>2. /\ req[p].step = "swap" /\ minted < MaxTokens /\ minted' = minted + 1
      /\ Blocklist(req[p].tok, minted + 1) /\ GotoWith(p, "replace", minted + 1)
      /\ UNCHANGED <<may, account, held, expired, rows, sock, late, torn>>
  BY Zenon DEF SwapBlocklists
<1>3. /\ minted' \in Nat /\ minted <= minted' /\ minted' \in 0 .. MaxTokens
      /\ minted + 1 \in 0 .. minted' /\ minted + 1 # 0
      /\ 0 .. minted \subseteq 0 .. minted' /\ 1 .. minted \subseteq 1 .. minted'
      /\ minted + 1 \notin 0 .. minted
  BY SMTT(30), <1>1, <1>2
<1>4. req[p].tok \in 1 .. minted
  BY <1>1, <1>2, RequestFields DEF Knows
<1>5. BaseType' /\ black' = black \cup {req[p].tok} /\ SocketType'
  BY Zenon, <1>1, <1>2, <1>3, <1>4, BlocklistType, SocketsSame
<1>6. req[p].todo \in Seq(1 .. minted') /\ req[p].gone \in SUBSET (1 .. minted')
      /\ "replace" \in Steps
  BY Zenon, <1>1, <1>3, SeqGrows, RequestFields DEF Steps
<1>7. /\ RequestType' /\ OthersStay(p)
      /\ req'[p].op = req[p].op /\ req'[p].step = "replace" /\ req'[p].tok = req[p].tok
      /\ req'[p].new = minted + 1
      /\ req'[p].todo = req[p].todo /\ req'[p].gone = req[p].gone
  BY SMTT(30), <1>1, <1>2, <1>3, <1>6, MovesType DEF GotoWith
<1>8. RowsType' /\ Rows' = Rows /\ Rows \subseteq 1 .. minted
  BY SMTT(30), <1>1, <1>2, <1>3, SeqGrows DEF RowsType, Rows, Range
<1>9. TypeOK'
  BY Zenon, <1>5, <1>7, <1>8, TypePartsNext
<1>10. Knows(p)'
  BY Zenon, <1>1, <1>2, <1>3, <1>4, <1>5, <1>7 DEF Knows, Capping, Removing
<1>11. \A q \in Requests : q # p /\ req[q].step = "replace" =>
         req[q].new \notin Rows' /\ req[q].new # minted + 1
  BY Zenon, <1>1, <1>3, <1>8, RequestFields DEF TableInv, Fresh
<1>12. minted + 1 \notin Rows'
  BY <1>3, <1>8
<1> QED BY Zenon, <1>5, <1>7, <1>9, <1>10, <1>11, <1>12, TableStep

\* replace_session keeps the rows distinct.
LEMMA ReplacedType ==
  ASSUME NEW m \in Nat, rows \in Seq(1 .. m), IsInjective(rows),
         NEW old, NEW new \in 1 .. m, new \notin Rows
  PROVE  /\ Replaced(old, new) \in Seq(1 .. m) /\ IsInjective(Replaced(old, new))
         /\ Range(Replaced(old, new)) = (Rows \ {old}) \cup {new}
<1> DEFINE r == Replaced(old, new)
<1>0. DOMAIN rows = 1 .. Len(rows) /\ Len(rows) \in Nat
  OBVIOUS
<1>1. CASE old \in Rows
  <2>1. r = [i \in 1 .. Len(rows) |-> IF rows[i] = old THEN new ELSE rows[i]]
    BY Zenon, <1>0, <1>1 DEF Replaced
  <2> HIDE DEF r
  <2>2. r \in Seq(1 .. m) /\ DOMAIN r = 1 .. Len(rows)
    BY <1>0, <2>1
  <2>3. \A i \in 1 .. Len(rows) : rows[i] \in Rows /\ rows[i] # new
    BY Zenon, <1>0 DEF Rows, Range
  <2>4. IsInjective(r)
    BY SMTT(30), <2>1, <2>2, <2>3, <1>0 DEF IsInjective
  <2>5. PICK k \in 1 .. Len(rows) : rows[k] = old
    BY Zenon, <1>0, <1>1 DEF Rows, Range
  <2>6. Range(r) \subseteq (Rows \ {old}) \cup {new}
    BY Zenon, <2>1, <2>2, <2>3 DEF Range
  <2>7. (Rows \ {old}) \cup {new} \subseteq Range(r)
    <3>1. new \in Range(r)
      BY Zenon, <2>1, <2>2, <2>5 DEF Range
    <3>2. ASSUME NEW e \in Rows, e # old PROVE e \in Range(r)
      <4>1. PICK i \in 1 .. Len(rows) : rows[i] = e
        BY Zenon, <1>0 DEF Rows, Range
      <4> QED BY Zenon, <4>1, <3>2, <2>1, <2>2 DEF Range
    <3> QED BY Zenon, <3>1, <3>2
  <2> QED BY Zenon, <2>2, <2>4, <2>6, <2>7 DEF r
<1>2. CASE old \notin Rows
  BY <1>2, AppendNew DEF Replaced, Rows
<1> QED BY Zenon, <1>1, <1>2

\* The second half of a swap.
LEMMA SwapReplacesTable ==
  ASSUME TableInv, NEW p \in Requests, SwapReplaces(p)
  PROVE  TableInv'
<1>1. /\ BaseType /\ RowsType /\ RequestType /\ SocketType /\ minted \in Nat
      /\ Knows(p) /\ Fresh
  BY Zenon, TypeParts, Bounds DEF TableInv
<1>2. /\ req[p].step = "replace"
      /\ UNCHANGED <<may, account, minted, held, expired, black, cached, sock, late, torn>>
      /\ \/ Ends(p) /\ UNCHANGED rows
         \/ rows' = Replaced(req[p].tok, req[p].new) /\ Goto(p, "retarget")
  BY Zenon DEF SwapReplaces
<1>3. BaseType' /\ SocketType'
  BY SMTT(30), <1>1, <1>2, SocketsSame DEF BaseType
<1>4. CASE Ends(p) /\ UNCHANGED rows
  <2>1. RequestType' /\ OthersStay(p) /\ req'[p] = NoReq
    BY SMTT(30), <1>1, <1>2, <1>4, EndsType
  <2>2. RowsType' /\ Rows' = Rows
    BY Zenon, <1>1, <1>2, <1>4 DEF RowsType, Rows
  <2>3. TypeOK'
    BY Zenon, <1>3, <2>1, <2>2, TypePartsNext
  <2> QED BY Zenon, <1>2, <2>1, <2>2, <2>3, NoneKnows, TableStep DEF TableInv, Fresh
<1>5. CASE rows' = Replaced(req[p].tok, req[p].new) /\ Goto(p, "retarget")
  <2>1. req[p].new \in 1 .. minted /\ req[p].new \notin Rows
    BY Zenon, <1>1, <1>2, NamesMinted DEF Knows, Fresh
  <2>2. RowsType' /\ Rows' = (Rows \ {req[p].tok}) \cup {req[p].new}
    <3>1. rows \in Seq(1 .. minted) /\ IsInjective(rows)
      BY Zenon, <1>1 DEF RowsType
    <3>2. /\ rows' \in Seq(1 .. minted) /\ IsInjective(rows')
          /\ Range(rows') = (Rows \ {req[p].tok}) \cup {req[p].new}
      BY Zenon, <1>1, <1>5, <2>1, <3>1, ReplacedType
    <3> QED BY Zenon, <1>2, <3>2 DEF RowsType, Rows
  <2>3. /\ RequestType' /\ OthersStay(p)
        /\ req'[p].op = req[p].op /\ req'[p].step = "retarget"
        /\ req'[p].new = req[p].new
        /\ req'[p].todo = req[p].todo /\ req'[p].gone = req[p].gone
    BY Zenon, <1>1, <1>2, <1>5, GotoType DEF Steps
  <2>4. TypeOK'
    BY Zenon, <1>3, <2>2, <2>3, TypePartsNext
  <2>5. Knows(p)'
    BY Zenon, <1>1, <1>2, <2>3 DEF Knows, Capping, Removing
  <2>6. \A q \in Requests : q # p /\ req[q].step = "replace" => req[q].new \notin Rows'
    BY Zenon, <1>1, <1>2, <2>2 DEF Fresh
  <2> QED BY Zenon, <1>2, <2>3, <2>4, <2>5, <2>6, TableStep
<1> QED BY Zenon, <1>2, <1>4, <1>5

\* A request fails on the database halfway through its writes.
LEMMA FailureTable ==
  ASSUME TableInv, NEW p \in Requests, SwapReplaceFails(p) \/ RevokeRemoveFails(p)
  PROVE  TableInv'
<1>1. /\ BaseType /\ RowsType /\ RequestType /\ SocketType /\ minted \in Nat
      /\ Knows(p) /\ Fresh
  BY Zenon, TypeParts, Bounds DEF TableInv
<1>2. /\ Ends(p)
      /\ torn' = torn \/ (req[p].step = "replace" /\ torn' = torn \cup {req[p].new})
      /\ late' = late \cup OnJti(AllSockets, req[p].tok)
      /\ UNCHANGED <<may, account, minted, held, expired, black, cached, rows, sock>>
  BY Zenon DEF SwapReplaceFails, RevokeRemoveFails, dbVars
<1>3. req[p].step = "replace" => req[p].new \in 1 .. minted
  BY Zenon, <1>1, NamesMinted DEF Knows
<1>4. BaseType'
  BY Zenon, <1>1, <1>2, <1>3 DEF BaseType
<1>5. RowsType' /\ Rows' = Rows
  BY Zenon, <1>1, <1>2 DEF RowsType, Rows
<1>6. SocketType'
  BY Zenon, <1>1, <1>2 DEF SocketType, OnJti, Open
<1>7. RequestType' /\ OthersStay(p) /\ req'[p] = NoReq
  BY SMTT(30), <1>1, <1>2, EndsType
<1>8. TypeOK'
  BY Zenon, <1>4, <1>5, <1>6, <1>7, TypePartsNext
<1> QED BY Zenon, <1>2, <1>5, <1>7, <1>8, NoneKnows, TableStep DEF TableInv, Fresh

\* The sockets that are left, or filed anew, are sockets of minted tokens.
LEMMA CloseType ==
  ASSUME SocketType, minted \in Nat, minted' = minted, NEW some, Close(some)
  PROVE  SocketType'
<1>1. NoSock \in [step : {"none", "checked", "authed", "open"}, jti : 0 .. minted]
  BY DEF NoSock
<1> QED BY Zenon, <1>1 DEF SocketType, Close, Open

\* The sockets move to the new jti.
LEMMA SwapRetargetsTable ==
  ASSUME TableInv, NEW p \in Requests, SwapRetargets(p)
  PROVE  TableInv'
<1> DEFINE moved == OnJti(AllSockets, req[p].tok)
<1>1. RequestType /\ SocketType /\ minted \in Nat /\ Knows(p)
  BY Zenon, TypeParts, Bounds DEF TableInv
<1>2. /\ req[p].step = "retarget" /\ Goto(p, "enforce")
      /\ UNCHANGED <<may, dbVars, held, expired, torn>>
      /\ sock' = [s \in AllSockets |->
                    IF s \in moved THEN Filed(req[p].new) ELSE sock[s]]
      /\ late' \subseteq late \cup moved
  BY Zenon DEF SwapRetargets
<1>3. minted' = minted /\ black' = black
  BY ZenonT(30), <1>2 DEF dbVars
<1>4. /\ RequestType' /\ OthersStay(p)
      /\ req'[p].op = req[p].op /\ req'[p].step = "enforce"
      /\ req'[p].new = req[p].new
      /\ req'[p].todo = req[p].todo /\ req'[p].gone = req[p].gone
  BY Zenon, <1>1, <1>2, <1>3, GotoType DEF Steps
<1>5. Knows(p)'
  BY Zenon, <1>1, <1>2, <1>3, <1>4 DEF Knows, Capping, Removing
<1>6. SocketType'
  <2>1. Filed(req[p].new) \in [step : {"none", "checked", "authed", "open"},
                               jti : 0 .. minted]
    BY Zenon, <1>1, RequestFields DEF Filed
  <2>2. moved \subseteq AllSockets
    BY Zenon DEF OnJti
  <2>3. Filed(req[p].new).step = "open"
    BY Zenon DEF Filed
  <2> HIDE DEF moved
  <2> QED BY Zenon, <1>1, <1>2, <1>3, <2>1, <2>2, <2>3 DEF SocketType, Open
<1> QED BY Zenon, <1>2, <1>4, <1>5, <1>6, MoveTables

\* The steps that close sockets.
LEMMA CloseTables ==
  ASSUME TableInv, NEW p \in Requests,
         KickSockets(p) \/ KickDeciders(p) \/ CutSockets(p) \/ CutDeciders(p)
  PROVE  TableInv'
<1>1. RequestType /\ SocketType /\ minted \in Nat /\ Knows(p)
  BY Zenon, TypeParts, Bounds DEF TableInv
<1>2. UNCHANGED <<may, dbVars, held, expired, torn>> /\ \E some : Close(some)
  BY Zenon DEF KickSockets, KickDeciders, CutSockets, CutDeciders
<1>3. minted' = minted /\ black' = black /\ SocketType'
  BY ZenonT(30), <1>1, <1>2, CloseType DEF dbVars
<1>4. ASSUME Ends(p) PROVE TableInv'
  <2>1. RequestType' /\ OthersStay(p) /\ req'[p] = NoReq
    BY SMTT(30), <1>1, <1>3, <1>4, EndsType
  <2> QED BY Zenon, <1>2, <1>3, <2>1, NoneKnows, MoveTables
<1>5. CASE KickSockets(p)
  <2>1. req[p].step = "kick" /\ Goto(p, "kick2")
    BY Zenon, <1>5 DEF KickSockets
  <2>2. /\ RequestType' /\ OthersStay(p)
        /\ req'[p].op = req[p].op /\ req'[p].step = "kick2" /\ req'[p].tok = req[p].tok
        /\ req'[p].new = req[p].new
        /\ req'[p].todo = req[p].todo /\ req'[p].gone = req[p].gone
    BY Zenon, <1>1, <1>3, <2>1, GotoType DEF Steps
  <2>3. Knows(p)'
    BY Zenon, <1>1, <1>3, <2>1, <2>2 DEF Knows, Capping, Removing
  <2> QED BY Zenon, <1>2, <1>3, <2>2, <2>3, MoveTables
<1>6. CASE KickDeciders(p) /\ req[p].todo # <<>>
  <2> DEFINE step == IF Len(req[p].todo) = 1 THEN "drop" ELSE "block"
  <2>1. req[p].step = "kick2" /\ Moves(p, step, req[p].new, Tail(req[p].todo), req[p].gone)
    BY Zenon, <1>6 DEF KickDeciders
  <2>2. req[p].todo \in Seq(1 .. minted)
    BY Zenon, <1>1, RequestFields
  <2>3. /\ Tail(req[p].todo) \in Seq(1 .. minted)
        /\ Len(req[p].todo) = 1 => Tail(req[p].todo) = <<>>
        /\ Range(req[p].todo) = {Head(req[p].todo)} \cup Range(Tail(req[p].todo))
    BY Zenon, <1>6, <2>2, HeadAndTail
  <2>4. step \in Steps /\ step \in {"drop", "block"}
    BY Zenon DEF Steps
  <2>5. step = "drop" => Tail(req[p].todo) = <<>>
    BY Zenon, <2>3
  <2> HIDE DEF step
  <2>6. /\ RequestType' /\ OthersStay(p)
        /\ req'[p].op = req[p].op /\ req'[p].step = step /\ req'[p].tok = req[p].tok
        /\ req'[p].new = req[p].new
        /\ req'[p].todo = Tail(req[p].todo) /\ req'[p].gone = req[p].gone
    BY SMTT(30), <1>1, <1>3, <2>1, <2>3, <2>4, MovesType, RequestFields
  <2>7. Knows(p)'
    BY Zenon, <1>1, <1>3, <1>6, <2>1, <2>3, <2>4, <2>5, <2>6 DEF Knows, Capping, Removing
  <2> QED BY Zenon, <1>2, <1>3, <2>4, <2>6, <2>7, MoveTables
<1>7. CASE KickDeciders(p) /\ req[p].todo = <<>>
  BY Zenon, <1>4, <1>7 DEF KickDeciders
<1>8. CASE CutSockets(p)
  <2>1. req[p].step = "cut" /\ Goto(p, "cut2")
    BY Zenon, <1>8 DEF CutSockets
  <2>2. /\ RequestType' /\ OthersStay(p)
        /\ req'[p].op = req[p].op /\ req'[p].step = "cut2" /\ req'[p].tok = req[p].tok
        /\ req'[p].todo = req[p].todo /\ req'[p].gone = req[p].gone
    BY Zenon, <1>1, <1>3, <2>1, GotoType DEF Steps
  <2>3. Knows(p)'
    BY Zenon, <1>1, <1>3, <2>1, <2>2 DEF Knows, Capping, Removing
  <2> QED BY Zenon, <1>2, <1>3, <2>2, <2>3, MoveTables
<1>9. CASE CutDeciders(p)
  BY Zenon, <1>4, <1>9 DEF CutDeciders
<1> QED BY Zenon, <1>5, <1>6, <1>7, <1>8, <1>9

\* A step that only takes rows away, and moves one request on or ends it.
LEMMA RowsLeaveTables ==
  ASSUME TableInv, NEW p \in Requests, OthersStay(p), RequestType', Knows(p)',
         UNCHANGED <<may, minted, expired, black, cached, torn, sock, late>>,
         held' \subseteq 1 .. minted, account' \in {"active", "disabled", "deleted"},
         RowsType', Rows' \subseteq Rows,
         req'[p].step \notin {"replace", "check", "revoke", "unrow"}
  PROVE  TableInv'
<1>1. BaseType /\ SocketType /\ minted \in Nat
  BY Zenon, TypeParts, Bounds DEF TableInv
<1>2. BaseType' /\ SocketType'
  BY <1>1, SocketsSame DEF BaseType
<1>3. TypeOK'
  BY Zenon, <1>2, TypePartsNext
<1> QED BY Zenon, <1>3, TableStep DEF TableInv, Fresh

\* Deleting rows.
LEMMA WithoutType ==
  ASSUME WellOrdered, RowsType, NEW gone
  PROVE  /\ Without(rows, gone) \in Seq(1 .. minted) /\ IsInjective(Without(rows, gone))
         /\ Range(Without(rows, gone)) = Rows \ gone
BY Zenon, FilterType DEF RowsType, Without, Rows

\* The cap is enforced: the first victims of the list are to go.
LEMMA EnforceTable ==
  ASSUME WellOrdered, TableInv, NEW p \in Requests, EnforceLimit(p)
  PROVE  TableInv'
<1>1. /\ BaseType /\ RowsType /\ RequestType /\ SocketType /\ minted \in Nat
      /\ Knows(p) /\ Limit \in Nat
  BY Zenon, TypeParts, Bounds DEF TableInv
<1> DEFINE live == Without(rows, expired)
           victims == SubSeq(live, 1, Len(live) - Limit)
<1>2. /\ req[p].step = "enforce" /\ rows' = live
      /\ UNCHANGED <<may, account, minted, expired, black, cached, sock, late, torn>>
      /\ \/ Len(live) > Limit /\ Revokes(p, victims) /\ UNCHANGED held
         \/ Returns(p)
  BY Zenon DEF EnforceLimit, Victims
<1>3. /\ live \in Seq(1 .. minted) /\ IsInjective(live) /\ Range(live) = Rows \ expired
  BY Zenon, <1>1, WithoutType
<1>4. RowsType' /\ Rows' \subseteq Rows
  BY Zenon, <1>2, <1>3 DEF RowsType, Rows
<1>5. CASE Returns(p)
  <2>1. RequestType' /\ OthersStay(p) /\ req'[p] = NoReq
    BY SMTT(30), <1>1, <1>2, <1>5, EndsType DEF Returns
  <2>2. held' \subseteq 1 .. minted
    <3>1. req[p].new \in 1 .. minted
      BY <1>1, <1>2, RequestFields DEF Knows
    <3> QED BY Zenon, <1>1, <1>5, <3>1 DEF Returns, BaseType
  <2> QED BY Zenon, <1>1, <1>2, <1>4, <2>1, <2>2, NoneKnows, RowsLeaveTables DEF BaseType
<1>6. CASE Len(live) > Limit /\ Revokes(p, victims) /\ UNCHANGED held
  <2>1. victims \in Seq(1 .. minted)
    BY SMTT(30), <1>1, <1>3, <1>6
  <2>2. Range(victims) \subseteq 1 .. minted
    BY <2>1 DEF Range
  <2> HIDE DEF victims, live
  <2>3. /\ RequestType' /\ OthersStay(p)
        /\ req'[p].op = req[p].op /\ req'[p].step = "block" /\ req'[p].tok = req[p].tok
        /\ req'[p].new = req[p].new
        /\ req'[p].todo = victims /\ req'[p].gone = Range(victims)
    BY Zenon, <1>1, <1>2, <1>6, <2>1, <2>2, RevokesType
  <2>4. Knows(p)'
    BY Zenon, <1>1, <1>2, <2>3 DEF Knows, Capping, Removing
  <2> QED BY Zenon, <1>1, <1>2, <1>4, <1>6, <2>3, <2>4, RowsLeaveTables DEF BaseType
<1> QED BY Zenon, <1>2, <1>5, <1>6

\* All rows of the user are to go.
LEMMA RevokeAllTable ==
  ASSUME TableInv, NEW p \in Requests, RevokeAll(p)
  PROVE  TableInv'
<1>1. RowsType /\ RequestType /\ SocketType /\ minted \in Nat /\ Knows(p)
  BY Zenon, TypeParts, Bounds DEF TableInv
<1>2. /\ req[p].step = "list"
      /\ UNCHANGED <<may, dbVars, held, expired, sock, late, torn>>
      /\ Ends(p) \/ Goto(p, "flag") \/ Revokes(p, rows)
  BY Zenon DEF RevokeAll, AfterRevokes
<1>3. minted' = minted /\ black' = black /\ SocketType'
  <2>1. minted' = minted /\ black' = black
    BY Zenon, <1>2 DEF dbVars
  <2>2. UNCHANGED <<sock, late>> /\ minted' \in Nat /\ minted <= minted'
    BY <1>1, <1>2, <2>1
  <2> QED BY Zenon, <1>1, <2>1, <2>2, SocketsSame
<1>4. CASE Ends(p)
  <2>1. RequestType' /\ OthersStay(p) /\ req'[p] = NoReq
    BY SMTT(30), <1>1, <1>3, <1>4, EndsType
  <2> QED BY Zenon, <1>2, <1>3, <2>1, NoneKnows, MoveTables
<1>5. CASE Goto(p, "flag")
  <2>1. /\ RequestType' /\ OthersStay(p)
        /\ req'[p].op = req[p].op /\ req'[p].step = "flag"
        /\ req'[p].todo = req[p].todo /\ req'[p].gone = req[p].gone
    BY Zenon, <1>1, <1>3, <1>5, GotoType DEF Steps
  <2>2. Knows(p)'
    BY Zenon, <1>1, <1>2, <1>3, <2>1 DEF Knows, Capping, Removing
  <2> QED BY Zenon, <1>2, <1>3, <2>1, <2>2, MoveTables
<1>6. CASE Revokes(p, rows)
  <2>1. rows \in Seq(1 .. minted) /\ Range(rows) \subseteq 1 .. minted
    BY SMTT(30), <1>1 DEF RowsType, Range
  <2>2. /\ RequestType' /\ OthersStay(p)
        /\ req'[p].op = req[p].op /\ req'[p].step = "block"
        /\ req'[p].todo = rows /\ req'[p].gone = Range(rows)
    BY Zenon, <1>1, <1>3, <1>6, <2>1, RevokesType
  <2>3. Knows(p)'
    BY Zenon, <1>1, <1>2, <1>3, <2>2 DEF Knows, Capping, Removing
  <2> QED BY Zenon, <1>2, <1>3, <2>2, <2>3, MoveTables
<1> QED BY Zenon, <1>2, <1>4, <1>5, <1>6

\* Blocklisting the next victim, or the session that logs out.
LEMMA BlocklistTables ==
  ASSUME TableInv, NEW p \in Requests, BlocklistNext(p) \/ RevokeBlocklists(p)
  PROVE  TableInv'
<1>1. /\ BaseType /\ RowsType /\ RequestType /\ SocketType /\ minted \in Nat
      /\ Knows(p) /\ OneByOne
  BY Zenon, TypeParts, Bounds DEF TableInv
<1>2. UNCHANGED <<may, account, minted, held, expired, rows, sock, late, torn>>
  BY Zenon DEF BlocklistNext, RevokeBlocklists
<1>3. RowsType' /\ SocketType' /\ Rows' = Rows /\ minted' \in 0 .. MaxTokens
  BY <1>1, <1>2, SocketsSame DEF RowsType, Rows, BaseType
<1>4. PICK t \in 1 .. minted, step \in {"kick", "unrow"} :
        /\ Blocklist(t, 0) /\ Goto(p, step)
        /\ step = "kick" => req[p].step = "block" /\ req[p].todo # <<>> /\ t = Head(req[p].todo)
        /\ step = "unrow" => req[p].step = "revoke" /\ t = req[p].tok
  <2>1. CASE BlocklistNext(p)
    <3>1. req[p].todo \in Seq(1 .. minted) /\ req[p].todo # <<>>
      BY Zenon, <1>1, <2>1, RequestFields DEF BlocklistNext
    <3>2. Head(req[p].todo) \in 1 .. minted
      BY Zenon, <3>1, HeadType
    <3> QED BY Zenon, <2>1, <3>2 DEF BlocklistNext
  <2>2. CASE RevokeBlocklists(p)
    <3>1. req[p].tok \in 1 .. minted
      BY Zenon, <1>1, <2>2, NamesMinted DEF RevokeBlocklists, Knows
    <3> QED BY Zenon, <2>2, <3>1 DEF RevokeBlocklists
  <2> QED BY Zenon, <2>1, <2>2
<1>5. BaseType' /\ black' = black \cup {t}
  <2>1. minted' \in Nat /\ minted <= minted' /\ 0 \in 0 .. minted'
    BY <1>1, <1>2
  <2> QED BY Zenon, <1>1, <1>2, <1>3, <1>4, <2>1, BlocklistType
<1>6. /\ RequestType' /\ OthersStay(p)
      /\ req'[p].op = req[p].op /\ req'[p].step = step /\ req'[p].tok = req[p].tok
      /\ req'[p].new = req[p].new
      /\ req'[p].todo = req[p].todo /\ req'[p].gone = req[p].gone
  BY Zenon, <1>1, <1>2, <1>4, GotoType DEF Steps
<1>7. TypeOK'
  BY Zenon, <1>3, <1>5, <1>6, TypePartsNext
<1>8. step = "unrow" => req[p].todo = <<>>
  BY Zenon, <1>1, <1>4 DEF OneByOne
<1>9. Knows(p)'
  BY Zenon, <1>1, <1>4, <1>5, <1>6, <1>8 DEF Knows, Capping, Removing
<1> QED BY Zenon, <1>3, <1>4, <1>5, <1>6, <1>7, <1>8, <1>9, TableStep DEF TableInv, Fresh

\* Deleting the rows of the victims, or the row of the session that logs out.
LEMMA RemoveTables ==
  ASSUME WellOrdered, TableInv, NEW p \in Requests, RemoveSessions(p) \/ RevokeRemoves(p)
  PROVE  TableInv'
<1>1. /\ BaseType /\ RowsType /\ RequestType /\ SocketType /\ minted \in Nat
      /\ Knows(p) /\ OneByOne
  BY Zenon, TypeParts, Bounds DEF TableInv
<1>2. /\ UNCHANGED <<may, account, minted, expired, black, cached, sock, late, torn>>
      /\ \E gone : rows' = Without(rows, gone)
  BY Zenon DEF RemoveSessions, RevokeRemoves
<1>3. RowsType' /\ Rows' \subseteq Rows
  BY Zenon, <1>1, <1>2, WithoutType DEF RowsType, Rows
<1>4. CASE RemoveSessions(p) /\ Ends(p)
  <2>1. RequestType' /\ OthersStay(p) /\ req'[p] = NoReq
    BY SMTT(30), <1>1, <1>2, <1>4, EndsType
  <2>2. req[p].op \in Grants => req[p].new \in 1 .. minted
    BY Zenon, <1>1, <1>4, NamesMinted DEF RemoveSessions, Knows, Capping, Removing
  <2>3. held' \subseteq 1 .. minted
    BY Zenon, <1>1, <1>4, <2>2 DEF RemoveSessions, Returns, BaseType, Grants
  <2> QED BY Zenon, <1>1, <1>2, <1>3, <2>1, <2>3, NoneKnows, RowsLeaveTables DEF BaseType
<1>5. ASSUME NEW step \in {"flag", "kick"}, Goto(p, step), UNCHANGED held,
             req[p].step = "drop" \/ (req[p].step = "unrow" /\ req[p].todo = <<>>),
             step = "kick" => req[p].step = "unrow"
      PROVE  TableInv'
  <2>1. /\ RequestType' /\ OthersStay(p)
        /\ req'[p].op = req[p].op /\ req'[p].step = step /\ req'[p].tok = req[p].tok
        /\ req'[p].todo = req[p].todo /\ req'[p].gone = req[p].gone
    BY Zenon, <1>1, <1>2, <1>5, GotoType DEF Steps
  <2>2. Knows(p)'
    BY Zenon, <1>1, <1>2, <1>5, <2>1 DEF Knows, Capping, Removing
  <2> QED BY ZenonT(30), <1>1, <1>2, <1>3, <1>5, <2>1, <2>2, RowsLeaveTables DEF BaseType
<1>6. CASE RemoveSessions(p) /\ ~Ends(p)
  BY Zenon, <1>5, <1>6 DEF RemoveSessions, Returns, AfterRevokes
<1>7. CASE RevokeRemoves(p)
  BY Zenon, <1>1, <1>5, <1>7 DEF RevokeRemoves, OneByOne
<1> QED BY Zenon, <1>4, <1>6, <1>7

\* Disabling or deleting the account.
LEMMA SetAccountTable ==
  ASSUME TableInv, NEW p \in Requests, SetAccount(p)
  PROVE  TableInv'
<1>1. BaseType /\ RowsType /\ RequestType /\ minted \in Nat /\ Knows(p)
  BY Zenon, TypeParts, Bounds DEF TableInv
<1>2. /\ req[p].step = "flag" /\ Goto(p, "cut")
      /\ UNCHANGED <<may, minted, held, expired, black, cached, sock, late, torn>>
      /\ account' \in {"active", "disabled", "deleted"}
      /\ rows' \in {<<>>, rows}
  BY Zenon DEF SetAccount
<1>3. RowsType' /\ Rows' \subseteq Rows
  <2>1. CASE rows' = rows
    BY Zenon, <1>1, <1>2, <2>1 DEF RowsType, Rows
  <2>2. CASE rows' = <<>>
    <3>1. <<>> \in Seq(1 .. minted) /\ IsInjective(<<>>) /\ Range(<<>>) = {}
      BY SMTT(30) DEF IsInjective, Range
    <3> QED BY Zenon, <1>2, <2>2, <3>1 DEF RowsType, Rows
  <2> QED BY Zenon, <1>2, <2>1, <2>2
<1>4. /\ RequestType' /\ OthersStay(p)
      /\ req'[p].op = req[p].op /\ req'[p].step = "cut" /\ req'[p].tok = req[p].tok
      /\ req'[p].todo = req[p].todo /\ req'[p].gone = req[p].gone
  BY Zenon, <1>1, <1>2, GotoType DEF Steps
<1>5. Knows(p)'
  BY Zenon, <1>1, <1>2, <1>4 DEF Knows, Capping, Removing
<1> QED BY Zenon, <1>1, <1>2, <1>3, <1>4, <1>5, RowsLeaveTables DEF BaseType

\* The sockets' own steps.
LEMMA SocketTables ==
  ASSUME TableInv, NEW s \in AllSockets, SocketStep(s)
  PROVE  TableInv'
<1> DEFINE SockOf == [step : {"none", "checked", "authed", "open"}, jti : 0 .. minted]
<1>1. /\ BaseType /\ RowsType /\ RequestType /\ SocketType /\ minted \in Nat
  BY Zenon, TypeParts, Bounds DEF TableInv
<1>2. UNCHANGED <<may, dbVars, held, expired, req, torn>>
  BY Zenon DEF SocketStep, Connect, ConnectReadsUser, RegisterSocket, SocketEnds
<1>3. UNCHANGED <<account, minted, black, cached, rows>>
  BY Zenon, <1>2 DEF dbVars
<1>4. ASSUME NEW r \in SockOf, sock' = [sock EXCEPT ![s] = r], ~Open(s),
             late' = late \/ (r.step = "open" /\ late' = late \cup {s})
      PROVE  SocketType'
  <2>1. sock' \in [AllSockets -> SockOf]
    BY Zenon, <1>1, <1>4 DEF SocketType
  <2>2. \A u \in AllSockets : u # s => sock'[u] = sock[u]
    BY Zenon, <1>1, <1>4 DEF SocketType
  <2>3. sock'[s] = r /\ s \notin late
    BY Zenon, <1>1, <1>4 DEF SocketType
  <2>4. late' \subseteq {u \in AllSockets : Open(u)'}
    BY <1>1, <1>4, <2>2, <2>3 DEF SocketType, Open
  <2> QED BY Zenon, <1>3, <2>1, <2>4 DEF SocketType
<1>5. SocketType'
  <2>1. CASE \E t \in held : Connect(s, t)
    <3>1. PICK t \in held : Connect(s, t)
      BY Zenon, <2>1
    <3>2. [step |-> "checked", jti |-> t] \in SockOf
      BY <1>1 DEF BaseType
    <3> QED BY Zenon, <1>4, <3>1, <3>2 DEF Connect, Open
  <2>2. CASE ConnectReadsUser(s)
    <3> DEFINE r == IF account = "active" THEN [step |-> "authed", jti |-> sock[s].jti]
                    ELSE NoSock
    <3>1. r \in SockOf
      BY <1>1 DEF SocketType, NoSock
    <3>2. sock' = [sock EXCEPT ![s] = r] /\ late' = late /\ ~Open(s)
      BY Zenon, <2>2 DEF ConnectReadsUser, Open
    <3> HIDE DEF r, SockOf
    <3> QED BY Zenon, <1>4, <3>1, <3>2
  <2>3. CASE RegisterSocket(s)
    <3>1. Filed(sock[s].jti) \in SockOf /\ Filed(sock[s].jti).step = "open"
      BY Zenon, <1>1 DEF SocketType, Filed
    <3>2. /\ sock' = [sock EXCEPT ![s] = Filed(sock[s].jti)] /\ ~Open(s)
          /\ late' = late \/ late' = late \cup {s}
      BY Zenon, <2>3 DEF RegisterSocket, Open
    <3> HIDE DEF SockOf
    <3> QED BY Zenon, <1>4, <3>1, <3>2
  <2>4. CASE SocketEnds(s)
    BY Zenon, <1>1, <1>3, <2>4, CloseType DEF SocketEnds
  <2> QED BY Zenon, <2>1, <2>2, <2>3, <2>4 DEF SocketStep
<1>6. BaseType' /\ RowsType' /\ RequestType'
  BY Zenon, <1>1, <1>2, <1>3 DEF BaseType, RowsType, RequestType
<1>7. TypeOK'
  BY Zenon, <1>5, <1>6, TypePartsNext
<1>8. OneByOne' /\ (\A p \in Requests : Knows(p)') /\ Fresh'
  BY Zenon, <1>2, <1>3 DEF TableInv, OneByOne, Knows, Capping, Removing, Fresh, Rows
<1> QED BY Zenon, <1>7, <1>8 DEF TableInv

\* A crash ends every request and every socket.
LEMMA CrashTable ==
  ASSUME TableInv, Crash
  PROVE  TableInv'
<1>1. /\ BaseType /\ RowsType /\ RequestType /\ SocketType /\ minted \in Nat
      /\ \A p \in Requests : Knows(p)
  BY Zenon, TypeParts, Bounds DEF TableInv
<1>2. /\ torn' = torn \cup {req[p].new : p \in {q \in Requests : req[q].step = "replace"}}
      /\ req' = [p \in Requests |-> NoReq]
      /\ sock' = [s \in AllSockets |-> NoSock]
      /\ late' = {}
      /\ UNCHANGED <<may, account, minted, black, cached, rows, held, expired>>
  BY Zenon DEF Crash, dbVars
<1>3. \A p \in Requests : req[p].step = "replace" => req[p].new \in 1 .. minted
  BY Zenon, <1>1, NamesMinted DEF Knows
<1>4. BaseType' /\ RowsType'
  BY Zenon, <1>1, <1>2, <1>3 DEF BaseType, RowsType
<1>5. NoReq \in RequestOf(minted)
  BY SMTT(30), <1>1 DEF NoReq, RequestOf, Ops, Steps
<1>6. RequestType' /\ SocketType'
  <2>1. NoSock \in [step : {"none", "checked", "authed", "open"}, jti : 0 .. minted]
    BY <1>1 DEF NoSock
  <2> QED BY Zenon, <1>2, <1>5, <2>1 DEF RequestType, SocketType
<1>7. TypeOK'
  BY Zenon, <1>4, <1>6, TypePartsNext
<1>8. \A p \in Requests : req'[p] = NoReq
  BY Zenon, <1>2
<1>9. OneByOne' /\ (\A p \in Requests : Knows(p)') /\ Fresh'
  BY <1>8, NoneKnows DEF OneByOne, Fresh, NoReq
<1> QED BY Zenon, <1>7, <1>9 DEF TableInv

\* TableInv holds initially.
LEMMA TableInit == Init => TableInv
<1> SUFFICES ASSUME Init PROVE TableInv
  OBVIOUS
<1>1. MaxTokens \in Nat /\ NoReq \in RequestOf(0)
  BY SMTT(30), SessionsAssumption DEF NoReq, RequestOf, Ops, Steps
<1>2. BaseType /\ RequestType /\ SocketType
  BY <1>1 DEF Init, BaseType, RequestType, SocketType, NoSock
<1>3. RowsType
  BY DEF Init, RowsType, IsInjective
<1>4. TypeOK
  BY Zenon, <1>2, <1>3, TypeParts
<1>5. OneByOne /\ Fresh
  BY Zenon DEF Init, OneByOne, Fresh, NoReq
<1>6. \A p \in Requests : Knows(p)
  BY Zenon DEF Init, Knows, Capping, Removing, NoReq, Grants
<1> QED BY Zenon, <1>4, <1>5, <1>6 DEF TableInv

\* Every step keeps TableInv.
LEMMA TableKept ==
  ASSUME WellOrdered, TableInv, [Next]_vars
  PROVE  TableInv'
<1>1. CASE \E p \in Requests : RequestStep(p)
  <2>1. PICK p \in Requests : RequestStep(p)
    BY Zenon, <1>1
  <2> QED BY Zenon, <2>1, BeginningsTable, RefreshTable, RefreshChecksTable, RecordTable,
             SwapBlocklistsTable, SwapReplacesTable, SwapRetargetsTable, CloseTables,
             EnforceTable, RevokeAllTable, BlocklistTables, RemoveTables, SetAccountTable,
             FailureTable
          DEF RequestStep
<1>2. CASE \E s \in AllSockets : SocketStep(s)
  BY Zenon, <1>2, SocketTables
<1>3. CASE \E t \in Tokens : RefreshExpired(t) \/ Expires(t)
  BY Zenon, <1>3, RefreshExpiredTable
<1>4. CASE Crash
  BY Zenon, <1>4, CrashTable
<1>5. CASE UNCHANGED vars
  <2>1. BaseType'
    BY Zenon, <1>5, TypeParts DEF TableInv, BaseType, vars, dbVars
  <2> QED BY Zenon, <1>5, <2>1, ClientTables DEF vars
<1> QED BY Zenon, <1>1, <1>2, <1>3, <1>4, <1>5 DEF Next

-----------------------------------------------------------------------------
(* A live token has its row.                                               *)

\* A step of one request leaves the other requests alone.
LEMMA StepOfOne ==
  ASSUME TableInv, NEW p \in Requests, RequestStep(p)
  PROVE  OthersStay(p)
<1>1. Shape
  BY Zenon DEF TableInv, TypeOK, Shape
<1>2. (\E step, new, todo, gone : Moves(p, step, new, todo, gone)) => OthersStay(p)
  BY Zenon, <1>1, MovesOne
<1>3. (\E op, step, t : Begins(p, op, step, t)) => OthersStay(p)
  BY Zenon, <1>1, BeginsOne
<1>4. Ends(p) => OthersStay(p)
  BY Zenon, <1>1, EndsOne
<1>5. req' = req => OthersStay(p)
  BY Zenon, <1>1 DEF Shape, OthersStay
<1>6. CASE \/ Login(p) \/ ChangePassword(p) \/ DisableUser(p) \/ DeleteUser(p)
           \/ \E t \in held : Refresh(p, t) \/ Logout(p, t)
  BY Zenon, <1>3, <1>5, <1>6 DEF Login, ChangePassword, DisableUser, DeleteUser, Admin,
     Refresh, Logout
<1>7. CASE \/ RecordSession(p) \/ RefreshChecks(p) \/ SwapBlocklists(p)
           \/ SwapReplaces(p) \/ SwapRetargets(p)
  BY Zenon, <1>2, <1>4, <1>7 DEF RecordSession, RefreshChecks, SwapBlocklists, SwapReplaces,
     SwapRetargets, Goto, GotoWith
<1>8. CASE \/ EnforceLimit(p) \/ RevokeAll(p) \/ BlocklistNext(p)
           \/ KickSockets(p) \/ KickDeciders(p) \/ RemoveSessions(p)
  BY Zenon, <1>2, <1>4, <1>8 DEF EnforceLimit, RevokeAll, BlocklistNext, KickSockets,
     KickDeciders, RemoveSessions, Goto, Revokes, Returns, AfterRevokes
<1>9. CASE \/ RevokeBlocklists(p) \/ RevokeRemoves(p) \/ SetAccount(p)
           \/ CutSockets(p) \/ CutDeciders(p)
  BY Zenon, <1>2, <1>4, <1>9 DEF RevokeBlocklists, RevokeRemoves, SetAccount, CutSockets,
     CutDeciders, Goto
<1>10. CASE SwapReplaceFails(p) \/ RevokeRemoveFails(p)
  BY Zenon, <1>4, <1>10 DEF SwapReplaceFails, RevokeRemoveFails
<1> QED BY Zenon, <1>6, <1>7, <1>8, <1>9, <1>10 DEF RequestStep

\* A token keeps its row, or its promise of one, when rows go only with dead
\* tokens and replacements are not given up.
LEMMA RowStep ==
  ASSUME RowInv, minted' = minted, account' # "deleted" => account # "deleted",
         black \subseteq black', expired \subseteq expired', torn \subseteq torn',
         account' # "deleted" => Rows \subseteq Rows' \cup black' \cup expired',
         \A q \in Requests : account' # "deleted" /\ req[q].step = "replace" =>
           \/ req'[q] = req[q]
           \/ req[q].new \in Rows' \cup torn'
  PROVE  RowInv'
<1> SUFFICES ASSUME account' # "deleted", NEW t \in 1 .. minted
             PROVE  HasRow(t)'
  BY Zenon DEF RowInv
<1>1. HasRow(t)
  BY Zenon DEF RowInv
<1> QED BY Zenon, <1>1 DEF HasRow

\* The steps that take no row away and give no replacement up.
LEMMA RowsStayKept ==
  ASSUME RowInv, UNCHANGED <<account, minted, rows, torn>>,
         black \subseteq black', expired \subseteq expired',
         \A q \in Requests : req[q].step = "replace" => req'[q] = req[q]
  PROVE  RowInv'
<1>1. Rows' = Rows
  BY Zenon DEF Rows
<1> QED BY Zenon, <1>1, RowStep

\* A login writes the row of its token; a refresh owes it to the token it mints.
LEMMA MintKeepsRows ==
  ASSUME TableInv, RowInv, NEW p \in Requests, RecordSession(p) \/ SwapBlocklists(p)
  PROVE  RowInv'
<1>1. BaseType /\ RowsType /\ minted \in Nat /\ RequestType
  BY Zenon, TypeParts, Bounds DEF TableInv
<1>2. OthersStay(p) /\ req[p].step # "replace"
  BY Zenon, StepOfOne DEF RequestStep, RecordSession, SwapBlocklists
<1>m. PICK m : m = minted + 1
  OBVIOUS
<1>3. /\ minted' = m /\ account' = account /\ expired' = expired /\ torn' = torn
      /\ black \subseteq black'
  BY Zenon, <1>m DEF RecordSession, SwapBlocklists, Blocklist
<1>4. ASSUME account # "deleted"
      PROVE  Rows \subseteq Rows' /\ HasRow(m)'
  <2>1. CASE RecordSession(p)
    <3>1. rows' = Append(rows, m)
      BY Zenon, <1>m, <1>4, <2>1 DEF RecordSession
    <3>2. Rows' = Rows \cup {m}
      <4>1. rows \in Seq(Nat) /\ m \in Nat
        BY SMTT(30), <1>1, <1>m, SeqGrows DEF RowsType
      <4>2. m \notin Rows
        BY <1>1, <1>m DEF RowsType, Rows, Range
      <4> QED BY SMTT(30), <1>1, <3>1, <4>1, <4>2, AppendNew DEF RowsType, Rows
    <3> QED BY Zenon, <3>2 DEF HasRow
  <2>2. CASE SwapBlocklists(p)
    <3>1. GotoWith(p, "replace", m) /\ rows' = rows
      BY Zenon, <1>m, <2>2 DEF SwapBlocklists
    <3>2. req'[p].step = "replace" /\ req'[p].new = m
      BY Zenon, <1>1, <3>1 DEF GotoWith, Moves, RequestType
    <3> QED BY Zenon, <3>1, <3>2 DEF HasRow, Rows
  <2> QED BY Zenon, <2>1, <2>2
<1> SUFFICES ASSUME account # "deleted", NEW t \in 1 .. minted'
             PROVE  HasRow(t)'
  BY Zenon, <1>3 DEF RowInv
<1>5. t \in 1 .. minted \/ t = m
  BY <1>1, <1>m, <1>3
<1>6. t \in 1 .. minted => HasRow(t)
  BY Zenon DEF RowInv
<1> QED BY Zenon, <1>2, <1>3, <1>4, <1>5, <1>6 DEF HasRow, OthersStay

\* The second half of a swap pays what the first half owes.
LEMMA SwapKeepsRows ==
  ASSUME TableInv, RowInv, NEW p \in Requests, SwapReplaces(p)
  PROVE  RowInv'
<1>1. BaseType /\ RowsType /\ minted \in Nat /\ RequestType /\ Knows(p) /\ Fresh
  BY Zenon, TypeParts, Bounds DEF TableInv
<1>2. OthersStay(p)
  BY Zenon, StepOfOne DEF RequestStep
<1>3. /\ req[p].step = "replace"
      /\ UNCHANGED <<account, minted, expired, black, torn>>
      /\ account # "deleted" => rows' = Replaced(req[p].tok, req[p].new)
  BY Zenon DEF SwapReplaces
<1>4. req[p].new \in 1 .. minted /\ req[p].new \notin Rows /\ req[p].tok \in black
  BY SMTT(30), <1>1, <1>3, RequestFields DEF Knows, Fresh
<1>5. account # "deleted" => Rows' = (Rows \ {req[p].tok}) \cup {req[p].new}
  BY SMTT(30), <1>1, <1>3, <1>4, ReplacedType DEF RowsType, Rows
<1> QED BY Zenon, <1>2, <1>3, <1>4, <1>5, RowStep DEF OthersStay

\* Rows are deleted once their tokens are dead.
LEMMA RemovalKeepsRows ==
  ASSUME WellOrdered, TableInv, RowInv, NEW p \in Requests,
         EnforceLimit(p) \/ RemoveSessions(p) \/ RevokeRemoves(p)
  PROVE  RowInv'
<1>1. RowsType /\ Knows(p)
  BY Zenon, TypeParts DEF TableInv
<1>2. OthersStay(p) /\ req[p].step # "replace"
  BY Zenon, StepOfOne DEF RequestStep, EnforceLimit, RemoveSessions, RevokeRemoves
<1>3. UNCHANGED <<account, minted, expired, black, torn>>
  BY Zenon DEF EnforceLimit, RemoveSessions, RevokeRemoves
<1>4. PICK gone : rows' = Without(rows, gone) /\ gone \subseteq black \cup expired
  <2>1. CASE EnforceLimit(p)
    BY Zenon, <2>1 DEF EnforceLimit
  <2>2. CASE RemoveSessions(p)
    <3>1. req[p].todo = <<>> /\ req[p].gone \subseteq black \cup Range(req[p].todo)
      BY Zenon, <1>1, <2>2 DEF RemoveSessions, Knows
    <3>2. Range(<<>>) = {}
      BY DEF Range
    <3> QED BY Zenon, <2>2, <3>1, <3>2 DEF RemoveSessions
  <2>3. CASE RevokeRemoves(p)
    BY Zenon, <1>1, <2>3 DEF RevokeRemoves, Knows
  <2> QED BY Zenon, <2>1, <2>2, <2>3
<1>5. Rows' = Rows \ gone
  BY Zenon, <1>1, <1>4, WithoutType DEF Rows
<1> QED BY Zenon, <1>2, <1>3, <1>4, <1>5, RowStep DEF OthersStay

\* Only a deletion takes the rows of live tokens, and it is for good.
LEMMA AccountKeepsRows ==
  ASSUME TableInv, RowInv, NEW p \in Requests, SetAccount(p)
  PROVE  RowInv'
<1>1. OthersStay(p) /\ req[p].step # "replace"
  BY Zenon, StepOfOne DEF RequestStep, SetAccount
<1>2. /\ UNCHANGED <<minted, expired, black, torn>>
      /\ account' # "deleted" => account # "deleted" /\ rows' = rows
  BY Zenon DEF SetAccount
<1> QED BY Zenon, <1>1, <1>2, RowStep DEF OthersStay, Rows

\* A crash gives the replacements up whose swap it cuts in two: those are torn.
LEMMA CrashKeepsRows ==
  ASSUME RowInv, Crash
  PROVE  RowInv'
<1>1. /\ torn' = torn \cup {req[p].new : p \in {q \in Requests : req[q].step = "replace"}}
      /\ UNCHANGED <<account, minted, rows, expired, black>>
  BY Zenon DEF Crash, dbVars
<1>2. \A q \in Requests : req[q].step = "replace" => req[q].new \in torn'
  BY Zenon, <1>1
<1> QED BY Zenon, <1>1, <1>2, RowStep DEF Rows

\* Every step keeps RowInv.
LEMMA RowKept ==
  ASSUME WellOrdered, TableInv, RowInv, [Next]_vars
  PROVE  RowInv'
<1>1. ASSUME NEW p \in Requests, RequestStep(p) PROVE RowInv'
  <2>1. CASE RecordSession(p) \/ SwapBlocklists(p)
    BY Zenon, <2>1, MintKeepsRows
  <2>2. CASE SwapReplaces(p)
    BY Zenon, <2>2, SwapKeepsRows
  <2>3. CASE EnforceLimit(p) \/ RemoveSessions(p) \/ RevokeRemoves(p)
    BY Zenon, <2>3, RemovalKeepsRows
  <2>4. CASE SetAccount(p)
    BY Zenon, <2>4, AccountKeepsRows
  <2>5. OthersStay(p)
    BY Zenon, <1>1, StepOfOne
  <2>6. ASSUME req[p].step # "replace", UNCHANGED <<account, minted, rows, torn, expired>>,
               black \subseteq black'
        PROVE  RowInv'
    BY Zenon, <2>5, <2>6, RowsStayKept DEF OthersStay
  <2>7. CASE \/ Login(p) \/ ChangePassword(p) \/ DisableUser(p) \/ DeleteUser(p)
             \/ \E t \in held : Logout(p, t)
    BY Zenon, <2>6, <2>7 DEF Login, ChangePassword, DisableUser, DeleteUser, Admin, Logout,
       Begins, dbVars
  <2>8. CASE \E t \in held : Refresh(p, t)
    <3>1. /\ UNCHANGED <<account, minted, rows, torn, expired, black>>
          /\ req[p].step = "none"
      BY Zenon, <2>8 DEF Refresh, Begins, dbVars
    <3> QED BY Zenon, <2>6, <3>1
  <2>9. CASE RefreshChecks(p) \/ SwapRetargets(p) \/ RevokeAll(p)
    BY Zenon, <2>6, <2>9 DEF RefreshChecks, SwapRetargets, RevokeAll, dbVars
  <2>10. CASE KickSockets(p) \/ KickDeciders(p) \/ CutSockets(p) \/ CutDeciders(p)
    BY Zenon, <2>6, <2>10 DEF KickSockets, KickDeciders, CutSockets, CutDeciders, dbVars
  <2>11. CASE BlocklistNext(p) \/ RevokeBlocklists(p)
    BY Zenon, <2>6, <2>11 DEF BlocklistNext, RevokeBlocklists, Blocklist
  <2>12. CASE RevokeRemoveFails(p)
    BY Zenon, <2>6, <2>12 DEF RevokeRemoveFails, dbVars
  <2>13. CASE SwapReplaceFails(p)
    <3>1. /\ torn' = torn \cup {req[p].new}
          /\ UNCHANGED <<account, minted, rows, expired, black>>
      BY Zenon, <2>13 DEF SwapReplaceFails, dbVars
    <3> QED BY Zenon, <2>5, <3>1, RowStep DEF OthersStay, Rows
  <2> QED BY Zenon, <1>1, <2>1, <2>2, <2>3, <2>4, <2>7, <2>8, <2>9, <2>10, <2>11, <2>12,
             <2>13 DEF RequestStep
<1>2. ASSUME UNCHANGED <<account, minted, rows, torn, black, req>>, expired \subseteq expired'
      PROVE  RowInv'
  BY Zenon, <1>2, RowsStayKept
<1>3. CASE \E s \in AllSockets : SocketStep(s)
  BY Zenon, <1>2, <1>3 DEF SocketStep, Connect, ConnectReadsUser, RegisterSocket, SocketEnds, dbVars
<1>4. CASE \E t \in Tokens : RefreshExpired(t) \/ Expires(t)
  BY Zenon, <1>2, <1>4 DEF RefreshExpired, Expires, dbVars
<1>5. CASE Crash
  BY Zenon, <1>5, CrashKeepsRows
<1>6. CASE UNCHANGED vars
  BY Zenon, <1>2, <1>6 DEF vars, dbVars
<1> QED BY Zenon, <1>1, <1>3, <1>4, <1>5, <1>6 DEF Next

-----------------------------------------------------------------------------
(* The session cap.                                                        *)

\* Fewer rows are within the cap if more are.
LEMMA WithinFewer ==
  ASSUME NEW R, NEW S, R \subseteq S, Within(S)
  PROVE  Within(R)
BY Zenon DEF Within

\* A step that adds no row, gives no victims up and leaves no enforcement undone.
LEMMA CapStep ==
  ASSUME CapInv, Rows' \subseteq Rows,
         \A q \in Requests : Capping(q)' => Capping(q),
         \A q \in Requests : req[q].step \in {"retarget", "enforce"} =>
           req'[q].step \in {"retarget", "enforce"},
         \A q \in Requests : Removing(q) =>
           \/ Removing(q)' /\ req'[q].gone = req[q].gone
           \/ Rows' \subseteq Rows \ req[q].gone
  PROVE  CapInv'
<1> SUFFICES ASSUME NEW c \in Requests, Capping(c)'
             PROVE  \/ \E p \in Requests : req'[p].step \in {"retarget", "enforce"}
                    \/ Within(Rows')
                    \/ \E p \in Requests : Removing(p)' /\ Within(Rows' \ req'[p].gone)
  BY Zenon DEF CapInv
<1>1. CASE \E p \in Requests : req[p].step \in {"retarget", "enforce"}
  BY Zenon, <1>1
<1>2. CASE Within(Rows)
  BY Zenon, <1>2, WithinFewer
<1>3. CASE \E p \in Requests : Removing(p) /\ Within(Rows \ req[p].gone)
  <2>1. PICK p \in Requests : Removing(p) /\ Within(Rows \ req[p].gone)
    BY Zenon, <1>3
  <2>2. CASE Removing(p)' /\ req'[p].gone = req[p].gone
    <3>1. Rows' \ req'[p].gone \subseteq Rows \ req[p].gone
      BY Zenon, <2>2
    <3>2. Within(Rows' \ req'[p].gone)
      BY Zenon, <2>1, <3>1, WithinFewer
    <3> QED BY Zenon, <2>2, <3>2
  <2>3. CASE Rows' \subseteq Rows \ req[p].gone
    BY Zenon, <2>1, <2>3, WithinFewer
  <2> QED BY Zenon, <2>1, <2>2, <2>3
<1> QED BY Zenon, <1>1, <1>2, <1>3 DEF CapInv

\* The same, for a step of one request.
LEMMA CapMove ==
  ASSUME CapInv, NEW p \in Requests, OthersStay(p), Rows' \subseteq Rows,
         Capping(p)' => Capping(p),
         req[p].step \in {"retarget", "enforce"} =>
           req'[p].step \in {"retarget", "enforce"},
         Removing(p) => \/ Removing(p)' /\ req'[p].gone = req[p].gone
                        \/ Rows' \subseteq Rows \ req[p].gone
  PROVE  CapInv'
<1>1. \A q \in Requests : q # p => req'[q] = req[q]
  BY Zenon DEF OthersStay
<1>2. \A q \in Requests : q # p => (Capping(q)' <=> Capping(q))
                                /\ (Removing(q)' <=> Removing(q))
  BY Zenon, <1>1 DEF Capping, Removing
<1> QED BY Zenon, <1>1, <1>2, CapStep

\* A request that ends, or goes to a step that removes nothing, caps nothing.
LEMMA NotCapping ==
  ASSUME NEW p \in Requests,
         req'[p].step \notin {"block", "drop", "kick", "kick2"}
  PROVE  ~Capping(p)'
BY Zenon DEF Capping, Removing

\* A row is only added by a request that enforces the cap afterwards.
LEMMA AddKeepsCap ==
  ASSUME TableInv, CapInv, NEW p \in Requests,
         RecordSession(p) \/ SwapReplaces(p) \/ SwapRetargets(p)
  PROVE  CapInv'
<1>1. Shape
  BY Zenon DEF TableInv, TypeOK, Shape
<1>2. CASE Ends(p) /\ UNCHANGED rows
  <2>1. OthersStay(p) /\ req'[p].step = "none"
    BY Zenon, <1>1, <1>2, EndsOne
  <2>2. req[p].step \in {"record", "replace", "retarget"}
    BY Zenon DEF RecordSession, SwapReplaces, SwapRetargets
  <2>3. req[p].step # "retarget"
    <3>1. CASE SwapRetargets(p)
      <4>1. Goto(p, "enforce")
        BY Zenon, <3>1 DEF SwapRetargets
      <4> QED BY Zenon, <1>1, <2>1, <4>1, MovesOne DEF Goto
    <3> QED BY Zenon, <3>1 DEF RecordSession, SwapReplaces
  <2>4. ~Removing(p)
    BY Zenon, <2>2 DEF Removing
  <2> QED BY Zenon, <1>2, <2>1, <2>2, <2>3, <2>4, NotCapping, CapMove DEF Rows
<1>3. CASE \E new : \E step \in {"retarget", "enforce"} : GotoWith(p, step, new)
  <2>1. PICK new : \E step \in {"retarget", "enforce"} : GotoWith(p, step, new)
    BY Zenon, <1>3
  <2>2. req'[p].step \in {"retarget", "enforce"}
    BY Zenon, <1>1, <2>1, MovesOne DEF GotoWith
  <2> QED BY Zenon, <2>2 DEF CapInv
<1>4. Goto(p, "retarget") \/ Goto(p, "enforce") =>
        \E new : \E step \in {"retarget", "enforce"} : GotoWith(p, step, new)
  BY Zenon DEF Goto, GotoWith
<1> QED BY Zenon, <1>2, <1>3, <1>4 DEF RecordSession, SwapReplaces, SwapRetargets

\* The list the victims are taken from, without them, is within the cap.
LEMMA VictimsSuffice ==
  ASSUME NEW S, S \subseteq Tokens, NEW live \in Seq(S), Limit \in Nat, Len(live) > Limit
  PROVE  Within(Range(live) \ Range(SubSeq(live, 1, Len(live) - Limit)))
<1> DEFINE k == Len(live) - Limit
           b == [i \in 1 .. Limit |-> live[k + i]]
           v == SubSeq(live, 1, k)
<1>1. k \in Nat /\ k \in 1 .. Len(live) /\ Len(live) \in Nat /\ DOMAIN live = 1 .. Len(live)
      /\ Len(live) - k = Limit
  OBVIOUS
<1>2. /\ v \in Seq(S) /\ DOMAIN v = 1 .. k /\ \A i \in 1 .. k : v[i] = live[i]
  BY <1>1
<1>3. /\ b \in Seq(S) /\ Len(b) = Limit /\ DOMAIN b = 1 .. Limit
      /\ \A i \in 1 .. Limit : b[i] = live[k + i]
  <2>1. \A i \in 1 .. Limit : k + i \in 1 .. Len(live)
    BY <1>1
  <2> QED BY SMTT(30), <1>1, <2>1
<1>4. b \in Seq(Tokens)
  BY Zenon, <1>3, SeqGrows
<1> HIDE DEF b, v, k
<1>5. ASSUME NEW e \in Range(live) \ Range(v) PROVE e \in Range(b)
  <2>1. PICK i \in 1 .. Len(live) : live[i] = e
    BY Zenon, <1>1 DEF Range
  <2>2. i \notin 1 .. k
    BY Zenon, <1>2, <1>5, <2>1 DEF Range
  <2>3. i - k \in 1 .. Limit /\ k + (i - k) = i
    BY SMTT(30), <1>1, <2>1, <2>2
  <2>4. b[i - k] = e
    BY Zenon, <1>3, <2>1, <2>3
  <2> QED BY Zenon, <1>3, <2>3, <2>4 DEF Range
<1>6. Within(Range(live) \ Range(v))
  BY SMTT(30), <1>3, <1>4, <1>5 DEF Within
<1> QED BY Zenon, <1>6 DEF v, k

\* Enforcing the cap.
LEMMA EnforceKeepsCap ==
  ASSUME WellOrdered, TableInv, CapInv, NEW p \in Requests, EnforceLimit(p)
  PROVE  CapInv'
<1>1. /\ BaseType /\ RowsType /\ Limit \in Nat /\ Shape /\ 1 .. minted \subseteq Tokens
  BY Zenon, TypeParts, Bounds DEF TableInv, TypeOK, Shape
<1> DEFINE live == Without(rows, expired)
           victims == SubSeq(live, 1, Len(live) - Limit)
<1>2. /\ rows' = live
      /\ Len(live) > Limit => Moves(p, "block", req[p].new, victims, Range(victims))
  BY Zenon DEF EnforceLimit, Victims, Revokes
<1>3. live \in Seq(1 .. minted) /\ Rows' = Range(live)
  BY Zenon, <1>1, <1>2, WithoutType DEF Rows
<1>4. CASE Len(live) > Limit
  <2>1. Within(Rows' \ Range(victims))
    BY Zenon, <1>1, <1>3, <1>4, VictimsSuffice
  <2>2. req'[p].step = "block" /\ req'[p].gone = Range(victims)
    <3> HIDE DEF live, victims
    <3> QED BY SMTT(30), <1>1, <1>2, <1>4 DEF Moves, Shape
  <2>3. Removing(p)' /\ Within(Rows' \ req'[p].gone)
    BY Zenon, <2>1, <2>2 DEF Removing
  <2> QED BY Zenon, <2>3 DEF CapInv
<1>5. CASE ~(Len(live) > Limit)
  <2>1. Len(live) <= Limit
    BY <1>1, <1>3, <1>5
  <2>2. live \in Seq(Tokens)
    BY Zenon, <1>1, <1>3, SeqGrows
  <2>3. Within(Rows')
    BY Zenon, <1>3, <2>1, <2>2 DEF Within
  <2> QED BY Zenon, <2>3 DEF CapInv
<1> QED BY Zenon, <1>4, <1>5

\* Working through the victims.
LEMMA VictimsKeepCap ==
  ASSUME WellOrdered, TableInv, CapInv, NEW p \in Requests,
         \/ BlocklistNext(p) \/ KickSockets(p) \/ KickDeciders(p) \/ RemoveSessions(p)
         \/ RevokeAll(p) \/ RevokeBlocklists(p) \/ RevokeRemoves(p)
  PROVE  CapInv'
<1>1. /\ RowsType /\ Shape /\ OneByOne /\ Knows(p)
  BY Zenon, TypeParts DEF TableInv, TypeOK, Shape
<1>2. OthersStay(p) /\ req[p].step \notin {"retarget", "enforce"}
  BY Zenon, StepOfOne DEF RequestStep, BlocklistNext, KickSockets, KickDeciders, RemoveSessions,
     RevokeAll, RevokeBlocklists, RevokeRemoves
<1>3. ASSUME NEW step, Goto(p, step)
      PROVE  /\ req'[p].op = req[p].op /\ req'[p].step = step
             /\ req'[p].todo = req[p].todo /\ req'[p].gone = req[p].gone
  BY Zenon, <1>1, <1>3 DEF Goto, Moves, Shape
<1>4. ASSUME Ends(p) PROVE req'[p].step = "none"
  BY Zenon, <1>1, <1>4, EndsOne
<1>5. CASE BlocklistNext(p) \/ KickSockets(p)
  <2>1. /\ rows' = rows
        /\ \/ req[p].step = "block" /\ req[p].todo # <<>> /\ Goto(p, "kick")
           \/ req[p].step = "kick" /\ Goto(p, "kick2")
    BY Zenon, <1>5 DEF BlocklistNext, KickSockets, dbVars
  <2>2. (Capping(p)' => Capping(p)) /\ (Removing(p) => Removing(p)')
        /\ req'[p].gone = req[p].gone
    <3>1. CASE req[p].step = "block" /\ req[p].todo # <<>> /\ Goto(p, "kick")
      BY Zenon, <1>3, <3>1 DEF Capping, Removing
    <3>2. CASE req[p].step = "kick" /\ Goto(p, "kick2")
      <4>1. /\ req'[p].op = req[p].op /\ req'[p].step = "kick2"
            /\ req'[p].todo = req[p].todo /\ req'[p].gone = req[p].gone
        BY Zenon, <1>3, <3>2
      <4> QED BY Zenon, <3>2, <4>1 DEF Capping, Removing
    <3> QED BY Zenon, <2>1, <3>1, <3>2
  <2> QED BY Zenon, <1>2, <2>1, <2>2, CapMove DEF Rows
<1>6. CASE KickDeciders(p)
  <2>1. rows' = rows /\ req[p].step = "kick2"
    BY Zenon, <1>6 DEF KickDeciders, dbVars
  <2>2. CASE req[p].todo = <<>>
    <3>1. Ends(p) /\ ~Removing(p)
      BY Zenon, <1>6, <2>1, <2>2 DEF KickDeciders, Removing
    <3> QED BY Zenon, <1>2, <1>4, <2>1, <3>1, NotCapping, CapMove DEF Rows
  <2>3. CASE req[p].todo # <<>>
    <3>1. PICK todo : \E step \in {"drop", "block"} :
            Moves(p, step, req[p].new, todo, req[p].gone)
      BY Zenon, <1>6, <2>3 DEF KickDeciders
    <3>2. /\ req'[p].op = req[p].op /\ req'[p].step \in {"drop", "block"}
          /\ req'[p].gone = req[p].gone
      BY <1>1, <3>1 DEF Moves, Shape
    <3>3. Removing(p) /\ Removing(p)' /\ (Capping(p)' => Capping(p))
      BY Zenon, <2>1, <2>3, <3>2 DEF Capping, Removing
    <3> QED BY Zenon, <1>2, <2>1, <3>2, <3>3, CapMove DEF Rows
  <2> QED BY Zenon, <2>2, <2>3
<1>7. CASE RemoveSessions(p)
  <2>1. rows' = Without(rows, req[p].gone) /\ (Ends(p) \/ Goto(p, "flag"))
    BY Zenon, <1>7 DEF RemoveSessions, Returns, AfterRevokes
  <2>2. Rows' = Rows \ req[p].gone
    BY Zenon, <1>1, <2>1, WithoutType DEF Rows
  <2>3. req'[p].step \in {"none", "flag"}
    BY Zenon, <1>3, <1>4, <2>1
  <2> QED BY Zenon, <1>2, <2>2, <2>3, NotCapping, CapMove
<1>8. CASE RevokeAll(p)
  <2>1. /\ rows' = rows /\ req[p].step = "list"
        /\ Ends(p) \/ Goto(p, "flag") \/ Moves(p, "block", req[p].new, rows, Range(rows))
    BY Zenon, <1>8 DEF RevokeAll, AfterRevokes, Revokes, dbVars
  <2>2. req[p].op \notin Grants /\ ~Removing(p)
    BY Zenon, <1>1, <2>1 DEF Knows, Removing
  <2>3. ~Capping(p)'
    <3>1. CASE Moves(p, "block", req[p].new, rows, Range(rows))
      <4>1. req'[p].op = req[p].op
        BY Zenon, <1>1, <3>1 DEF Moves, Shape
      <4> QED BY Zenon, <2>2, <4>1 DEF Capping
    <3>2. CASE Ends(p) \/ Goto(p, "flag")
      BY SMTT(30), <1>3, <1>4, <3>2, NotCapping
    <3> QED BY Zenon, <2>1, <3>1, <3>2
  <2> QED BY Zenon, <1>2, <2>1, <2>2, <2>3, CapMove DEF Rows
<1>9. CASE RevokeBlocklists(p)
  <2>1. rows' = rows /\ req[p].step = "revoke" /\ Goto(p, "unrow")
    BY Zenon, <1>9 DEF RevokeBlocklists
  <2>2. req'[p].step = "unrow" /\ ~Removing(p)
    BY Zenon, <1>3, <2>1 DEF Removing
  <2> QED BY Zenon, <1>2, <2>1, <2>2, NotCapping, CapMove DEF Rows
<1>10. CASE RevokeRemoves(p)
  <2>1. /\ req[p].step = "unrow" /\ req[p].todo = <<>> /\ Goto(p, "kick")
        /\ rows' = Without(rows, {req[p].tok})
    BY ZenonT(30), <1>1, <1>10 DEF RevokeRemoves, OneByOne
  <2>2. ~Removing(p) /\ ~Capping(p)'
    <3>1. req'[p].step = "kick" /\ req'[p].todo = <<>>
      BY Zenon, <1>3, <2>1
    <3> QED BY Zenon, <2>1, <3>1 DEF Capping, Removing
  <2>3. Rows' \subseteq Rows
    BY Zenon, <1>1, <2>1, WithoutType DEF Rows
  <2> QED BY Zenon, <1>2, <2>1, <2>2, <2>3, CapMove
<1> QED BY Zenon, <1>5, <1>6, <1>7, <1>8, <1>9, <1>10

\* A request that fails halfway has neither added a row nor listed victims.
LEMMA FailureKeepsCap ==
  ASSUME TableInv, CapInv, NEW p \in Requests, SwapReplaceFails(p) \/ RevokeRemoveFails(p)
  PROVE  CapInv'
<1>1. Shape
  BY Zenon DEF TableInv, TypeOK, Shape
<1>2. Ends(p) /\ rows' = rows /\ req[p].step \in {"unrow", "replace"}
  BY Zenon DEF SwapReplaceFails, RevokeRemoveFails, dbVars
<1>3. OthersStay(p) /\ req'[p].step = "none" /\ ~Removing(p)
  BY Zenon, <1>1, <1>2, EndsOne DEF Removing
<1> QED BY Zenon, <1>2, <1>3, NotCapping, CapMove DEF Rows

\* The other steps of a request.
LEMMA OthersKeepCap ==
  ASSUME TableInv, CapInv, NEW p \in Requests,
         \/ Login(p) \/ ChangePassword(p) \/ DisableUser(p) \/ DeleteUser(p)
         \/ \E t \in held : Refresh(p, t) \/ Logout(p, t)
         \/ RefreshChecks(p) \/ SwapBlocklists(p) \/ SetAccount(p)
         \/ CutSockets(p) \/ CutDeciders(p)
  PROVE  CapInv'
<1>1. Shape
  BY Zenon DEF TableInv, TypeOK, Shape
<1>2. OthersStay(p)
  BY Zenon, StepOfOne DEF RequestStep
<1>3. /\ req[p].step \notin {"retarget", "enforce"} /\ ~Removing(p)
      /\ rows' \in {rows, <<>>}
  BY Zenon DEF Login, ChangePassword, DisableUser, DeleteUser, Admin, Refresh, Logout, Begins,
     RefreshChecks, SwapBlocklists, SetAccount, CutSockets, CutDeciders, Removing, dbVars
<1>4. Rows' \subseteq Rows
  <2>1. Range(<<>>) = {}
    BY DEF Range
  <2> QED BY Zenon, <1>3, <2>1 DEF Rows
<1>5. ~Capping(p)'
  <2>1. ASSUME NEW op, NEW step \in {"record", "list", "flag", "revoke", "check"}, NEW t,
               Begins(p, op, step, t)
        PROVE  ~Capping(p)'
    BY Zenon, <1>1, <2>1, BeginsOne, NotCapping
  <2>2. ASSUME NEW step \in {"swap", "revoke", "replace", "cut", "cut2"}, NEW new,
               GotoWith(p, step, new)
        PROVE  ~Capping(p)'
    BY Zenon, <1>1, <2>2, MovesOne, NotCapping DEF GotoWith
  <2>3. Ends(p) => ~Capping(p)'
    BY Zenon, <1>1, EndsOne, NotCapping
  <2>4. CASE Login(p) \/ ChangePassword(p) \/ DisableUser(p) \/ DeleteUser(p)
             \/ \E t \in held : Logout(p, t)
    BY Zenon, <2>1, <2>4 DEF Login, ChangePassword, DisableUser, DeleteUser, Admin, Logout
  <2>5. CASE \E t \in held : Refresh(p, t)
    <3>1. req[p].step = "none" /\ req' = req => ~Capping(p)'
      BY Zenon, NotCapping
    <3> QED BY Zenon, <2>1, <2>5, <3>1 DEF Refresh
  <2>6. CASE RefreshChecks(p) \/ SwapBlocklists(p) \/ SetAccount(p)
             \/ CutSockets(p) \/ CutDeciders(p)
    BY Zenon, <2>2, <2>3, <2>6 DEF RefreshChecks, SwapBlocklists, SetAccount, CutSockets,
       CutDeciders, Goto, GotoWith
  <2> QED BY Zenon, <2>4, <2>5, <2>6
<1> QED BY Zenon, <1>2, <1>3, <1>4, <1>5, CapMove

\* Every step keeps CapInv.
LEMMA CapKept ==
  ASSUME WellOrdered, TableInv, CapInv, [Next]_vars
  PROVE  CapInv'
<1>1. CASE \E p \in Requests : RequestStep(p)
  <2>1. PICK p \in Requests : RequestStep(p)
    BY Zenon, <1>1
  <2> QED BY Zenon, <2>1, AddKeepsCap, EnforceKeepsCap, VictimsKeepCap, OthersKeepCap,
             FailureKeepsCap
          DEF RequestStep
<1>2. ASSUME UNCHANGED <<rows, req>> PROVE CapInv'
  BY Zenon, <1>2, CapStep DEF Rows, Capping, Removing
<1>3. CASE \E s \in AllSockets : SocketStep(s)
  BY Zenon, <1>2, <1>3 DEF SocketStep, Connect, ConnectReadsUser, RegisterSocket, SocketEnds, dbVars
<1>4. CASE \E t \in Tokens : RefreshExpired(t) \/ Expires(t)
  BY Zenon, <1>2, <1>4 DEF RefreshExpired, Expires, dbVars
<1>5. CASE Crash
  <2>1. \A p \in Requests : req'[p] = NoReq
    BY Zenon, <1>5 DEF Crash
  <2>2. \A p \in Requests : ~Capping(p)'
    BY Zenon, <2>1, NoneKnows, NotCapping
  <2> QED BY Zenon, <2>2 DEF CapInv
<1>6. CASE UNCHANGED vars
  BY Zenon, <1>2, <1>6 DEF vars, dbVars
<1> QED BY Zenon, <1>1, <1>3, <1>4, <1>5, <1>6 DEF Next

\* The request that answers last leaves the rows within the cap.
LEMMA AnswerWithin ==
  ASSUME WellOrdered, TableInv, CapInv
  PROVE  \A p \in Requests :
           /\ EnforceLimit(p) \/ RemoveSessions(p)
           /\ req[p].op \in {"login", "refresh"}
           /\ \A q \in Requests : req'[q] = NoReq
           => Len(rows') <= Limit
<1> SUFFICES ASSUME NEW p \in Requests, EnforceLimit(p) \/ RemoveSessions(p),
                    req[p].op \in Grants,
                    \A q \in Requests : req'[q] = NoReq
             PROVE  Len(rows') <= Limit
  BY Zenon DEF Grants
<1>1. /\ RowsType /\ Limit \in Nat /\ Shape /\ BaseType /\ 1 .. minted \subseteq Tokens
  BY ZenonT(30), TypeParts, Bounds DEF TableInv, TypeOK, Shape
<1>2. req'[p].step = "none"
  BY Zenon, NoneKnows
<1>3. CASE EnforceLimit(p)
  <2> DEFINE live == Without(rows, expired)
  <2>1. rows' = live /\ (Len(live) > Limit => Revokes(p, Victims(live)))
    BY Zenon, <1>3 DEF EnforceLimit
  <2>2. ~Revokes(p, Victims(live))
    BY SMTT(30), <1>1, <1>2, MovesOne DEF Revokes
  <2>3. live \in Seq(1 .. minted)
    BY Zenon, <1>1, WithoutType
  <2>4. Len(live) \in Nat
    BY <2>3
  <2>5. ~(Len(live) > Limit)
    BY Zenon, <2>1, <2>2
  <2> HIDE DEF live
  <2> QED BY <1>1, <2>1, <2>4, <2>5
<1>4. CASE RemoveSessions(p)
  <2>1. req[p].step = "drop" /\ rows' = Without(rows, req[p].gone)
    BY Zenon, <1>4 DEF RemoveSessions
  <2>2. /\ rows' \in Seq(1 .. minted) /\ IsInjective(rows')
        /\ Range(rows') = Rows \ req[p].gone
    BY ZenonT(30), <1>1, <2>1, WithoutType
  <2>3. \A q \in Requests : q # p => req[q].step = "none"
    BY Zenon, <1>4, StepOfOne, NoneKnows DEF RequestStep, OthersStay
  <2>4. Capping(p) /\ \A q \in Requests : Removing(q) => q = p
    BY Zenon, <2>1, <2>3 DEF Capping, Removing
  <2>5. Within(Rows) \/ Within(Rows \ req[p].gone)
    BY Zenon, <2>1, <2>3, <2>4 DEF CapInv
  <2>6. Within(Range(rows'))
    BY Zenon, <2>2, <2>5, WithinFewer
  <2>7. PICK b \in Seq(Tokens) : Len(b) <= Limit /\ Range(rows') \subseteq Range(b)
    BY Zenon, <2>6 DEF Within
  <2>8. rows' \in Seq(Tokens)
    BY Zenon, <1>1, <2>2, SeqGrows
  <2>9. Len(rows') <= Len(b)
    BY Zenon, <2>2, <2>7, <2>8, Pigeonhole
  <2> QED BY SMTT(30), <1>1, <2>7, <2>8, <2>9
<1> QED BY Zenon, <1>3, <1>4

-----------------------------------------------------------------------------
(* The theorems.                                                           *)

INSTANCE WellFoundedInduction

\* Every nonempty set of naturals has a least element.
LEMMA NatWellOrdered == WellOrdered
<1> SUFFICES ASSUME NEW T \in SUBSET Nat, T # {}
             PROVE  \E n \in T : \A m \in T : n <= m
  BY Zenon DEF WellOrdered
<1>1. PICK x \in T : \A y \in T : ~(<<y, x>> \in OpToRel(<, Nat))
  BY Zenon, WFMin, NatLessThanWellFounded
<1>2. \A y \in T : ~(y < x)
  BY Zenon, <1>1 DEF OpToRel
<1> QED BY SMTT(30), <1>2

\* Every variable keeps its type and no jti has two rows.
THEOREM TypeCorrect == Spec => []TypeOK
<1>1. TableInv => TypeOK
  BY Zenon DEF TableInv
<1> QED BY TableInit, TableKept, NatWellOrdered, <1>1, PTL DEF Spec

\* A token the server accepts has its session row or is about to get it.
THEOREM LiveTokensHaveRows == Spec => []LiveHasRow
<1>1. Init => RowInv
  BY DEF Init, RowInv
<1>2. TableInv /\ RowInv => LiveHasRow
  <2> SUFFICES ASSUME TableInv, RowInv, account # "deleted",
                      NEW t \in held \ torn, Accepted(t)
               PROVE  \/ t \in Rows
                      \/ \E p \in Requests : req[p].step = "replace" /\ req[p].new = t
    BY Zenon DEF LiveHasRow
  <2>1. t \in 1 .. minted
    BY Zenon DEF TableInv, TypeOK
  <2> QED BY Zenon, <2>1 DEF RowInv, HasRow, Accepted
<1> QED BY TableInit, TableKept, NatWellOrdered, RowKept, <1>1, <1>2, PTL DEF Spec

\* When a login or a refresh answers and no other request is under way, the user
\* has at most max_sessions_per_user session rows.
THEOREM Capped == Spec => CapHolds
<1> DEFINE Answer ==
      \A p \in Requests :
        /\ EnforceLimit(p) \/ RemoveSessions(p)
        /\ req[p].op \in {"login", "refresh"}
        /\ \A q \in Requests : req'[q] = NoReq
        => Len(rows') <= Limit
<1>1. TableInv /\ CapInv => [Answer]_vars
  BY Zenon, NatWellOrdered, AnswerWithin
<1>2. Init => CapInv
  BY DEF Init, CapInv, Capping, Removing, NoReq
<1> QED BY TableInit, TableKept, NatWellOrdered, CapKept, <1>1, <1>2, PTL DEF Spec, CapHolds
=============================================================================
