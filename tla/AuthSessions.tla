---------------------------- MODULE AuthSessions ----------------------------
(***************************************************************************)
(* The sessions of one user: the tokens the server has issued, their rows  *)
(* in user_sessions, the token blocklist with the replacement a refresh    *)
(* caches there, and the live sockets (the main /ws connections and the    *)
(* consent deciders), each filed under the jti it authenticated with.      *)
(*                                                                         *)
(* Every request below is a coroutine of klangk.auth.Auth that awaits the  *)
(* database between its steps, so requests interleave at each of them.     *)
(* The database survives a crash of the server; requests and sockets do    *)
(* not.                                                                    *)
(***************************************************************************)
EXTENDS Naturals, Sequences, Functions, SeqFilter

CONSTANTS
  Requests,   \* HTTP requests under way at one time
  Sockets,    \* main WebSocket connections
  Deciders,   \* consent-decider connections
  MaxTokens,  \* bound: tokens ever minted
  Limit,      \* max_sessions_per_user
  Scenarios   \* which events may happen in a behaviour

Events == {"logout", "change", "disable", "delete", "idle", "expiry", "crash",
           "db", "sockets", "deciders"}

ASSUME SessionsAssumption ==
  /\ MaxTokens \in Nat \ {0}
  /\ Limit \in Nat \ {0}
  /\ Scenarios \subseteq SUBSET Events
  /\ Sockets \cap Deciders = {}

VARIABLES
  may,       \* the events of this behaviour
  account,   \* the users row: "active", "disabled" or "deleted"
  minted,    \* tokens minted so far; a token is its number
  held,      \* tokens a client holds
  expired,   \* tokens past their exp
  black,     \* jtis in token_blocklist
  cached,    \* jti -> its new_token column, 0 for NULL
  rows,      \* user_sessions, oldest first
  req,       \* request -> [op, step, tok, new, todo, gone]
  sock,      \* socket -> [step, jti]
  late,      \* history: sockets filed under a jti, or a user, already revoked,
             \* and those a failed revocation or swap did not reach
  torn       \* history: replacements whose swap was cut in two

dbVars == <<account, minted, black, cached, rows>>
vars == <<may, dbVars, held, expired, req, sock, late, torn>>

Tokens == 1 .. MaxTokens
AllSockets == Sockets \cup Deciders
Ops == {"none", "login", "refresh", "logout", "change", "disable", "delete"}
Steps == {"none", "record", "check", "swap", "replace", "retarget", "enforce",
          "list", "block", "kick", "kick2", "drop", "revoke", "unrow", "flag",
          "cut", "cut2"}
NoReq == [op |-> "none", step |-> "none", tok |-> 0, new |-> 0, todo |-> <<>>,
          gone |-> {}]
NoSock == [step |-> "none", jti |-> 0]

-----------------------------------------------------------------------------
Rows == Range(rows)
Without(s, jtis) == Filter(s, jtis)

\* blocklist_token: INSERT OR IGNORE, so the first entry for a jti stands.
Blocklist(t, new) ==
  /\ black' = black \cup {t}
  /\ cached' = IF t \in black THEN cached ELSE [cached EXCEPT ![t] = new]

\* How a request begins, goes on and ends.
Begins(p, op, step, t) ==
  /\ req[p].step = "none"
  /\ req' = [req EXCEPT ![p] = [op |-> op, step |-> step, tok |-> t, new |-> 0,
                               todo |-> <<>>, gone |-> {}]]
Moves(p, step, new, todo, gone) ==
  req' = [req EXCEPT ![p] = [op |-> req[p].op, step |-> step, tok |-> req[p].tok,
                             new |-> new, todo |-> todo, gone |-> gone]]
Goto(p, step) == Moves(p, step, req[p].new, req[p].todo, req[p].gone)
GotoWith(p, step, new) == Moves(p, step, new, req[p].todo, req[p].gone)
Revokes(p, all) == Moves(p, "block", req[p].new, all, Range(all))
Ends(p) == req' = [req EXCEPT ![p] = NoReq]

\* A token the server would accept a request with.
Accepted(t) == t \in held /\ t \notin expired /\ t \notin black

Open(s) == sock[s].step = "open"
Filed(t) == [step |-> "open", jti |-> t]

\* disconnect_by_jti, disconnect_user: the registered sockets are closed.
Close(some) ==
  /\ sock' = [s \in AllSockets |-> IF s \in some THEN NoSock ELSE sock[s]]
  /\ late' = late \ some
OnJti(kind, t) == {s \in kind : Open(s) /\ sock[s].jti = t}

Init ==
  /\ may \in Scenarios
  /\ account = "active"
  /\ minted = 0
  /\ held = {}
  /\ expired = {}
  /\ black = {}
  /\ cached = [t \in Tokens |-> 0]
  /\ rows = <<>>
  /\ req = [p \in Requests |-> NoReq]
  /\ sock = [s \in AllSockets |-> NoSock]
  /\ late = {}
  /\ torn = {}

-----------------------------------------------------------------------------
(* issue_token.                                                            *)

Login(p) ==
  /\ account = "active"
  /\ Begins(p, "login", "record", 0)
  /\ UNCHANGED <<may, dbVars, held, expired, sock, late, torn>>

\* A mutation: every login mints the same jti.
RecordSameJti(p) ==
  /\ req[p].step = "record"
  /\ minted' = 1
  /\ rows' = Append(rows, 1)
  /\ GotoWith(p, "enforce", 1)
  /\ UNCHANGED <<may, account, held, expired, black, cached, sock, late,
                 torn>>

\* The insert fails for a user deleted meanwhile (foreign key).
RecordSession(p) ==
  /\ req[p].step = "record"
  /\ minted < MaxTokens
  /\ minted' = minted + 1
  /\ IF account = "deleted"
     THEN /\ Ends(p)
          /\ UNCHANGED rows
     ELSE /\ rows' = Append(rows, minted + 1)
          /\ GotoWith(p, "enforce", minted + 1)
  /\ UNCHANGED <<may, account, held, expired, black, cached, sock, late, torn>>

-----------------------------------------------------------------------------
(* refresh_token (bind_token swaps the token the same way).                *)

\* _refreshed_or_revoked: a blocklisted jti answers with its cached
\* replacement, or with 401.
Refresh(p, t) ==
  /\ t \in held \ expired
  /\ IF t \in black
     THEN /\ req[p].step = "none"
          /\ cached[t] # 0
          /\ held' = held \cup {cached[t]}
          /\ UNCHANGED req
     ELSE /\ Begins(p, "refresh", "check", t)
          /\ UNCHANGED held
  /\ UNCHANGED <<may, dbVars, expired, sock, late, torn>>

\* _expired_token_response
RefreshExpired(t) ==
  /\ t \in held \cap expired
  /\ cached[t] # 0
  /\ held' = held \cup {cached[t]}
  /\ UNCHANGED <<may, dbVars, expired, req, sock, late, torn>>

\* _require_active_user, then _reject_idle_session: a session idle for too long
\* is revoked instead of rotated.
RefreshChecks(p) ==
  /\ req[p].step = "check"
  /\ IF account # "active" THEN Ends(p)
     ELSE \/ Goto(p, "swap")
          \/ /\ "idle" \in may
             /\ req[p].tok \in Rows
             /\ Goto(p, "revoke")
  /\ UNCHANGED <<may, dbVars, held, expired, sock, late, torn>>

\* _swap_token: the old jti is blocklisted with the new token beside it ...
SwapBlocklists(p) ==
  /\ req[p].step = "swap"
  /\ minted < MaxTokens
  /\ minted' = minted + 1
  /\ Blocklist(req[p].tok, minted + 1)
  /\ GotoWith(p, "replace", minted + 1)
  /\ UNCHANGED <<may, account, held, expired, rows, sock, late, torn>>

\* replace_session: the row is updated in place, inserted when there is none.
Replaced(old, new) ==
  IF old \in Rows THEN [i \in DOMAIN rows |-> IF rows[i] = old THEN new ELSE rows[i]]
  ELSE Append(rows, new)

\* ... then the row moves to the new jti ...
SwapReplaces(p) ==
  /\ req[p].step = "replace"
  /\ IF account = "deleted"
     THEN /\ Ends(p)
          /\ UNCHANGED rows
     ELSE /\ rows' = Replaced(req[p].tok, req[p].new)
          /\ Goto(p, "retarget")
  /\ UNCHANGED <<may, account, minted, held, expired, black, cached, sock, late,
                 torn>>

\* ... or the database refuses it: the refresh fails, the blocklist entry and
\* the replacement beside it stay.
SwapReplaceFails(p) ==
  /\ "db" \in may
  /\ req[p].step = "replace"
  /\ Ends(p)
  /\ torn' = torn \cup {req[p].new}
  /\ late' = late \cup OnJti(AllSockets, req[p].tok)
  /\ UNCHANGED <<may, dbVars, held, expired, sock>>

\* A mutation: the deciders are not moved.
SwapRetargetsMain(p) ==
  LET moved == OnJti(Sockets, req[p].tok) IN
  /\ req[p].step = "retarget"
  /\ sock' = [s \in AllSockets |->
       IF s \in moved THEN Filed(req[p].new) ELSE sock[s]]
  /\ UNCHANGED late
  /\ Goto(p, "enforce")
  /\ UNCHANGED <<may, dbVars, held, expired, torn>>

\* ... then reattach_jti moves the live sockets of both registries.
SwapRetargets(p) ==
  LET moved == OnJti(AllSockets, req[p].tok) IN
  /\ req[p].step = "retarget"
  /\ sock' = [s \in AllSockets |->
       IF s \in moved THEN Filed(req[p].new) ELSE sock[s]]
  /\ late' = IF req[p].new \in black THEN late \cup moved
             ELSE IF account = "active" THEN late \ moved ELSE late
  /\ Goto(p, "enforce")
  /\ UNCHANGED <<may, dbVars, held, expired, torn>>

-----------------------------------------------------------------------------
(* _enforce_session_limit, _revoke_sessions, revoke_all_user_sessions.     *)

Victims(live) == SubSeq(live, 1, Len(live) - Limit)

\* The request returns its token.
Returns(p) ==
  /\ Ends(p)
  /\ held' = held \cup {req[p].new}

\* A mutation: the rows go before the blocklist entries are written.
EnforceRemovesFirst(p) ==
  LET live == Without(rows, expired) IN
  /\ req[p].step = "enforce"
  /\ IF Len(live) > Limit
     THEN /\ Moves(p, "block", req[p].new, Victims(live), {})
          /\ rows' = SubSeq(live, Len(Victims(live)) + 1, Len(live))
          /\ UNCHANGED held
     ELSE Returns(p) /\ rows' = live
  /\ UNCHANGED <<may, account, minted, expired, black, cached, sock, late, torn>>

\* A mutation: one session too many is let through.
EnforceLate(p) ==
  LET live == Without(rows, expired) IN
  /\ req[p].step = "enforce"
  /\ rows' = live
  /\ IF Len(live) > Limit + 1
     THEN /\ Revokes(p, Victims(live))
          /\ UNCHANGED held
     ELSE Returns(p)
  /\ UNCHANGED <<may, account, minted, expired, black, cached, sock, late, torn>>

\* purge_expired, then the list the victims are taken from.
EnforceLimit(p) ==
  LET live == Without(rows, expired)
      over == Len(live) > Limit IN
  /\ req[p].step = "enforce"
  /\ rows' = live
  /\ IF over
     THEN /\ Revokes(p, Victims(live))
          /\ UNCHANGED held
     ELSE Returns(p)
  /\ UNCHANGED <<may, account, minted, expired, black, cached, sock, late, torn>>

\* What follows once every session of the request is revoked.
AfterRevokes(p) == IF req[p].op = "delete" THEN Goto(p, "flag") ELSE Ends(p)

RevokeAll(p) ==
  /\ req[p].step = "list"
  /\ IF rows = <<>> THEN AfterRevokes(p)
     ELSE Revokes(p, rows)
  /\ UNCHANGED <<may, dbVars, held, expired, sock, late, torn>>

BlocklistNext(p) ==
  /\ req[p].step = "block" /\ req[p].todo # <<>>
  /\ Blocklist(Head(req[p].todo), 0)
  /\ Goto(p, "kick")
  /\ UNCHANGED <<may, account, minted, held, expired, rows, sock, late, torn>>

\* The jti a request has blocklisted and cuts the sockets of.
Cutting(p) == IF req[p].todo = <<>> THEN req[p].tok ELSE Head(req[p].todo)

\* _kick_revoked_sockets: the main connections first ...
KickSockets(p) ==
  /\ req[p].step = "kick"
  /\ Close(OnJti(Sockets, Cutting(p)))
  /\ Goto(p, "kick2")
  /\ UNCHANGED <<may, dbVars, held, expired, torn>>

\* ... then the deciders.
KickDeciders(p) ==
  /\ req[p].step = "kick2"
  /\ Close(OnJti(Deciders, Cutting(p)))
  /\ IF req[p].todo = <<>> THEN Ends(p)
     ELSE Moves(p, IF Len(req[p].todo) = 1 THEN "drop" ELSE "block", req[p].new,
                Tail(req[p].todo), req[p].gone)
  /\ UNCHANGED <<may, dbVars, held, expired, torn>>

RemoveSessions(p) ==
  /\ req[p].step = "drop"
  /\ rows' = Without(rows, req[p].gone)
  /\ IF req[p].op \in {"login", "refresh"} THEN Returns(p)
     ELSE /\ AfterRevokes(p)
          /\ UNCHANGED held
  /\ UNCHANGED <<may, account, minted, expired, black, cached, sock, late, torn>>

-----------------------------------------------------------------------------
(* Logging out, changing the password, disabling and deleting the account. *)

Logout(p, t) ==
  /\ "logout" \in may
  /\ t \in held \ expired
  /\ Begins(p, "logout", "revoke", t)
  /\ UNCHANGED <<may, dbVars, held, expired, sock, late, torn>>

\* _revoke_session: the blocklist first ...
RevokeBlocklists(p) ==
  /\ req[p].step = "revoke"
  /\ Blocklist(req[p].tok, 0)
  /\ Goto(p, "unrow")
  /\ UNCHANGED <<may, account, minted, held, expired, rows, sock, late, torn>>

\* ... then the row, then (KickSockets) the sockets.
RevokeRemoves(p) ==
  /\ req[p].step = "unrow"
  /\ rows' = Without(rows, {req[p].tok})
  /\ Goto(p, "kick")
  /\ UNCHANGED <<may, account, minted, held, expired, black, cached, sock, late,
                 torn>>

\* remove_session fails: the error leaves before the sockets are cut.
RevokeRemoveFails(p) ==
  /\ "db" \in may
  /\ req[p].step = "unrow"
  /\ Ends(p)
  /\ late' = late \cup OnJti(AllSockets, req[p].tok)
  /\ UNCHANGED <<may, dbVars, held, expired, sock, torn>>

Admin(p, op, step) ==
  /\ op \in may
  /\ account = "active"
  /\ Begins(p, op, step, 0)
  /\ UNCHANGED <<may, dbVars, held, expired, sock, late, torn>>

ChangePassword(p) == Admin(p, "change", "list")
DisableUser(p) == Admin(p, "disable", "flag")
DeleteUser(p) == Admin(p, "delete", "list")

\* set_user_disabled; delete_user, which cascades to the session rows.
SetAccount(p) ==
  /\ req[p].step = "flag"
  /\ account' = IF req[p].op = "delete" THEN "deleted"
                ELSE IF account = "deleted" THEN account ELSE "disabled"
  /\ rows' = IF account' = "deleted" THEN <<>> ELSE rows
  /\ Goto(p, "cut")
  /\ UNCHANGED <<may, minted, held, expired, black, cached, sock, late, torn>>

\* _kick_user_sockets
CutSockets(p) ==
  /\ req[p].step = "cut"
  /\ Close({s \in Sockets : Open(s)})
  /\ Goto(p, "cut2")
  /\ UNCHANGED <<may, dbVars, held, expired, torn>>

CutDeciders(p) ==
  /\ req[p].step = "cut2"
  /\ Close({s \in Deciders : Open(s)})
  /\ Ends(p)
  /\ UNCHANGED <<may, dbVars, held, expired, torn>>

-----------------------------------------------------------------------------
(* Sockets: ws_authenticate and handle_websocket, _decider_authenticate and *)
(* handle_consent_decider.                                                 *)

\* _token_revoked
Connect(s, t) ==
  /\ (IF s \in Deciders THEN "deciders" ELSE "sockets") \in may
  /\ sock[s].step = "none"
  /\ Accepted(t)
  /\ sock' = [sock EXCEPT ![s] = [step |-> "checked", jti |-> t]]
  /\ UNCHANGED <<may, dbVars, held, expired, req, late, torn>>

\* get_user_by_id, _ws_token_reject_reason
ConnectReadsUser(s) ==
  /\ sock[s].step = "checked"
  /\ sock' = [sock EXCEPT ![s] =
       IF account = "active" THEN [step |-> "authed", jti |-> sock[s].jti] ELSE NoSock]
  /\ UNCHANGED <<may, dbVars, held, expired, req, late, torn>>

\* The socket is accepted, registered and its expiry armed.
RegisterSocket(s) ==
  /\ sock[s].step = "authed"
  /\ sock' = [sock EXCEPT ![s] = Filed(sock[s].jti)]
  /\ late' = IF sock[s].jti \in black \/ account # "active" THEN late \cup {s}
             ELSE late
  /\ UNCHANGED <<may, dbVars, held, expired, req, torn>>

\* The token of the socket runs out (_expire_when_due), the socket is idle for
\* too long (close_idle_connections), or the client leaves.
SocketEnds(s) ==
  /\ Open(s)
  /\ Close({s})
  /\ UNCHANGED <<may, dbVars, held, expired, req, torn>>

-----------------------------------------------------------------------------
Expires(t) ==
  /\ "expiry" \in may
  /\ t \in 1 .. minted
  /\ t \notin expired
  /\ expired' = expired \cup {t}
  /\ UNCHANGED <<may, dbVars, held, req, sock, late, torn>>

Crash ==
  /\ "crash" \in may
  /\ \E p \in Requests : req[p].step # "none"
  /\ torn' = torn \cup {req[p].new : p \in {q \in Requests : req[q].step = "replace"}}
  /\ req' = [p \in Requests |-> NoReq]
  /\ sock' = [s \in AllSockets |-> NoSock]
  /\ late' = {}
  /\ UNCHANGED <<may, dbVars, held, expired>>

RequestStep(p) ==
  \/ Login(p) \/ RecordSession(p)
  \/ \E t \in held : Refresh(p, t) \/ Logout(p, t)
  \/ RefreshChecks(p) \/ SwapBlocklists(p) \/ SwapReplaces(p) \/ SwapRetargets(p)
  \/ SwapReplaceFails(p) \/ RevokeRemoveFails(p)
  \/ EnforceLimit(p) \/ RevokeAll(p) \/ BlocklistNext(p)
  \/ KickSockets(p) \/ KickDeciders(p) \/ RemoveSessions(p)
  \/ RevokeBlocklists(p) \/ RevokeRemoves(p)
  \/ ChangePassword(p) \/ DisableUser(p) \/ DeleteUser(p)
  \/ SetAccount(p) \/ CutSockets(p) \/ CutDeciders(p)

SocketStep(s) ==
  \/ \E t \in held : Connect(s, t)
  \/ ConnectReadsUser(s) \/ RegisterSocket(s) \/ SocketEnds(s)

Next ==
  \/ \E p \in Requests : RequestStep(p)
  \/ \E s \in AllSockets : SocketStep(s)
  \/ \E t \in Tokens : RefreshExpired(t) \/ Expires(t)
  \/ Crash

Spec == Init /\ [][Next]_vars

-----------------------------------------------------------------------------
(* Properties.                                                             *)

\* Every variable has its type, and no jti has two session rows (jti is the
\* table's primary key).
TypeOK ==
  /\ may \in Scenarios
  /\ account \in {"active", "disabled", "deleted"}
  /\ minted \in 0 .. MaxTokens
  /\ held \subseteq 1 .. minted
  /\ expired \subseteq 1 .. minted
  /\ black \subseteq 1 .. minted
  /\ cached \in [Tokens -> 0 .. minted]
  /\ rows \in Seq(1 .. minted) /\ IsInjective(rows)
  /\ req \in [Requests -> [op : Ops, step : Steps, tok : 0 .. minted,
                           new : 0 .. minted, todo : Seq(1 .. minted),
                           gone : SUBSET (1 .. minted)]]
  /\ sock \in [AllSockets -> [step : {"none", "checked", "authed", "open"},
                              jti : 0 .. minted]]
  /\ late \subseteq {s \in AllSockets : Open(s)}
  /\ torn \subseteq 1 .. minted

\* A token the server accepts has its session row, or is about to get it from
\* the refresh that minted it: revoking writes the blocklist before it deletes
\* the row, and a crash between the two leaves a dead token's row behind, never
\* a live token without a row.  Only a crash or an error between the two halves
\* of _swap_token leaves a replacement without one.
LiveHasRow ==
  account # "deleted" =>
    \A t \in held \ torn :
      Accepted(t) => \/ t \in Rows
                     \/ \E p \in Requests : req[p].step = "replace" /\ req[p].new = t

\* The request p still has the sockets of jti t, or of the user, to cut or move.
WillReach(p, s) ==
  \/ req[p].step \in {"unrow", "replace", "retarget"} /\ req[p].tok = sock[s].jti
  \/ req[p].step = "kick" /\ Cutting(p) = sock[s].jti
  \/ req[p].step = "kick2" /\ Cutting(p) = sock[s].jti /\ s \in Deciders
  \/ req[p].step = "cut"
  \/ req[p].step = "cut2" /\ s \in Deciders

\* A revocation finds every socket that was registered before it: an open
\* socket's jti is live and its user active, unless a request under way is still
\* going to cut or move it, it was filed under a jti or user revoked before, or
\* the request that was to reach it failed on the database.
SocketsFollow ==
  \A s \in AllSockets \ late :
    Open(s) /\ (sock[s].jti \in black \/ account # "active") =>
      \E p \in Requests : WillReach(p, s)

\* The session cap: when a login or a refresh answers and no other request is
\* under way, the user has at most max_sessions_per_user session rows, whatever
\* interleaved with it and whatever a crash left behind.
CapHolds ==
  [][\A p \in Requests :
       /\ EnforceLimit(p) \/ RemoveSessions(p)
       /\ req[p].op \in {"login", "refresh"}
       /\ \A q \in Requests : req'[q] = NoReq
       => Len(rows') <= Limit]_vars

\* _revoke_session: "Fully terminate the session behind *jti*: blocklist the
\* token (no cached replacement, so any later use 401s as revoked)".  A refresh
\* of a token that was revoked, not replaced, returns no token the server
\* accepts.
RevokedForGood ==
  [][\A p \in Requests, t \in Tokens :
       /\ req[p].op = "refresh" /\ req[p].new = t /\ req'[p] = NoReq
       /\ req[p].tok \in black /\ cached[req[p].tok] = 0
       => ~Accepted(t)']_vars
=============================================================================
