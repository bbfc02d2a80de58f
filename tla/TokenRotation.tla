--------------------------- MODULE TokenRotation ---------------------------
(***************************************************************************)
(* Sessions: login, the access check of every request, refresh with single *)
(* use of the refresh token, and logout, over a revocation store whose     *)
(* entries expire (Redis) or not (one process).                            *)
(*                                                                         *)
(* The requests of one browser share its cookies.  Each call of the store  *)
(* is a step.  Time is counted in ticks, Second of them to a second,       *)
(* because claims and lifetimes are truncated to whole seconds while the   *)
(* clock is not.                                                           *)
(***************************************************************************)
EXTENDS Naturals, Sequences, FiniteSets

CONSTANTS
  Tab,          \* the browser's tabs, each with one request in flight
  Shared,       \* settings.uses_shared_state: the store is Redis
  Second,       \* ticks in a second
  AccessTTL, RefreshTTL, Skew,   \* JwtTokenSettings
  MinTTL,       \* MIN_TTL_SECONDS
  Op,           \* what the tabs do: a subset of me, refresh and logout
  MaxLogin,     \* bound: no login beyond this many
  MaxPair,      \* bound: no pair is issued beyond this many
  MaxTime       \* bound: the clock, which starts with the first login, stops here

ASSUME StoreAssumption == Shared \in BOOLEAN
ASSUME TimeAssumption ==
  /\ Second \in Nat \ {0} /\ MinTTL \in Nat /\ Second <= MinTTL
  /\ AccessTTL \in Nat \ {0} /\ RefreshTTL \in Nat \ {0}
  /\ Skew \in Nat
\* MIN_TTL_SECONDS is a whole number of seconds.
ASSUME WholeAssumption == MinTTL % Second = 0
ASSUME BoundAssumption == /\ MaxLogin \in Nat /\ MaxPair \in Nat /\ MaxTime \in Nat
                          /\ Op \subseteq {"me", "refresh", "logout"}

Forever == 1   \* the end of an entry that is never dropped
Kind == {"access", "refresh"}
Pair == 1 .. MaxPair
MaybePair == 0 .. MaxPair      \* 0: no token

VARIABLES
  now,        \* the clock
  pairs,      \* the pairs issued, in order: session, time and parent
  tokenEnd,   \* tokenEnd[k][p]: when the entry of a token id expires, 0: none
  sessionEnd, \* the same for session ids
  jar,        \* the pair in the two cookies of the browser
  req,        \* req[c]: the request of tab c
  out         \* history: earliest expiry among the tokens that logged s out

store == <<tokenEnd, sessionEnd>>
vars == <<now, pairs, store, jar, req, out>>

\* int() of a time or of a difference: whole seconds.
Whole(t) == t - (t % Second)

TTL(k) == IF k = "access" THEN AccessTTL ELSE RefreshTTL
Exp(k, p) == Whole(pairs[p].at + TTL(k))

\* The clock starts late enough for 0 to be nobody's expiry.
Time == {t \in Nat : Second <= t}

\* A session is named by its first pair.
Issued == [sess: Pair, at: Time, parent: MaybePair]

\* access, refresh: the cookies the handler reads; barred: their session had been logged out
\* before; pair: the pair the answer carries.
Request ==
  [pc: {"idle", "token1", "session1", "token2", "session2", "consume", "add",
        "issue", "revoke", "revokeSession", "answer"},
   op: {"none", "login", "me", "refresh", "logout"},
   access: MaybePair, refresh: MaybePair, barred: BOOLEAN, pair: MaybePair]
IdleRequest == [pc |-> "idle", op |-> "none", access |-> 0, refresh |-> 0,
                barred |-> FALSE, pair |-> 0]

Init ==
  /\ now \in Second .. 2 * Second - 1
  /\ pairs = <<>>
  /\ tokenEnd = [k \in Kind |-> [p \in Pair |-> 0]]
  /\ sessionEnd = [s \in Pair |-> 0]
  /\ jar = 0
  /\ req = [c \in Tab |-> IdleRequest]
  /\ out = [s \in Pair |-> 0]

(***************************************************************************)
(* The store.                                                              *)
(***************************************************************************)
Live(end) == end # 0

\* Mutant: the difference taken the wrong way round, and not bounded below.
SwappedEnd(exp) == now + (now - exp)
\* Mutant: a fixed lifetime.
FixedEnd(exp) == now + MinTTL
\* _ttl, counted from now; an entry of the process has no end.
End(exp) ==
  IF ~ Shared THEN Forever
  ELSE now + (IF now + MinTTL <= exp THEN Whole(exp - now) ELSE MinTTL)
\* Redis drops the entries whose end has come.
Kept(end) == IF Shared /\ end <= now' THEN 0 ELSE end

(***************************************************************************)
(* Tokens.                                                                 *)
(***************************************************************************)
\* _decode: the issuer's clock is this clock, so only expiry can refuse.
Decodes(k, p) == now < Exp(k, p) + Skew

Issue(s, parent) ==
  /\ Len(pairs) < MaxPair
  /\ pairs' = Append(pairs, [sess |-> s, at |-> now, parent |-> parent])

\* The token that me or refresh is about.
Subject(q) == CASE q.op = "me" -> q.access
                [] q.op = "refresh" -> q.refresh
                [] OTHER -> 0
SubjectKind(q) == IF q.op = "me" THEN "access" ELSE "refresh"
Session(q) == pairs[Subject(q)].sess

(***************************************************************************)
(* Requests.                                                               *)
(***************************************************************************)
\* authenticate succeeds and names a new session.
Login(c) ==
  /\ req[c].pc = "idle"
  /\ Cardinality({p \in DOMAIN pairs : pairs[p].parent = 0}) < MaxLogin
  /\ Issue(Len(pairs) + 1, 0)
  /\ req' = [req EXCEPT ![c] = [IdleRequest EXCEPT !.pc = "answer",
                                  !.op = "login", !.pair = Len(pairs) + 1]]
  /\ UNCHANGED <<now, store, jar, out>>

\* A request leaves with the cookies as they are now.  A cookie past its max-age
\* is not sent: the browser's clock decides, which is not the server's.
Asked(op, access, refresh) ==
  [IdleRequest EXCEPT !.op = op, !.access = access, !.refresh = refresh,
                      !.pc = IF op = "logout" THEN "revoke" ELSE "token1"]
Barred(q) == Subject(q) # 0 /\ out[Session(q)] # 0

Send(c, op) ==
  /\ req[c].pc = "idle"
  /\ \E access, refresh \in {0, jar} :
       LET q == Asked(op, access, refresh)
       IN /\ op = "me" => refresh = 0
          /\ op = "refresh" => access = 0
          /\ req' = [req EXCEPT ![c] = [q EXCEPT !.barred = Barred(q)]]
  /\ UNCHANGED <<now, pairs, store, jar, out>>

Goto(c, pc) == req' = [req EXCEPT ![c].pc = pc]
Stop(c) == req' = [req EXCEPT ![c] = IdleRequest]

\* The cookie is there, _decode and is_token_revoked; a refresh passes twice, in the dependency and
\* in rotate_token_pair.
TokenValid(q) ==
  /\ Subject(q) # 0
  /\ Decodes(SubjectKind(q), Subject(q))
  /\ ~ Live(tokenEnd[SubjectKind(q)][Subject(q)])

CheckToken(c) ==
  LET q == req[c]
  IN /\ q.pc \in {"token1", "token2"}
     /\ IF TokenValid(q)
        THEN Goto(c, IF q.pc = "token1" THEN "session1" ELSE "session2")
        ELSE Stop(c)
     /\ UNCHANGED <<now, pairs, store, jar, out>>

\* Mutant: is_session_revoked is not asked.
TokenOnly(q) == TRUE
SessionValid(q) == ~ Live(sessionEnd[Session(q)])

CheckSession(c) ==
  LET q == req[c]
      next == IF q.op = "me" THEN "answer"
              ELSE IF q.pc = "session1" THEN "token2" ELSE "consume"
  IN /\ q.pc \in {"session1", "session2"}
     /\ IF SessionValid(q) THEN Goto(c, next) ELSE Stop(c)
     /\ UNCHANGED <<now, pairs, store, jar, out>>

Used(p) == Live(tokenEnd["refresh"][p])
Record(k, p) == tokenEnd' = [tokenEnd EXCEPT ![k][p] = End(Exp(k, p))]

\* Mutant: SET without NX.
SetAlways(c) ==
  /\ Shared /\ req[c].pc = "consume"
  /\ Record("refresh", req[c].refresh) /\ Goto(c, "issue")
  /\ UNCHANGED <<now, pairs, sessionEnd, jar, out>>
\* SET NX EX: one call of Redis.
Consume(c) ==
  LET p == req[c].refresh
  IN /\ Shared /\ req[c].pc = "consume"
     /\ IF Used(p) THEN Stop(c) /\ UNCHANGED tokenEnd
                   ELSE Record("refresh", p) /\ Goto(c, "issue")
     /\ UNCHANGED <<now, pairs, sessionEnd, jar, out>>

\* The process-local store tests and then adds, with no lock: another thread
\* may run in between.
TestUsed(c) ==
  /\ ~ Shared /\ req[c].pc = "consume"
  /\ IF Used(req[c].refresh) THEN Stop(c) ELSE Goto(c, "add")
  /\ UNCHANGED <<now, pairs, store, jar, out>>

\* Mutant: the token is tested but not added.
AddNothing(c) ==
  /\ req[c].pc = "add"
  /\ Goto(c, "issue")
  /\ UNCHANGED <<now, pairs, store, jar, out>>
AddUsed(c) ==
  /\ req[c].pc = "add"
  /\ Record("refresh", req[c].refresh)
  /\ Goto(c, "issue")
  /\ UNCHANGED <<now, pairs, sessionEnd, jar, out>>

\* issue_token_pair for the session of the consumed token.
Rotate(c) ==
  LET q == req[c]
  IN /\ q.pc = "issue"
     /\ Issue(Session(q), q.refresh)
     /\ req' = [req EXCEPT ![c].pc = "answer", ![c].pair = Len(pairs) + 1]
     /\ UNCHANGED <<now, store, jar, out>>

\* Logout: the access token, then the session; what does not decode is skipped.
RevokeAccess(c) ==
  LET p == req[c].access
  IN /\ req[c].pc = "revoke"
     /\ IF p # 0 /\ Decodes("access", p) THEN Record("access", p)
                                         ELSE UNCHANGED tokenEnd
     /\ Goto(c, "revokeSession")
     /\ UNCHANGED <<now, pairs, sessionEnd, jar, out>>

RevokeSession(c) ==
  LET p == req[c].refresh
      s == pairs[p].sess
      exp == Exp("refresh", p)
  IN /\ req[c].pc = "revokeSession"
     /\ IF p # 0 /\ Decodes("refresh", p)
        THEN /\ sessionEnd' = [sessionEnd EXCEPT ![s] = End(exp)]
             /\ out' = [out EXCEPT ![s] = IF @ = 0 \/ exp < @ THEN exp ELSE @]
        ELSE UNCHANGED <<sessionEnd, out>>
     /\ Goto(c, "answer")
     /\ UNCHANGED <<now, pairs, tokenEnd, jar>>

\* The answer reaches the browser, in any order with those of other tabs; the
\* answer to a logout deletes the cookies.
Receive(c) ==
  LET q == req[c]
  IN /\ q.pc = "answer"
     /\ jar' = IF q.op = "me" THEN jar ELSE q.pair
     /\ Stop(c)
     /\ UNCHANGED <<now, pairs, store, out>>

\* The answer is lost or is a 401 without cookies (build_session finds no
\* workspace), a call of the store fails, or the handler dies.
Abandon(c) ==
  /\ req[c].pc # "idle"
  /\ Stop(c)
  /\ UNCHANGED <<now, pairs, store, jar, out>>

Tick ==
  /\ now < MaxTime /\ pairs # <<>>
  /\ now' = now + 1
  /\ tokenEnd' = [k \in Kind |-> [p \in Pair |-> Kept(tokenEnd[k][p])]]
  /\ sessionEnd' = [s \in Pair |-> Kept(sessionEnd[s])]
  /\ UNCHANGED <<pairs, jar, req, out>>

Next ==
  \/ Tick
  \/ \E c \in Tab :
       \/ Login(c) \/ \E op \in Op : Send(c, op)
       \/ CheckToken(c) \/ CheckSession(c)
       \/ Consume(c) \/ TestUsed(c) \/ AddUsed(c) \/ Rotate(c)
       \/ RevokeAccess(c) \/ RevokeSession(c)
       \/ Receive(c) \/ Abandon(c)

Spec == Init /\ [][Next]_vars

(***************************************************************************)
(* Properties.                                                             *)
(***************************************************************************)
\* Every variable stays in its domain.
TypeOK ==
  /\ now \in Time
  /\ pairs \in Seq(Issued) /\ Len(pairs) <= MaxPair
  /\ tokenEnd \in [Kind -> [Pair -> Nat]]
  /\ sessionEnd \in [Pair -> Nat]
  /\ jar \in MaybePair
  /\ req \in [Tab -> Request]
  /\ out \in [Pair -> Nat]

Siblings(p, q) == p < q /\ pairs[p].parent = pairs[q].parent /\ pairs[p].parent # 0

\* With Redis, a refresh token is rotated a second time at most in the last
\* second of its life or after it, in the clock skew _decode tolerates: however
\* many tabs refresh at once, and however long one of them is delayed.
ForkOnlyPastExpiry ==
  \A p, q \in DOMAIN pairs :
    Siblings(p, q) => Exp("refresh", pairs[q].parent) < pairs[q].at + Second

\* me is answered, or a pair is issued, to a request of tab c.
Granted(c) == /\ req'[c].op \in {"me", "refresh"}
              /\ req[c].pc # "answer" /\ req'[c].pc = "answer"

\* After a logout nothing sent for that session is granted before the refresh
\* token that was logged out expires; this covers the tokens a racing refresh
\* still obtained.
LogoutHolds ==
  [][\A c \in Tab :
       Granted(c) /\ req[c].barred => out[Session(req[c])] < now + Second]_vars

\* "Revokes the access token and the whole session" (docs/08): after a logout
\* nothing sent for that session is granted on a token that is still accepted,
\* ever.  The process-local store keeps it.
OnValidToken(q) == Decodes(SubjectKind(q), Subject(q))
LogoutIsLasting ==
  [][\A c \in Tab : Granted(c) /\ OnValidToken(req[c]) => ~ req[c].barred]_vars

Rotated(p) == \E q \in DOMAIN pairs : pairs[q].parent = p

\* docs/07: the record of a used refresh token is kept for as long as the token
\* is accepted.  The process-local store keeps it; the entries of Redis end
\* earlier, within the clock skew.
RecordOutlivesToken ==
  \A p \in DOMAIN pairs : Rotated(p) /\ Decodes("refresh", p) => Used(p)

(***************************************************************************)
(* The inductive invariant.                                                *)
(***************************************************************************)
\* Expired, or in the last second of its life, where truncation may already
\* have ended the record of its use.
Past(exp) == Shared /\ exp < now + Second
Exchanging == {"token2", "session2", "consume", "add", "issue"}

PairInv ==
  \A p \in DOMAIN pairs : /\ pairs[p].parent < p
                          /\ pairs[p].sess \in DOMAIN pairs

ReqInv(q) ==
  /\ q.access <= Len(pairs) /\ q.refresh <= Len(pairs) /\ q.pair <= Len(pairs)
  /\ q.pc \in {"session1", "session2"} \cup Exchanging => Subject(q) # 0
  /\ q.pc \in Exchanging => q.op = "refresh"
  /\ q.pc = "add" => ~ Shared
  /\ q.pc \in {"revoke", "revokeSession"} => q.op = "logout"
  /\ q.barred => Barred(q)
  /\ q.barred /\ q.pc \in Exchanging => Past(out[Session(q)])

\* An entry of Redis ends less than a second before its token.
EndInv ==
  /\ \A p \in Pair : tokenEnd["refresh"][p] # 0 => p \in DOMAIN pairs
  /\ Shared => \A p \in DOMAIN pairs :
       Used(p) => Exp("refresh", p) < tokenEnd["refresh"][p] + Second
  /\ Shared => \A s \in Pair :
       sessionEnd[s] # 0 => out[s] < sessionEnd[s] + Second

\* What was used, or logged out, is on record until the token is past.
RecordInv ==
  /\ \A p \in DOMAIN pairs :
       (\/ Rotated(p)
        \/ \E c \in Tab : req[c].pc = "issue" /\ req[c].refresh = p)
       => Used(p) \/ Past(Exp("refresh", p))
  /\ \A s \in Pair : out[s] # 0 => sessionEnd[s] # 0 \/ Past(out[s])

\* Two exchanges of one token, each by a pair already issued or by a request
\* about to issue one, happen only when it is past.
ForkInv ==
  Shared =>
    /\ ForkOnlyPastExpiry
    /\ \A c \in Tab : req[c].pc = "issue" =>
         /\ Rotated(req[c].refresh) => Past(Exp("refresh", req[c].refresh))
         /\ \A d \in Tab \ {c} :
              req[d].pc = "issue" /\ req[d].refresh = req[c].refresh
              => Past(Exp("refresh", req[c].refresh))

IInv ==
  /\ TypeOK
  /\ jar <= Len(pairs)
  /\ PairInv /\ EndInv /\ RecordInv /\ ForkInv
  /\ \A c \in Tab : ReqInv(req[c])
=============================================================================
