------------------------ MODULE TokenRotationProofs ------------------------
(***************************************************************************)
(* Theorems about TokenRotation, for any number of tabs, pairs and         *)
(* lifetimes.                                                              *)
(***************************************************************************)
EXTENDS TokenRotation, TLAPS

(***************************************************************************)
(* Truncation and lifetimes.                                               *)
(***************************************************************************)
\* int() loses less than a second and leaves a natural number.
LEMMA WholeBounds ==
  ASSUME NEW t \in Nat
  PROVE  Whole(t) \in Nat /\ Whole(t) <= t /\ t < Whole(t) + Second
<1>1. Second \in Nat /\ Second > 0
  BY TimeAssumption
<1>2. t % Second \in 0 .. Second - 1
  BY <1>1
<1>3. t % Second <= t
  BY <1>1, <1>2, SMT
<1> QED
  BY <1>1, <1>2, <1>3 DEF Whole

\* The record of a token ends less than a second before the token, or later.
LEMMA EndBounds ==
  ASSUME NEW exp \in Nat, now \in Nat
  PROVE  /\ End(exp) \in Nat /\ End(exp) # 0
         /\ Shared => exp < End(exp) + Second
<1>1. Second \in Nat \ {0} /\ MinTTL \in Nat /\ Second <= MinTTL
  BY TimeAssumption
<1>2. CASE ~ Shared
  BY <1>2 DEF End, Forever
<1>3. CASE Shared /\ now + MinTTL <= exp
  <2>1. exp - now \in Nat /\ Second <= exp - now
    BY <1>1, <1>3
  <2>2. /\ Whole(exp - now) \in Nat
        /\ exp - now < Whole(exp - now) + Second
    BY <2>1, WholeBounds
  <2>3. End(exp) = now + Whole(exp - now)
    BY <1>3 DEF End
  <2> QED
    BY <1>1, <2>1, <2>2, <2>3
<1>4. CASE Shared /\ ~ (now + MinTTL <= exp)
  <2>1. End(exp) = now + MinTTL
    BY <1>4 DEF End
  <2> QED
    BY <1>1, <1>4, <2>1
<1> QED
  BY <1>2, <1>3, <1>4, StoreAssumption

(***************************************************************************)
(* Types.                                                                  *)
(***************************************************************************)
LEMMA PairDomain ==
  ASSUME TypeOK
  PROVE  /\ DOMAIN pairs = 1 .. Len(pairs) /\ Len(pairs) \in Nat
         /\ DOMAIN pairs \subseteq Pair
         /\ \A p \in DOMAIN pairs : pairs[p] \in Issued
BY BoundAssumption DEF TypeOK, Pair

LEMMA ExpNat ==
  ASSUME TypeOK, NEW k \in Kind, NEW p \in DOMAIN pairs
  PROVE  Exp(k, p) \in Nat /\ Exp(k, p) # 0
<1>1. pairs[p].at \in Nat /\ Second <= pairs[p].at
  BY PairDomain DEF Issued, Time
<1>2. pairs[p].at + TTL(k) \in Nat /\ Second <= pairs[p].at + TTL(k)
  BY <1>1, TimeAssumption DEF TTL
<1>3. Second \in Nat
  BY TimeAssumption
<1> QED
  BY <1>2, <1>3, WholeBounds DEF Exp

LEMMA InitType == Init => TypeOK
<1> SUFFICES ASSUME Init PROVE TypeOK
  OBVIOUS
<1>1. now \in Time
  BY TimeAssumption DEF Init, Time
<1>2. pairs \in Seq(Issued) /\ Len(pairs) <= MaxPair
  BY BoundAssumption DEF Init
<1>3. IdleRequest \in Request
  BY BoundAssumption DEF IdleRequest, Request, MaybePair
<1>4. req \in [Tab -> Request]
  BY <1>3 DEF Init
<1>5. jar \in MaybePair
  BY BoundAssumption DEF Init, MaybePair
<1> QED
  BY <1>1, <1>2, <1>4, <1>5 DEF Init, TypeOK

LEMMA IssueType ==
  ASSUME TypeOK, NEW s \in Pair, NEW parent \in MaybePair, Issue(s, parent)
  PROVE  /\ pairs' \in Seq(Issued) /\ Len(pairs') = Len(pairs) + 1
         /\ Len(pairs') <= MaxPair
         /\ \A p \in DOMAIN pairs : pairs'[p] = pairs[p]
         /\ pairs'[Len(pairs) + 1] = [sess |-> s, at |-> now, parent |-> parent]
         /\ DOMAIN pairs' = DOMAIN pairs \cup {Len(pairs) + 1}
<1>1. [sess |-> s, at |-> now, parent |-> parent] \in Issued
  BY DEF TypeOK, Issued
<1> QED
  BY <1>1, BoundAssumption DEF TypeOK, Issue

LEMMA RecordType ==
  ASSUME TypeOK, NEW k \in Kind, NEW p \in DOMAIN pairs, Record(k, p)
  PROVE  tokenEnd' \in [Kind -> [Pair -> Nat]]
<1>1. End(Exp(k, p)) \in Nat
  BY ExpNat, EndBounds DEF TypeOK, Time
<1> QED
  BY <1>1 DEF TypeOK, Record

\* Every step keeps the types.
LEMMA TypeStep == IInv /\ [Next]_vars => TypeOK'
<1> SUFFICES ASSUME IInv, [Next]_vars PROVE TypeOK'
  OBVIOUS
<1>0. TypeOK
  BY DEF IInv
<1>i. IdleRequest \in Request
  BY BoundAssumption DEF IdleRequest, Request, MaybePair
<1>a. ASSUME NEW c \in Tab, Stop(c)
      PROVE  req' \in [Tab -> Request]
  BY <1>0, <1>a, <1>i DEF Stop, TypeOK
<1>b. ASSUME NEW c \in Tab, NEW pc, Goto(c, pc),
             pc \in {"session1", "session2", "token2", "consume", "add",
                     "issue", "revokeSession", "answer"}
      PROVE  req' \in [Tab -> Request]
  <2>1. [req[c] EXCEPT !.pc = pc] \in Request
    BY <1>0, <1>b DEF TypeOK, Request
  <2> QED
    BY <1>0, <1>b, <2>1 DEF Goto, TypeOK
<1>1. CASE UNCHANGED vars
  BY <1>0, <1>1 DEF vars, store, TypeOK
<1>2. CASE Tick
  <2>1. now' \in Time
    BY <1>0, <1>2, TimeAssumption DEF Tick, TypeOK, Time
  <2>2. \A e \in Nat : Kept(e) \in Nat
    BY DEF Kept
  <2>3. tokenEnd' \in [Kind -> [Pair -> Nat]] /\ sessionEnd' \in [Pair -> Nat]
    BY <1>0, <1>2, <2>2 DEF Tick, TypeOK
  <2> QED
    BY <1>0, <1>2, <2>1, <2>3 DEF Tick, TypeOK
<1>3. ASSUME NEW c \in Tab, Login(c) PROVE TypeOK'
  <2>1. Len(pairs) + 1 \in Pair /\ 0 \in MaybePair
    BY <1>0, <1>3, PairDomain, BoundAssumption DEF Login, Issue, Pair, MaybePair
  <2>2. pairs' \in Seq(Issued) /\ Len(pairs') <= MaxPair
    BY <1>0, <1>3, <2>1, IssueType DEF Login
  <2>3. req' \in [Tab -> Request]
    <3>1. [IdleRequest EXCEPT !.pc = "answer", !.op = "login",
             !.pair = Len(pairs) + 1] \in Request
      <4>1. Len(pairs) + 1 \in MaybePair
        BY <2>1, BoundAssumption DEF Pair, MaybePair
      <4> QED
        BY <1>i, <4>1 DEF Request
    <3> QED
      BY <1>0, <1>3, <3>1 DEF Login, TypeOK
  <2> QED
    BY <1>0, <1>3, <2>2, <2>3 DEF Login, TypeOK, store
<1>4. ASSUME NEW c \in Tab, NEW op \in Op, Send(c, op) PROVE TypeOK'
  <2>1. PICK access \in {0, jar}, refresh \in {0, jar} :
          req' = [req EXCEPT ![c] = [Asked(op, access, refresh) EXCEPT
                    !.barred = Barred(Asked(op, access, refresh))]]
    BY <1>4 DEF Send
  <2>2. access \in MaybePair /\ refresh \in MaybePair
    BY <1>0, BoundAssumption DEF TypeOK, MaybePair
  <2>3. op \in {"me", "refresh", "logout"}
    BY BoundAssumption
  <2>4. req' \in [Tab -> Request]
    BY <1>0, <1>i, <2>1, <2>2, <2>3
    DEF TypeOK, Request, IdleRequest, Asked, Barred
  <2> QED
    BY <1>0, <1>4, <2>4 DEF Send, TypeOK, store
<1>5. ASSUME NEW c \in Tab, CheckToken(c) PROVE TypeOK'
  BY <1>0, <1>5, <1>a, <1>b DEF CheckToken, TypeOK, store
<1>6. ASSUME NEW c \in Tab, CheckSession(c) PROVE TypeOK'
  BY <1>0, <1>6, <1>a, <1>b DEF CheckSession, TypeOK, store
<1>7. ASSUME NEW c \in Tab, Consume(c) PROVE TypeOK'
  <2>1. CASE Used(req[c].refresh)
    BY <1>0, <1>7, <1>a, <2>1 DEF Consume, TypeOK
  <2>2. CASE ~ Used(req[c].refresh)
    <3>1. req[c].refresh \in DOMAIN pairs
      BY <1>0, <1>7, PairDomain
      DEF Consume, IInv, ReqInv, Exchanging, Subject, TypeOK, Request, MaybePair
    <3> QED
      BY <1>0, <1>7, <1>b, <2>2, <3>1, RecordType DEF Consume, TypeOK, Kind
  <2> QED
    BY <2>1, <2>2
<1>8. ASSUME NEW c \in Tab, TestUsed(c) PROVE TypeOK'
  BY <1>0, <1>8, <1>a, <1>b DEF TestUsed, TypeOK, store
<1>9. ASSUME NEW c \in Tab, AddUsed(c) PROVE TypeOK'
  <2>1. req[c].refresh \in DOMAIN pairs
    BY <1>0, <1>9, PairDomain
    DEF AddUsed, IInv, ReqInv, Exchanging, Subject, TypeOK, Request, MaybePair
  <2> QED
    BY <1>0, <1>9, <1>b, <2>1, RecordType DEF AddUsed, TypeOK, Kind
<1>10. ASSUME NEW c \in Tab, Rotate(c) PROVE TypeOK'
  <2>1. req[c].refresh \in DOMAIN pairs /\ Subject(req[c]) = req[c].refresh
    BY <1>0, <1>10, PairDomain
    DEF Rotate, IInv, ReqInv, Exchanging, Subject, TypeOK, Request, MaybePair
  <2>2. Session(req[c]) \in Pair /\ req[c].refresh \in MaybePair
    BY <1>0, <2>1, PairDomain DEF Session, Issued, TypeOK, Request
  <2>3. /\ pairs' \in Seq(Issued) /\ Len(pairs') <= MaxPair
        /\ Len(pairs) + 1 \in MaybePair
    BY <1>0, <1>10, <2>2, IssueType, PairDomain, BoundAssumption
    DEF Rotate, MaybePair, Issue
  <2>4. [req[c] EXCEPT !.pc = "answer", !.pair = Len(pairs) + 1] \in Request
    BY <1>0, <2>3 DEF TypeOK, Request
  <2>5. req' = [req EXCEPT ![c] =
                  [req[c] EXCEPT !.pc = "answer", !.pair = Len(pairs) + 1]]
    BY <1>0, <1>10 DEF Rotate, TypeOK
  <2> QED
    BY <1>0, <1>10, <2>3, <2>4, <2>5 DEF Rotate, TypeOK, store
<1>11. ASSUME NEW c \in Tab, RevokeAccess(c) PROVE TypeOK'
  <2>1. tokenEnd' \in [Kind -> [Pair -> Nat]]
    <3>1. CASE req[c].access # 0 /\ Decodes("access", req[c].access)
      <4>1. req[c].access \in DOMAIN pairs
        BY <1>0, <3>1, PairDomain DEF IInv, ReqInv, TypeOK, Request, MaybePair
      <4> QED
        BY <1>0, <1>11, <3>1, <4>1, RecordType DEF RevokeAccess, Kind
    <3>2. CASE ~ (req[c].access # 0 /\ Decodes("access", req[c].access))
      BY <1>0, <1>11, <3>2 DEF RevokeAccess, TypeOK
    <3> QED
      BY <3>1, <3>2
  <2> QED
    BY <1>0, <1>11, <1>b, <2>1 DEF RevokeAccess, TypeOK
<1>12. ASSUME NEW c \in Tab, RevokeSession(c) PROVE TypeOK'
  <2>1. sessionEnd' \in [Pair -> Nat] /\ out' \in [Pair -> Nat]
    <3>1. CASE req[c].refresh # 0 /\ Decodes("refresh", req[c].refresh)
      <4>1. req[c].refresh \in DOMAIN pairs
        BY <1>0, <3>1, PairDomain DEF IInv, ReqInv, TypeOK, Request, MaybePair
      <4>2. Exp("refresh", req[c].refresh) \in Nat
        BY <1>0, <4>1, ExpNat DEF Kind
      <4>3. End(Exp("refresh", req[c].refresh)) \in Nat
        BY <1>0, <4>2, EndBounds DEF TypeOK, Time
      <4> QED
        BY <1>0, <1>12, <3>1, <4>2, <4>3 DEF RevokeSession, TypeOK
    <3>2. CASE ~ (req[c].refresh # 0 /\ Decodes("refresh", req[c].refresh))
      BY <1>0, <1>12, <3>2 DEF RevokeSession, TypeOK
    <3> QED
      BY <3>1, <3>2
  <2> QED
    BY <1>0, <1>12, <1>b, <2>1 DEF RevokeSession, TypeOK
<1>13. ASSUME NEW c \in Tab, Receive(c) PROVE TypeOK'
  <2>1. jar' \in MaybePair
    BY <1>0, <1>13 DEF Receive, TypeOK, Request
  <2> QED
    BY <1>0, <1>13, <1>a, <2>1 DEF Receive, TypeOK, store
<1>14. ASSUME NEW c \in Tab, Abandon(c) PROVE TypeOK'
  BY <1>0, <1>14, <1>a DEF Abandon, TypeOK, store
<1> QED
  BY <1>1, <1>2, <1>3, <1>4, <1>5, <1>6, <1>7, <1>8, <1>9, <1>10, <1>11, <1>12,
     <1>13, <1>14
  DEF Next

(***************************************************************************)
(* What a step leaves of the facts a request relies on: pairs stay, time   *)
(* goes on, and a session that was logged out stays so, to an earlier      *)
(* expiry at most.                                                         *)
(***************************************************************************)
Later ==
  /\ now <= now'
  /\ Len(pairs) <= Len(pairs')
  /\ \A p \in DOMAIN pairs : pairs'[p] = pairs[p]
  /\ \A s \in Pair : out[s] # 0 => out'[s] # 0 /\ out'[s] <= out[s]

LEMMA LaterWhenSame ==
  ASSUME TypeOK, UNCHANGED <<now, pairs, out>>
  PROVE  Later
BY DEF TypeOK, Later, Time

\* An expiry is fixed when the pair is issued.
LEMMA ExpStays ==
  ASSUME Later, NEW k \in Kind, NEW p \in DOMAIN pairs
  PROVE  Exp(k, p)' = Exp(k, p)
BY DEF Later, Exp, Whole, TTL

LEMMA BoundMoves ==
  ASSUME NEW e \in Nat, NEW f \in Nat, NEW m \in Nat, NEW n \in Nat,
         f <= e, m <= n, e < m + Second
  PROVE  f < n + Second
BY TimeAssumption

LEMMA BoundEnds ==
  ASSUME NEW e \in Nat, NEW end \in Nat, NEW n \in Nat,
         end <= n, e < end + Second
  PROVE  e < n + Second
BY TimeAssumption

\* What is past stays past.
LEMMA PastStays ==
  ASSUME TypeOK, TypeOK', Later, NEW e \in Nat, NEW f \in Nat, f <= e, Past(e)
  PROVE  Shared /\ f < now' + Second
<1>1. now \in Nat /\ now' \in Nat /\ now <= now'
  BY DEF Later, TypeOK, Time
<1>2. Shared /\ e < now + Second
  BY DEF Past
<1>3. f < now' + Second
  BY <1>1, <1>2, BoundMoves
<1> QED
  BY <1>2, <1>3

\* A request that a step leaves alone knows afterwards what it knew.
LEMMA ReqInvStays ==
  ASSUME TypeOK, TypeOK', PairInv, Later, NEW q \in Request, ReqInv(q)
  PROVE  ReqInv(q)'
<1>1. Subject(q)' = Subject(q) /\ Subject(q) \in Nat
  BY BoundAssumption DEF Subject, Request, MaybePair
<1>2. Subject(q) <= Len(pairs)
  BY BoundAssumption DEF Subject, ReqInv, Request, MaybePair, TypeOK
<1>3. ASSUME Subject(q) # 0
      PROVE  /\ Session(q)' = Session(q) /\ Session(q) \in Pair
  <2>1. Subject(q) \in DOMAIN pairs
    BY <1>1, <1>2, <1>3, PairDomain
  <2> QED
    BY <1>1, <2>1, PairDomain DEF Session, Later, Issued
<1>4. Barred(q) => Barred(q)'
  BY <1>1, <1>3 DEF Barred, Later
<1>5. ASSUME q.barred, Past(out[Session(q)])
      PROVE  Past(out[Session(q)])'
  <2>1. Subject(q) # 0 /\ out[Session(q)] # 0
    BY <1>5 DEF ReqInv, Barred
  <2>2. Session(q)' = Session(q) /\ Session(q) \in Pair
    BY <1>3, <2>1
  <2>3. /\ out[Session(q)] \in Nat /\ out'[Session(q)] \in Nat
        /\ out'[Session(q)] <= out[Session(q)]
    BY <2>1, <2>2 DEF TypeOK, Later
  <2>4. Shared /\ out'[Session(q)] < now' + Second
    BY <1>5, <2>3, PastStays
  <2> QED
    BY <2>2, <2>4 DEF Past
<1>6. /\ q.access <= Len(pairs)' /\ q.refresh <= Len(pairs)'
      /\ q.pair <= Len(pairs)'
  BY BoundAssumption DEF ReqInv, Later, TypeOK, Request, MaybePair
<1> QED
  BY <1>1, <1>4, <1>5, <1>6 DEF ReqInv, Exchanging

\* A step that changes only request c, and leaves it well informed.
LEMMA OthersInformed ==
  ASSUME IInv, TypeOK', Later, NEW c \in Tab,
         \A d \in Tab \ {c} : req'[d] = req[d], ReqInv(req[c])'
  PROVE  (\A d \in Tab : ReqInv(req[d]))'
<1>1. ASSUME NEW d \in Tab \ {c} PROVE ReqInv(req[d])'
  <2>1. req[d] \in Request /\ ReqInv(req[d])
    BY DEF IInv, TypeOK
  <2>2. \A q \in Request : ReqInv(q) => ReqInv(q)'
    BY ReqInvStays DEF IInv
  <2>3. ASSUME NEW q \in Request, q = req[d] PROVE ReqInv(req[d])'
    <3>1. req'[d] = q /\ ReqInv(q)'
      BY <2>1, <2>2, <2>3
    <3> QED
      BY <3>1 DEF ReqInv, Barred, Session, Subject, Past, Exchanging
  <2> QED
    BY <2>1, <2>3
<1> QED
  BY <1>1

\* The same when what c becomes is known before the step.
LEMMA AllInformed ==
  ASSUME IInv, TypeOK', Later, NEW c \in Tab, NEW q \in Request, ReqInv(q),
         req' = [req EXCEPT ![c] = q]
  PROVE  (\A d \in Tab : ReqInv(req[d]))'
<1>1. TypeOK /\ PairInv
  BY DEF IInv
<1>2. ReqInv(q)'
  BY <1>1, ReqInvStays
<1>3. req'[c] = q /\ \A d \in Tab \ {c} : req'[d] = req[d]
  BY <1>1 DEF TypeOK
<1>4. ReqInv(req[c])'
  BY <1>2, <1>3 DEF ReqInv, Barred, Session, Subject, Past, Exchanging
<1> QED
  BY <1>3, <1>4, OthersInformed

LEMMA StopInformed ==
  ASSUME IInv, TypeOK', Later, NEW c \in Tab, Stop(c)
  PROVE  (\A d \in Tab : ReqInv(req[d]))'
<1>1. TypeOK
  BY DEF IInv
<1>2. IdleRequest \in Request
  BY BoundAssumption DEF IdleRequest, Request, MaybePair
<1>3. Len(pairs) \in Nat
  BY <1>1, PairDomain
<1>4. ReqInv(IdleRequest)
  BY <1>3 DEF ReqInv, IdleRequest, Exchanging
<1> QED
  BY <1>2, <1>4, AllInformed DEF Stop

LEMMA GotoInformed ==
  ASSUME IInv, TypeOK', Later, NEW c \in Tab, NEW pc, Goto(c, pc),
         pc \in {"session1", "session2", "token2", "consume", "add",
                 "issue", "revokeSession", "answer"},
         pc \in {"session1", "session2"} \cup Exchanging => Subject(req[c]) # 0,
         pc \in Exchanging => req[c].op = "refresh",
         pc = "add" => ~ Shared,
         pc = "revokeSession" => req[c].op = "logout",
         req[c].barred /\ pc \in Exchanging => Past(out[Session(req[c])])
  PROVE  (\A d \in Tab : ReqInv(req[d]))'
<1> DEFINE q == [req[c] EXCEPT !.pc = pc]
<1>1. TypeOK /\ req[c] \in Request /\ ReqInv(req[c])
  BY DEF IInv, TypeOK
<1>2. q \in Request
  BY <1>1 DEF Request
<1>3. /\ q.pc = pc /\ q.op = req[c].op /\ q.barred = req[c].barred
      /\ q.access = req[c].access /\ q.refresh = req[c].refresh
      /\ q.pair = req[c].pair
  BY <1>1 DEF Request
<1>4. Subject(q) = Subject(req[c])
  BY <1>3 DEF Subject
<1>5. Session(q) = Session(req[c])
  BY <1>4 DEF Session
<1>6. Barred(q) = Barred(req[c])
  BY <1>4, <1>5 DEF Barred
<1>7. ReqInv(q)
  BY <1>1, <1>3, <1>4, <1>5, <1>6 DEF ReqInv
<1>8. req' = [req EXCEPT ![c] = q]
  BY <1>1 DEF Goto, TypeOK
<1> QED
  <2> HIDE DEF q
  <2> QED
    BY <1>2, <1>7, <1>8, AllInformed

(***************************************************************************)
(* Steps that neither touch the store nor bring a request to issue.        *)
(***************************************************************************)
LEMMA QuietStep ==
  ASSUME IInv, UNCHANGED <<now, pairs, sessionEnd, out>>,
         tokenEnd'["refresh"] = tokenEnd["refresh"],
         \A c \in Tab : req'[c].pc = "issue" =>
           req[c].pc = "issue" /\ req'[c].refresh = req[c].refresh
  PROVE  PairInv' /\ EndInv' /\ RecordInv' /\ ForkInv'
<1>1. /\ now' = now /\ pairs' = pairs /\ out' = out
      /\ tokenEnd'["refresh"] = tokenEnd["refresh"] /\ sessionEnd' = sessionEnd
  OBVIOUS
<1>2. PairInv'
  BY <1>1 DEF IInv, PairInv
<1>3. EndInv'
  BY <1>1 DEF IInv, EndInv, Used, Live, Exp, Whole, TTL
<1>4. RecordInv'
  BY <1>1 DEF IInv, RecordInv, Used, Live, Exp, Whole, TTL, Rotated, Past
<1>5. ForkInv'
  BY <1>1 DEF IInv, ForkInv, ForkOnlyPastExpiry, Siblings, Exp, Whole, TTL,
              Rotated, Past
<1> QED
  BY <1>2, <1>3, <1>4, <1>5

\* A request that rotates holds a refresh token that was issued.
LEMMA Exchanger ==
  ASSUME IInv, NEW c \in Tab, req[c].pc \in Exchanging
  PROVE  /\ req[c].refresh \in DOMAIN pairs /\ Subject(req[c]) = req[c].refresh
         /\ req[c].op = "refresh" /\ req[c].refresh # 0
<1>1. TypeOK /\ req[c] \in Request /\ ReqInv(req[c])
  BY DEF IInv, TypeOK
<1>2. req[c].op = "refresh" /\ Subject(req[c]) # 0
  BY <1>1 DEF ReqInv
<1>3. Subject(req[c]) = req[c].refresh
  BY <1>2 DEF Subject
<1>4. req[c].refresh \in Nat /\ req[c].refresh <= Len(pairs)
  BY <1>1, BoundAssumption DEF ReqInv, Request, MaybePair
<1> QED
  BY <1>1, <1>2, <1>3, <1>4, PairDomain

(***************************************************************************)
(* The actions, one by one.                                                *)
(***************************************************************************)
LEMMA TickStep == IInv /\ TypeOK' /\ Tick => IInv'
<1> SUFFICES ASSUME IInv, TypeOK', Tick PROVE IInv'
  OBVIOUS
<1>0. TypeOK /\ UNCHANGED <<pairs, jar, req, out>> /\ now' = now + 1
  BY DEF IInv, Tick
<1>1. Later
  BY <1>0 DEF TypeOK, Later, Time
<1>2. ASSUME NEW c \in Tab PROVE ReqInv(req[c])'
  <2>1. \A q \in Request : ReqInv(q) => ReqInv(q)'
    BY <1>0, <1>1, ReqInvStays DEF IInv
  <2>2. req[c] \in Request /\ ReqInv(req[c]) /\ req'[c] = req[c]
    BY <1>0 DEF IInv, TypeOK
  <2>3. ASSUME NEW q \in Request, q = req[c] PROVE ReqInv(req[c])'
    <3>1. req'[c] = q /\ ReqInv(q)'
      BY <2>1, <2>2, <2>3
    <3> QED
      BY <3>1 DEF ReqInv, Barred, Session, Subject, Past, Exchanging
  <2> QED
    BY <2>2, <2>3
<1>3. \A p \in DOMAIN pairs : Exp("refresh", p)' = Exp("refresh", p)
                             /\ Exp("refresh", p) \in Nat
  BY <1>0, <1>1, ExpStays, ExpNat DEF Kind
<1>4. \A e \in Nat : Past(e) => Past(e)'
  <2>1. ASSUME NEW e \in Nat, Past(e) PROVE Past(e)'
    <3>1. Shared /\ e < now' + Second
      BY <1>0, <1>1, <2>1, PastStays
    <3> QED
      BY <3>1 DEF Past
  <2> QED
    BY <2>1
\* An entry stays as it is, or its end has come.
<1>5. ASSUME NEW e \in Nat, NEW end \in Nat, end # 0, Shared => e < end + Second
      PROVE  Kept(end) = end \/ Past(e)'
  <2>1. CASE Shared /\ end <= now'
    <3>1. now' \in Nat
      BY DEF TypeOK, Time
    <3>2. e < now' + Second
      BY <1>5, <2>1, <3>1, TimeAssumption, BoundEnds
    <3> QED
      BY <2>1, <3>2 DEF Past
  <2>2. CASE ~ (Shared /\ end <= now')
    BY <2>2 DEF Kept
  <2> QED
    BY <2>1, <2>2
<1>6. \A end \in Nat : Kept(end) # 0 => end # 0 /\ Kept(end) = end
  BY DEF Kept
<1>7. \A p \in Pair : /\ tokenEnd["refresh"][p] \in Nat
                      /\ tokenEnd'["refresh"][p] = Kept(tokenEnd["refresh"][p])
  BY <1>0 DEF Tick, TypeOK, Kind
<1>8. \A s \in Pair : /\ sessionEnd[s] \in Nat /\ out[s] \in Nat
                      /\ sessionEnd'[s] = Kept(sessionEnd[s])
  BY <1>0 DEF Tick, TypeOK
<1>9. DOMAIN pairs \subseteq Pair
  BY <1>0, PairDomain
<1>10. EndInv'
  BY <1>0, <1>3, <1>6, <1>7, <1>8, <1>9 DEF IInv, EndInv, Used, Live
<1>11. \A p \in DOMAIN pairs :
         Used(p) \/ Past(Exp("refresh", p)) => Used(p)' \/ Past(Exp("refresh", p))'
  <2>1. ASSUME NEW p \in DOMAIN pairs, Used(p)
        PROVE  Used(p)' \/ Past(Exp("refresh", p))'
    <3>1. Shared => Exp("refresh", p) < tokenEnd["refresh"][p] + Second
      BY <2>1 DEF IInv, EndInv
    <3>2. tokenEnd["refresh"][p] # 0
      BY <2>1 DEF Used, Live
    <3>3. \/ Kept(tokenEnd["refresh"][p]) = tokenEnd["refresh"][p]
          \/ Shared /\ Exp("refresh", p) < now' + Second
      BY <1>3, <1>5, <1>7, <1>9, <3>1, <3>2 DEF Past
    <3> QED
      BY <1>3, <1>7, <1>9, <3>2, <3>3 DEF Used, Live, Past
  <2>2. ASSUME NEW p \in DOMAIN pairs, Past(Exp("refresh", p))
        PROVE  Past(Exp("refresh", p))'
    BY <1>3, <1>4, <2>2 DEF Past
  <2> QED
    BY <2>1, <2>2
<1>12. \A s \in Pair : out[s] # 0 => sessionEnd'[s] # 0 \/ Past(out[s])'
  <2>1. ASSUME NEW s \in Pair, out[s] # 0, sessionEnd[s] # 0
        PROVE  sessionEnd'[s] # 0 \/ Past(out[s])'
    <3>1. Shared => out[s] < sessionEnd[s] + Second
      BY <2>1 DEF IInv, EndInv
    <3>2. \/ Kept(sessionEnd[s]) = sessionEnd[s]
          \/ Shared /\ out[s] < now' + Second
      BY <1>5, <1>8, <2>1, <3>1 DEF Past
    <3> QED
      BY <1>0, <1>8, <2>1, <3>2 DEF Past
  <2>2. ASSUME NEW s \in Pair, Past(out[s]) PROVE Past(out[s])'
    BY <1>0, <1>4, <1>8, <2>2 DEF Past
  <2> QED
    BY <2>1, <2>2 DEF IInv, RecordInv
<1>13. RecordInv'
  BY <1>0, <1>11, <1>12 DEF IInv, RecordInv, Rotated
<1>14. \A p \in DOMAIN pairs :
         Past(Exp("refresh", p)) => Past(Exp("refresh", p))'
  BY <1>3, <1>4 DEF Past
<1>15. ForkInv'
  <2>1. \A c \in Tab : req[c].pc = "issue" => req[c].refresh \in DOMAIN pairs
    BY Exchanger DEF Exchanging
  <2>2. ForkOnlyPastExpiry => ForkOnlyPastExpiry'
    BY <1>0 DEF ForkOnlyPastExpiry, Siblings, Exp, Whole, TTL
  <2> QED
    BY <1>0, <1>14, <2>1, <2>2 DEF IInv, ForkInv, Rotated
<1>16. PairInv'
  BY <1>0 DEF IInv, PairInv
<1>17. jar' <= Len(pairs)'
  BY <1>0 DEF IInv
<1> QED
  BY <1>2, <1>10, <1>13, <1>15, <1>16, <1>17 DEF IInv

\* A check of the session found no entry: whatever barred the request is past.
LEMMA SessionChecked ==
  ASSUME IInv, NEW c \in Tab, SessionValid(req[c]), req[c].barred
  PROVE  Past(out[Session(req[c])])
<1>1. TypeOK /\ req[c] \in Request /\ ReqInv(req[c])
  BY DEF IInv, TypeOK
<1>2. Subject(req[c]) # 0 /\ out[Session(req[c])] # 0
  BY <1>1 DEF ReqInv, Barred
<1>3. Subject(req[c]) \in DOMAIN pairs
  BY <1>1, <1>2, BoundAssumption, PairDomain
  DEF Subject, ReqInv, Request, MaybePair
<1>4. Session(req[c]) \in Pair
  BY <1>1, <1>3, PairDomain DEF Session, Issued
<1> QED
  BY <1>2, <1>4 DEF IInv, RecordInv, SessionValid, Live

LEMMA CheckTokenStep ==
  ASSUME IInv, TypeOK', NEW c \in Tab, CheckToken(c)
  PROVE  IInv'
<1>0. TypeOK /\ UNCHANGED <<now, pairs, store, jar, out>>
  BY DEF IInv, CheckToken
<1>1. Later
  BY <1>0, LaterWhenSame
<1>2. (\A d \in Tab : ReqInv(req[d]))'
  <2>1. CASE TokenValid(req[c])
    <3>1. CASE req[c].pc = "token1"
      <4>1. Goto(c, "session1")
        BY <2>1, <3>1 DEF CheckToken
      <4> QED
        BY <1>1, <2>1, <4>1, GotoInformed DEF TokenValid, Exchanging
    <3>2. CASE req[c].pc = "token2"
      <4>1. Goto(c, "session2")
        BY <2>1, <3>2 DEF CheckToken
      <4>2. /\ req[c].op = "refresh"
            /\ req[c].barred => Past(out[Session(req[c])])
        BY <3>2 DEF IInv, ReqInv, Exchanging
      <4> QED
        BY <1>1, <2>1, <4>1, <4>2, GotoInformed DEF TokenValid, Exchanging
    <3> QED
      BY <3>1, <3>2 DEF CheckToken
  <2>2. CASE ~ TokenValid(req[c])
    BY <1>1, <2>2, StopInformed DEF CheckToken
  <2> QED
    BY <2>1, <2>2
<1>3. \A d \in Tab : req'[d].pc = "issue" =>
        req[d].pc = "issue" /\ req'[d].refresh = req[d].refresh
  <2>1. req'[c].pc # "issue" /\ \A d \in Tab \ {c} : req'[d] = req[d]
    BY <1>0 DEF CheckToken, Goto, Stop, IdleRequest, TypeOK, Request
  <2> QED
    BY <2>1
<1>4. PairInv' /\ EndInv' /\ RecordInv' /\ ForkInv'
  BY <1>0, <1>3, QuietStep DEF store
<1> QED
  BY <1>0, <1>2, <1>4 DEF IInv

LEMMA CheckSessionStep ==
  ASSUME IInv, TypeOK', NEW c \in Tab, CheckSession(c)
  PROVE  IInv'
<1>0. TypeOK /\ UNCHANGED <<now, pairs, store, jar, out>>
  BY DEF IInv, CheckSession
<1>1. Later
  BY <1>0, LaterWhenSame
<1>q. Subject(req[c]) # 0
  BY DEF CheckSession, IInv, ReqInv
<1>2. (\A d \in Tab : ReqInv(req[d]))'
  <2>1. CASE SessionValid(req[c]) /\ req[c].op = "me"
    <3>1. Goto(c, "answer")
      BY <2>1 DEF CheckSession
    <3> QED
      BY <1>1, <3>1, GotoInformed DEF Exchanging
  <2>2. CASE SessionValid(req[c]) /\ req[c].op # "me"
    <3>1. req[c].op = "refresh"
      BY <1>q, <2>2 DEF Subject
    <3>2. req[c].barred => Past(out[Session(req[c])])
      BY <2>2, SessionChecked
    <3>3. CASE req[c].pc = "session1"
      <4>1. Goto(c, "token2")
        BY <2>2, <3>3 DEF CheckSession
      <4> QED
        BY <1>1, <1>q, <3>1, <3>2, <4>1, GotoInformed
    <3>4. CASE req[c].pc = "session2"
      <4>1. Goto(c, "consume")
        BY <2>2, <3>4 DEF CheckSession
      <4> QED
        BY <1>1, <1>q, <3>1, <3>2, <4>1, GotoInformed
    <3> QED
      BY <3>3, <3>4 DEF CheckSession
  <2>3. CASE ~ SessionValid(req[c])
    BY <1>1, <2>3, StopInformed DEF CheckSession
  <2> QED
    BY <2>1, <2>2, <2>3
<1>3. \A d \in Tab : req'[d].pc = "issue" =>
        req[d].pc = "issue" /\ req'[d].refresh = req[d].refresh
  <2>1. req'[c].pc # "issue" /\ \A d \in Tab \ {c} : req'[d] = req[d]
    BY <1>0 DEF CheckSession, Goto, Stop, IdleRequest, TypeOK, Request
  <2> QED
    BY <2>1
<1>4. PairInv' /\ EndInv' /\ RecordInv' /\ ForkInv'
  BY <1>0, <1>3, QuietStep DEF store
<1> QED
  BY <1>0, <1>2, <1>4 DEF IInv

LEMMA TestUsedStep ==
  ASSUME IInv, TypeOK', NEW c \in Tab, TestUsed(c)
  PROVE  IInv'
<1>0. TypeOK /\ UNCHANGED <<now, pairs, store, jar, out>>
  BY DEF IInv, TestUsed
<1>1. Later
  BY <1>0, LaterWhenSame
<1>2. (\A d \in Tab : ReqInv(req[d]))'
  <2>1. CASE Used(req[c].refresh)
    BY <1>1, <2>1, StopInformed DEF TestUsed
  <2>2. CASE ~ Used(req[c].refresh)
    <3>1. Goto(c, "add") /\ req[c].pc = "consume" /\ ~ Shared
      BY <2>2 DEF TestUsed
    <3>2. /\ req[c].op = "refresh" /\ Subject(req[c]) # 0
          /\ req[c].barred => Past(out[Session(req[c])])
      BY <3>1 DEF IInv, ReqInv, Exchanging
    <3> QED
      BY <1>1, <3>1, <3>2, GotoInformed
  <2> QED
    BY <2>1, <2>2
<1>3. \A d \in Tab : req'[d].pc = "issue" =>
        req[d].pc = "issue" /\ req'[d].refresh = req[d].refresh
  <2>1. req'[c].pc # "issue" /\ \A d \in Tab \ {c} : req'[d] = req[d]
    BY <1>0 DEF TestUsed, Goto, Stop, IdleRequest, TypeOK, Request
  <2> QED
    BY <2>1
<1>4. PairInv' /\ EndInv' /\ RecordInv' /\ ForkInv'
  BY <1>0, <1>3, QuietStep DEF store
<1> QED
  BY <1>0, <1>2, <1>4 DEF IInv

LEMMA SendStep ==
  ASSUME IInv, TypeOK', NEW c \in Tab, NEW op \in Op, Send(c, op)
  PROVE  IInv'
<1>0. TypeOK /\ UNCHANGED <<now, pairs, store, jar, out>>
  BY DEF IInv, Send
<1>1. Later
  BY <1>0, LaterWhenSame
<1>2. PICK access \in {0, jar}, refresh \in {0, jar} :
        req' = [req EXCEPT ![c] = [Asked(op, access, refresh) EXCEPT
                  !.barred = Barred(Asked(op, access, refresh))]]
  BY DEF Send
<1> DEFINE a == Asked(op, access, refresh)
           q == [a EXCEPT !.barred = Barred(a)]
<1>3. /\ access \in MaybePair /\ refresh \in MaybePair
      /\ access <= Len(pairs) /\ refresh <= Len(pairs) /\ Len(pairs) \in Nat
  BY <1>0, BoundAssumption, PairDomain DEF IInv, TypeOK, MaybePair
<1>4. op \in {"me", "refresh", "logout"}
  BY BoundAssumption
<1>5. /\ q \in Request /\ q.access = access /\ q.refresh = refresh
      /\ q.pair = 0 /\ q.pc \in {"revoke", "token1"}
      /\ q.pc = "revoke" => q.op = "logout"
      /\ q.op = a.op /\ q.access = a.access /\ q.refresh = a.refresh
      /\ q.barred = Barred(a)
  <2>1. /\ a \in Request /\ a.access = access /\ a.refresh = refresh
        /\ a.pair = 0 /\ a.pc \in {"revoke", "token1"}
        /\ a.pc = "revoke" => a.op = "logout"
    <3>1. IdleRequest \in Request /\ IdleRequest.pair = 0
      BY BoundAssumption DEF IdleRequest, Request, MaybePair
    <3>2. a \in Request
      BY <1>3, <1>4, <3>1 DEF Asked, Request
    <3>3. /\ a.access = access /\ a.refresh = refresh /\ a.pair = 0
          /\ a.pc = IF op = "logout" THEN "revoke" ELSE "token1"
          /\ a.op = op
      BY <3>1 DEF Asked, Request
    <3> QED
      BY <3>2, <3>3
  <2>2. Barred(a) \in BOOLEAN
    BY DEF Barred
  <2> HIDE DEF a
  <2> QED
    BY <2>1, <2>2 DEF Request
<1>6. Subject(q) = Subject(a)
  BY <1>5 DEF Subject
<1>7. Barred(q) = Barred(a)
  BY <1>6 DEF Barred, Session
<1>8. ReqInv(q)
  <2>1. q.barred => Barred(q)
    BY <1>5, <1>7
  <2> QED
    BY <1>3, <1>5, <2>1 DEF ReqInv, Exchanging
<1>9. (\A d \in Tab : ReqInv(req[d]))'
  <2> HIDE DEF q
  <2> QED
    BY <1>1, <1>2, <1>5, <1>8, AllInformed DEF q
<1>10. \A d \in Tab : req'[d].pc = "issue" =>
        req[d].pc = "issue" /\ req'[d].refresh = req[d].refresh
  <2>1. req'[c].pc # "issue" /\ \A d \in Tab \ {c} : req'[d] = req[d]
    BY <1>0, <1>2, <1>5 DEF TypeOK
  <2> QED
    BY <2>1
<1>11. PairInv' /\ EndInv' /\ RecordInv' /\ ForkInv'
  BY <1>0, <1>10, QuietStep DEF store
<1> QED
  BY <1>0, <1>9, <1>11 DEF IInv

\* Receive and Abandon: the request ends.
LEMMA EndStep ==
  ASSUME IInv, TypeOK', NEW c \in Tab, Receive(c) \/ Abandon(c)
  PROVE  IInv'
<1>0. TypeOK /\ UNCHANGED <<now, pairs, store, out>> /\ Stop(c)
  BY DEF IInv, Receive, Abandon
<1>1. Later
  BY <1>0, LaterWhenSame
<1>2. (\A d \in Tab : ReqInv(req[d]))'
  BY <1>0, <1>1, StopInformed
<1>3. \A d \in Tab : req'[d].pc = "issue" =>
        req[d].pc = "issue" /\ req'[d].refresh = req[d].refresh
  BY <1>0 DEF Stop, IdleRequest, TypeOK
<1>4. PairInv' /\ EndInv' /\ RecordInv' /\ ForkInv'
  BY <1>0, <1>3, QuietStep DEF store
<1>5. jar' <= Len(pairs)'
  <2>1. jar <= Len(pairs) /\ req[c].pair <= Len(pairs)
    BY DEF IInv, ReqInv
  <2> QED
    BY <1>0, <2>1 DEF Receive, Abandon
<1> QED
  BY <1>2, <1>4, <1>5 DEF IInv

\* A refresh token is recorded by c, which goes on to issue.  With Redis the
\* token had no record before.
LEMMA TakeStep ==
  ASSUME IInv, TypeOK', NEW c \in Tab, NEW p, p = req[c].refresh,
         Record("refresh", p), Goto(c, "issue"), UNCHANGED <<now, pairs, sessionEnd, jar, out>>,
         req[c].pc \in {"consume", "add"},
         Shared => ~ Used(p)
  PROVE  IInv'
<1>0. TypeOK
  BY DEF IInv
<1>1. Later
  BY <1>0, LaterWhenSame
<1>2. /\ p \in DOMAIN pairs /\ p \in Pair /\ p # 0
      /\ Subject(req[c]) = p /\ req[c].op = "refresh"
  BY <1>0, Exchanger, PairDomain DEF Exchanging
<1>3. (\A d \in Tab : ReqInv(req[d]))'
  <2>1. req[c].barred => Past(out[Session(req[c])])
    BY DEF IInv, ReqInv, Exchanging
  <2> QED
    BY <1>1, <1>2, <2>1, GotoInformed DEF Exchanging
<1>4. /\ tokenEnd'["refresh"][p] = End(Exp("refresh", p))
      /\ \A r \in Pair \ {p} : tokenEnd'["refresh"][r] = tokenEnd["refresh"][r]
  BY <1>0, <1>2 DEF Record, TypeOK, Kind
<1>5. /\ End(Exp("refresh", p)) # 0
      /\ Shared => Exp("refresh", p) < End(Exp("refresh", p)) + Second
  BY <1>0, <1>2, ExpNat, EndBounds DEF TypeOK, Time, Kind
<1>6. \A r \in DOMAIN pairs : Exp("refresh", r)' = Exp("refresh", r)
  BY <1>1, ExpStays DEF Kind
<1>7. DOMAIN pairs \subseteq Pair
  BY <1>0, PairDomain
<1>8. /\ req'[c].pc = "issue" /\ req'[c].refresh = p
      /\ \A d \in Tab \ {c} : req'[d] = req[d]
  BY <1>0 DEF Goto, TypeOK, Request
<1>9. EndInv'
  BY <1>2, <1>4, <1>5, <1>6, <1>7 DEF IInv, EndInv, Used, Live
<1>10. Used(p)' /\ \A r \in DOMAIN pairs : Used(r) => Used(r)'
  BY <1>4, <1>5, <1>7 DEF Used, Live
<1>11. RecordInv'
  <2>1. ASSUME NEW r \in DOMAIN pairs,
               \/ Rotated(r)
               \/ \E d \in Tab : req'[d].pc = "issue" /\ req'[d].refresh = r
        PROVE  Used(r)' \/ Past(Exp("refresh", r))
    BY <1>8, <1>10, <2>1 DEF IInv, RecordInv
  <2> QED
    BY <1>6, <2>1 DEF IInv, RecordInv, Rotated, Past
<1>12. ForkInv'
  <2> SUFFICES ASSUME Shared PROVE ForkInv'
    BY DEF ForkInv
  <2>1. ForkOnlyPastExpiry'
    BY DEF IInv, ForkInv, ForkOnlyPastExpiry, Siblings, Exp, Whole, TTL
  <2>2. ~ Used(p)
    OBVIOUS
  <2>3. /\ Rotated(p) => Past(Exp("refresh", p))
        /\ \A d \in Tab : req[d].pc = "issue" /\ req[d].refresh = p
                       => Past(Exp("refresh", p))
    BY <1>2, <2>2 DEF IInv, RecordInv
  <2>4. ASSUME NEW d \in Tab, req'[d].pc = "issue"
        PROVE  /\ Rotated(req'[d].refresh) => Past(Exp("refresh", req'[d].refresh))
               /\ \A b \in Tab \ {d} :
                    req'[b].pc = "issue" /\ req'[b].refresh = req'[d].refresh
                    => Past(Exp("refresh", req'[d].refresh))
    <3>1. CASE d = c
      BY <1>8, <2>3, <3>1
    <3>2. CASE d # c
      <4>1. req'[d] = req[d]
        BY <1>8, <3>2
      <4>2. ASSUME NEW b \in Tab \ {d}, req'[b].pc = "issue",
                   req'[b].refresh = req[d].refresh
            PROVE  Past(Exp("refresh", req[d].refresh))
        <5>1. CASE b = c
          BY <1>8, <2>3, <2>4, <4>1, <4>2, <5>1
        <5>2. CASE b # c
          BY <1>8, <2>4, <4>1, <4>2, <5>2 DEF IInv, ForkInv
        <5> QED
          BY <5>1, <5>2
      <4> QED
        BY <2>4, <4>1, <4>2 DEF IInv, ForkInv
    <3> QED
      BY <3>1, <3>2
  <2>5. \A d \in Tab : req'[d].pc = "issue" => req'[d].refresh \in DOMAIN pairs
    BY <1>2, <1>8, Exchanger DEF Exchanging
  <2>6. \A r \in DOMAIN pairs :
          Past(Exp("refresh", r)) => Past(Exp("refresh", r))'
    BY <1>6 DEF Past
  <2>7. \A r : Rotated(r)' = Rotated(r)
    BY DEF Rotated
  <2> QED
    BY <2>1, <2>4, <2>5, <2>6, <2>7 DEF ForkInv
<1>13. PairInv' /\ jar' <= Len(pairs)'
  BY DEF IInv, PairInv
<1> QED
  BY <1>3, <1>9, <1>11, <1>12, <1>13 DEF IInv

LEMMA ConsumeStep ==
  ASSUME IInv, TypeOK', NEW c \in Tab, Consume(c) \/ AddUsed(c)
  PROVE  IInv'
<1>1. CASE AddUsed(c)
  <2>1. ~ Shared
    BY <1>1 DEF AddUsed, IInv, ReqInv
  <2> QED
    BY <1>1, <2>1, TakeStep DEF AddUsed
<1>2. CASE Consume(c) /\ ~ Used(req[c].refresh)
  BY <1>2, TakeStep DEF Consume
<1>3. CASE Consume(c) /\ Used(req[c].refresh)
  <2>0. /\ TypeOK /\ UNCHANGED <<now, pairs, tokenEnd, sessionEnd, jar, out>>
        /\ Stop(c)
    BY <1>3 DEF IInv, Consume
  <2>1. Later
    BY <2>0, LaterWhenSame
  <2>2. (\A d \in Tab : ReqInv(req[d]))'
    BY <2>0, <2>1, StopInformed
  <2>3. \A d \in Tab : req'[d].pc = "issue" =>
          req[d].pc = "issue" /\ req'[d].refresh = req[d].refresh
    BY <2>0 DEF Stop, IdleRequest, TypeOK
  <2>4. PairInv' /\ EndInv' /\ RecordInv' /\ ForkInv'
    BY <2>0, <2>3, QuietStep
  <2> QED
    BY <2>0, <2>2, <2>4 DEF IInv
<1> QED
  BY <1>1, <1>2, <1>3

\* A pair is issued: a first one, or the successor of one whose record is kept
\* or whose life is over.  No request comes to issue; one that rotates leaves it.
LEMMA IssueStep ==
  ASSUME IInv, TypeOK', NEW s \in Pair, NEW parent \in MaybePair,
         NEW n, n = Len(pairs) + 1,
         Issue(s, parent), UNCHANGED <<now, store, jar, out>>,
         s \in DOMAIN pairs',
         \A d \in Tab : req'[d].pc = "issue" => req'[d] = req[d],
         parent # 0 => \E c \in Tab :
           req[c].pc = "issue" /\ req[c].refresh = parent /\ req'[c].pc # "issue"
  PROVE  Later /\ PairInv' /\ EndInv' /\ RecordInv' /\ ForkInv'
<1>0. TypeOK /\ now \in Nat /\ Len(pairs) \in Nat
  BY PairDomain DEF IInv, TypeOK, Time
<1>1. /\ Len(pairs') = n /\ DOMAIN pairs' = DOMAIN pairs \cup {n}
      /\ \A p \in DOMAIN pairs : pairs'[p] = pairs[p]
      /\ pairs'[n] = [sess |-> s, at |-> now, parent |-> parent]
  BY <1>0, IssueType
<1>2. /\ DOMAIN pairs = 1 .. Len(pairs) /\ n \notin DOMAIN pairs
      /\ DOMAIN pairs \subseteq Pair
  BY <1>0, PairDomain
<1>3. Later
  BY <1>0, <1>1 DEF Later, TypeOK
<1>4. \A p \in DOMAIN pairs : Exp("refresh", p)' = Exp("refresh", p)
  BY <1>3, ExpStays DEF Kind
<1>5. parent # 0 => parent \in DOMAIN pairs
  BY Exchanger DEF Exchanging
<1>6. PairInv'
  <2>1. parent < n
    BY <1>0, <1>2, <1>5
  <2> QED
    BY <1>1, <2>1 DEF IInv, PairInv
<1>7. tokenEnd' = tokenEnd /\ sessionEnd' = sessionEnd
  BY DEF store
<1>8. EndInv'
  <2>1. \A p \in Pair : tokenEnd["refresh"][p] # 0 => p \in DOMAIN pairs
    BY DEF IInv, EndInv
  <2>2. \A p \in DOMAIN pairs' : Used(p)' => p \in DOMAIN pairs /\ Used(p)
    <3>1. DOMAIN pairs' \subseteq Pair
      BY PairDomain, BoundAssumption DEF TypeOK, Pair
    <3> QED
      BY <1>7, <2>1, <3>1 DEF Used, Live
  <2> QED
    BY <1>1, <1>2, <1>4, <1>7, <2>1, <2>2 DEF IInv, EndInv
<1>9. \A p \in DOMAIN pairs : Rotated(p)' => Rotated(p) \/ p = parent
  BY <1>1 DEF Rotated
<1>10. ~ Rotated(n)'
  BY <1>0, <1>1, <1>2, <1>5 DEF IInv, PairInv, Rotated
<1>11. \A d \in Tab : req'[d].pc = "issue" =>
         req[d].pc = "issue" /\ req'[d].refresh = req[d].refresh
         /\ req[d].refresh \in DOMAIN pairs
  BY Exchanger DEF Exchanging
<1>12. RecordInv'
  <2>1. ASSUME NEW p \in DOMAIN pairs',
               \/ Rotated(p)'
               \/ \E d \in Tab : req'[d].pc = "issue" /\ req'[d].refresh = p
        PROVE  p \in DOMAIN pairs /\ (Used(p) \/ Past(Exp("refresh", p)))
    <3>1. p \in DOMAIN pairs
      BY <1>1, <1>2, <1>10, <1>11, <2>1
    <3>2. Rotated(p) \/ \E d \in Tab : req[d].pc = "issue" /\ req[d].refresh = p
      BY <1>0, <1>2, <1>9, <1>11, <2>1, <3>1
    <3> QED
      BY <3>1, <3>2 DEF IInv, RecordInv
  <2>2. \A p \in DOMAIN pairs : /\ Used(p)' = Used(p)
                               /\ Past(Exp("refresh", p))' = Past(Exp("refresh", p))
    BY <1>4, <1>7 DEF Used, Live, Past
  <2> QED
    BY <1>7, <2>1, <2>2 DEF IInv, RecordInv, Past
<1>13. ForkInv'
  <2> SUFFICES ASSUME Shared PROVE ForkInv'
    BY DEF ForkInv
  <2>1. \A p \in DOMAIN pairs : Past(Exp("refresh", p)) => Past(Exp("refresh", p))'
    BY <1>4 DEF Past
  <2>2. ASSUME NEW p \in DOMAIN pairs', NEW q \in DOMAIN pairs', Siblings(p, q)'
        PROVE  (Exp("refresh", pairs[q].parent) < pairs[q].at + Second)'
    <3>1. p < q /\ pairs'[p].parent = pairs'[q].parent /\ pairs'[p].parent # 0
      BY <2>2 DEF Siblings
    <3>2. p \in DOMAIN pairs
      BY <1>0, <1>1, <1>2, <3>1
    <3>3. CASE q = n
      <4>1. Rotated(parent) /\ parent # 0 /\ parent \in DOMAIN pairs
        BY <1>1, <1>5, <3>1, <3>2, <3>3 DEF Rotated
      <4>2. Past(Exp("refresh", parent))
        BY <4>1 DEF IInv, ForkInv
      <4>3. Exp("refresh", parent) < now + Second
        BY <4>2 DEF Past
      <4>4. pairs'[q].parent = parent /\ pairs'[q].at = now
        BY <1>1, <3>3
      <4> QED
        BY <1>4, <4>1, <4>3, <4>4 DEF Exp
    <3>4. CASE q # n
      <4>1. q \in DOMAIN pairs /\ pairs'[q] = pairs[q] /\ pairs'[p] = pairs[p]
        BY <1>1, <3>2, <3>4
      <4>2. pairs[q].parent \in DOMAIN pairs
        BY <1>0, <1>2, <3>1, <4>1, PairDomain, BoundAssumption
        DEF IInv, PairInv, Issued, MaybePair
      <4>3. Siblings(p, q)
        BY <3>1, <4>1 DEF Siblings
      <4>4. Exp("refresh", pairs[q].parent) < pairs[q].at + Second
        BY <3>2, <4>1, <4>3 DEF IInv, ForkInv, ForkOnlyPastExpiry
      <4> QED
        BY <1>4, <4>1, <4>2, <4>4 DEF Exp
    <3> QED
      BY <3>3, <3>4
  <2>3. ForkOnlyPastExpiry'
    BY <2>2 DEF ForkOnlyPastExpiry
  <2>4. ASSUME NEW d \in Tab, NEW r, req'[d].pc = "issue", r = req'[d].refresh
        PROVE  /\ r \in DOMAIN pairs
               /\ Rotated(r)' => Past(Exp("refresh", r))
               /\ \A b \in Tab \ {d} : req'[b].pc = "issue" /\ req'[b].refresh = r
                                    => Past(Exp("refresh", r))
    <3>1. req[d].pc = "issue" /\ r = req[d].refresh /\ r \in DOMAIN pairs
      BY <1>11, <2>4
    <3>2. ASSUME Rotated(r)', ~ Rotated(r) PROVE Past(Exp("refresh", r))
      <4>1. r = parent /\ parent # 0
        BY <1>0, <1>2, <1>9, <3>1, <3>2
      <4>2. PICK c \in Tab : /\ req[c].pc = "issue" /\ req[c].refresh = parent
                             /\ req'[c].pc # "issue"
        BY <4>1
      <4>3. c # d
        BY <2>4, <4>2
      <4> QED
        BY <3>1, <4>1, <4>2, <4>3 DEF IInv, ForkInv
    <3>3. ASSUME Rotated(r) PROVE Past(Exp("refresh", r))
      BY <3>1, <3>3 DEF IInv, ForkInv
    <3>4. ASSUME NEW b \in Tab \ {d}, req'[b].pc = "issue", req'[b].refresh = r
          PROVE  Past(Exp("refresh", r))
      <4>1. req[b].pc = "issue" /\ req[b].refresh = r
        BY <1>11, <3>4
      <4> QED
        BY <3>1, <4>1 DEF IInv, ForkInv
    <3> QED
      BY <3>1, <3>2, <3>3, <3>4
  <2> QED
    BY <2>1, <2>3, <2>4 DEF ForkInv
<1> QED
  BY <1>3, <1>6, <1>8, <1>12, <1>13

LEMMA LoginStep ==
  ASSUME IInv, TypeOK', NEW c \in Tab, Login(c)
  PROVE  IInv'
<1>0. TypeOK /\ Len(pairs) \in Nat
  BY PairDomain DEF IInv
<1> DEFINE n == Len(pairs) + 1
<1>1. Issue(n, 0) /\ UNCHANGED <<now, store, jar, out>>
  BY DEF Login
<1>2. n \in Pair /\ 0 \in MaybePair
  BY <1>0, <1>1, BoundAssumption DEF Issue, Pair, MaybePair
<1>3. n \in DOMAIN pairs' /\ Len(pairs') = n
  BY <1>0, <1>1, <1>2, IssueType
<1>4. /\ req'[c].pc = "answer" /\ req'[c].op = "login" /\ req'[c].access = 0
      /\ req'[c].refresh = 0 /\ ~ req'[c].barred /\ req'[c].pair = n
      /\ \A d \in Tab \ {c} : req'[d] = req[d]
  BY <1>0 DEF Login, IdleRequest, TypeOK
<1>5. \A d \in Tab : req'[d].pc = "issue" => req'[d] = req[d]
  BY <1>4
<1> HIDE DEF n
<1>6. Later /\ PairInv' /\ EndInv' /\ RecordInv' /\ ForkInv'
  BY <1>1, <1>2, <1>3, <1>5, IssueStep DEF n
<1>7. ReqInv(req[c])'
  <2>1. 0 <= n /\ n <= Len(pairs')
    BY <1>0, <1>3 DEF n
  <2> QED
    BY <1>3, <1>4, <2>1 DEF ReqInv, Exchanging
<1>8. (\A d \in Tab : ReqInv(req[d]))'
  BY <1>4, <1>6, <1>7, OthersInformed
<1>9. jar' <= Len(pairs)'
  <2>1. jar <= Len(pairs) /\ jar \in Nat
    BY <1>0, BoundAssumption DEF IInv, TypeOK, MaybePair
  <2> QED
    BY <1>0, <1>1, <1>3, <2>1 DEF n
<1> QED
  BY <1>6, <1>8, <1>9 DEF IInv

LEMMA RotateStep ==
  ASSUME IInv, TypeOK', NEW c \in Tab, Rotate(c)
  PROVE  IInv'
<1>0. TypeOK /\ Len(pairs) \in Nat /\ req[c] \in Request /\ ReqInv(req[c])
  BY PairDomain DEF IInv, TypeOK
<1> DEFINE n == Len(pairs) + 1
           s == Session(req[c])
           p == req[c].refresh
           q == [req[c] EXCEPT !.pc = "answer"]
<1>1. Issue(s, p) /\ UNCHANGED <<now, store, jar, out>> /\ req[c].pc = "issue"
  BY DEF Rotate
<1>2. p \in DOMAIN pairs /\ Subject(req[c]) = p
  BY <1>1, Exchanger DEF Exchanging
<1>3. s \in DOMAIN pairs /\ s \in Pair /\ p \in MaybePair
  BY <1>0, <1>2, PairDomain DEF Session, IInv, PairInv, Request
<1>4. DOMAIN pairs' = DOMAIN pairs \cup {n} /\ Len(pairs') = n
  BY <1>0, <1>1, <1>3, IssueType
<1>5. /\ req'[c].pc = "answer" /\ req'[c].op = req[c].op
      /\ req'[c].access = req[c].access /\ req'[c].refresh = req[c].refresh
      /\ req'[c].barred = req[c].barred /\ req'[c].pair = n
      /\ \A d \in Tab \ {c} : req'[d] = req[d]
  BY <1>0 DEF Rotate, TypeOK, Request
<1>6. \A d \in Tab : req'[d].pc = "issue" => req'[d] = req[d]
  BY <1>5
<1>7. Later /\ PairInv' /\ EndInv' /\ RecordInv' /\ ForkInv'
  <2> HIDE DEF n, s, p
  <2>1. req[c].pc = "issue" /\ req[c].refresh = p /\ req'[c].pc # "issue"
    BY <1>1, <1>5 DEF p
  <2> QED
    BY <1>1, <1>3, <1>4, <1>6, <2>1, IssueStep DEF n
<1>8. /\ q \in Request /\ q.pc = "answer" /\ q.op = req[c].op
      /\ q.access = req[c].access /\ q.refresh = req[c].refresh
      /\ q.barred = req[c].barred /\ q.pair = req[c].pair
  BY <1>0 DEF Request
<1>9. ReqInv(q)
  <2> HIDE DEF q
  <2>1. Subject(q) = Subject(req[c])
    BY <1>8 DEF Subject
  <2>2. Barred(q) = Barred(req[c])
    BY <2>1 DEF Barred, Session
  <2> QED
    BY <1>0, <1>8, <2>2 DEF ReqInv, Exchanging
<1>10. Len(pairs) + 1 <= Len(pairs')
  BY <1>0, <1>4
<1>11. ASSUME NEW r, r = q
       PROVE  ReqInv(req[c])'
  <2>1. /\ r \in Request /\ r.pc = "answer" /\ r.op = req[c].op
        /\ r.access = req[c].access /\ r.refresh = req[c].refresh
        /\ r.barred = req[c].barred /\ ReqInv(r)
    BY <1>8, <1>9, <1>11
  <2> HIDE DEF q
  <2>2. ReqInv(r)'
    BY <1>0, <1>7, <2>1, ReqInvStays DEF IInv
  <2>3. Subject(req[c])' = Subject(r)
    BY <1>5, <2>1 DEF Subject
  <2>4. Subject(r)' = Subject(r)
    BY DEF Subject
  <2>5. Barred(r)' = Barred(req[c])'
    BY <2>3, <2>4 DEF Barred, Session
  <2> QED
    BY <1>5, <1>10, <2>1, <2>2, <2>5 DEF ReqInv, Exchanging
<1>12. (\A d \in Tab : ReqInv(req[d]))'
  BY <1>5, <1>7, <1>11, OthersInformed
<1>13. jar' <= Len(pairs)'
  <2>1. jar <= Len(pairs) /\ jar \in Nat
    BY <1>0, BoundAssumption DEF IInv, TypeOK, MaybePair
  <2> QED
    BY <1>0, <1>1, <1>4, <2>1
<1> QED
  BY <1>7, <1>12, <1>13 DEF IInv

LEMMA RevokeAccessStep ==
  ASSUME IInv, TypeOK', NEW c \in Tab, RevokeAccess(c)
  PROVE  IInv'
<1>0. /\ TypeOK /\ UNCHANGED <<now, pairs, sessionEnd, jar, out>>
      /\ Goto(c, "revokeSession")
  BY DEF IInv, RevokeAccess
<1>1. Later
  BY <1>0, LaterWhenSame
<1>2. (\A d \in Tab : ReqInv(req[d]))'
  BY <1>0, <1>1, GotoInformed DEF Exchanging, RevokeAccess, IInv, ReqInv
<1>3. tokenEnd'["refresh"] = tokenEnd["refresh"]
  BY <1>0 DEF RevokeAccess, Record, TypeOK, Kind
<1>4. \A d \in Tab : req'[d].pc = "issue" =>
        req[d].pc = "issue" /\ req'[d].refresh = req[d].refresh
  BY <1>0 DEF Goto, TypeOK, Request
<1>5. PairInv' /\ EndInv' /\ RecordInv' /\ ForkInv'
  BY <1>0, <1>3, <1>4, QuietStep
<1> QED
  BY <1>0, <1>2, <1>5 DEF IInv

\* A logout records the session it names; its history keeps the earliest expiry.
LEMMA RevokeSessionStep ==
  ASSUME IInv, TypeOK', NEW c \in Tab, RevokeSession(c)
  PROVE  IInv'
<1>0. /\ TypeOK /\ UNCHANGED <<now, pairs, tokenEnd, jar>> /\ Goto(c, "answer")
  BY DEF IInv, RevokeSession
<1>1. \A d \in Tab : req'[d].pc = "issue" =>
        req[d].pc = "issue" /\ req'[d].refresh = req[d].refresh
  BY <1>0 DEF Goto, TypeOK, Request
<1>2. CASE ~ (req[c].refresh # 0 /\ Decodes("refresh", req[c].refresh))
  <2>1. UNCHANGED <<sessionEnd, out>>
    BY <1>2 DEF RevokeSession
  <2>2. Later
    BY <1>0, <2>1, LaterWhenSame
  <2>3. (\A d \in Tab : ReqInv(req[d]))'
    BY <1>0, <2>2, GotoInformed DEF Exchanging
  <2>4. PairInv' /\ EndInv' /\ RecordInv' /\ ForkInv'
    BY <1>0, <1>1, <2>1, QuietStep
  <2> QED
    BY <1>0, <2>3, <2>4 DEF IInv
<1>3. ASSUME NEW p, p = req[c].refresh, NEW s, s = pairs[p].sess,
             NEW exp, exp = Exp("refresh", p), NEW end, end = End(exp),
             p # 0, Decodes("refresh", p)
      PROVE  IInv'
  <2>1. p \in DOMAIN pairs
    BY <1>0, <1>3, PairDomain DEF IInv, ReqInv, TypeOK, Request, MaybePair
  <2>2. s \in Pair /\ exp \in Nat /\ exp # 0
    BY <1>0, <1>3, <2>1, PairDomain, ExpNat DEF Issued, Kind
  <2>3. end \in Nat /\ end # 0 /\ (Shared => exp < end + Second)
    BY <1>0, <1>3, <2>2, EndBounds DEF TypeOK, Time
  <2>4. /\ sessionEnd'[s] = end
        /\ \A r \in Pair \ {s} : sessionEnd'[r] = sessionEnd[r]
        /\ out'[s] = IF out[s] = 0 \/ exp < out[s] THEN exp ELSE out[s]
        /\ \A r \in Pair \ {s} : out'[r] = out[r]
    BY <1>0, <1>3, <2>2 DEF RevokeSession, TypeOK
  <2>5. /\ out[s] \in Nat /\ out'[s] \in Nat /\ out'[s] # 0 /\ out'[s] <= exp
        /\ out[s] # 0 => out'[s] <= out[s]
    BY <1>0, <2>2, <2>4 DEF TypeOK
  <2>6. Later
    <3>1. \A r \in Pair : out[r] # 0 => out'[r] # 0 /\ out'[r] <= out[r]
      <4>1. ASSUME NEW r \in Pair, out[r] # 0
            PROVE  out'[r] # 0 /\ out'[r] <= out[r]
        <5>1. CASE r = s
          BY <2>5, <4>1, <5>1
        <5>2. CASE r # s
          <6>1. out[r] \in Nat /\ out'[r] = out[r]
            BY <1>0, <2>4, <5>2 DEF TypeOK
          <6> QED
            BY <4>1, <6>1
        <5> QED
          BY <5>1, <5>2
      <4> QED
        BY <4>1
    <3>2. now <= now' /\ Len(pairs) <= Len(pairs')
      BY <1>0 DEF TypeOK, Time
    <3>3. \A r \in DOMAIN pairs : pairs'[r] = pairs[r]
      BY <1>0
    <3> QED
      BY <3>1, <3>2, <3>3, Zenon DEF Later
  <2>7. (\A d \in Tab : ReqInv(req[d]))'
    BY <1>0, <2>6, GotoInformed DEF Exchanging
  <2>8. EndInv'
    <3>1. Shared => out'[s] < end + Second
      <4>1. ASSUME Shared PROVE out'[s] < end + Second
        BY <2>2, <2>3, <2>5, <4>1, TimeAssumption
      <4> QED
        BY <4>1
    <3>2. \A r \in DOMAIN pairs : Exp("refresh", r)' = Exp("refresh", r)
      BY <2>6, ExpStays DEF Kind
    <3> QED
      BY <1>0, <2>2, <2>4, <3>1, <3>2 DEF IInv, EndInv, Used, Live
  <2>9. RecordInv'
    <3>1. \A r \in DOMAIN pairs :
            /\ Past(Exp("refresh", r))' = Past(Exp("refresh", r))
            /\ Used(r)' = Used(r)
            /\ Rotated(r)' = Rotated(r)
      BY <1>0 DEF Past, Exp, Whole, TTL, Used, Live, Rotated
    <3>2. \A r \in Pair : out'[r] # 0 => sessionEnd'[r] # 0 \/ Past(out[r])'
      BY <1>0, <2>2, <2>3, <2>4 DEF IInv, RecordInv, Past
    <3> QED
      BY <1>0, <1>1, <3>1, <3>2 DEF IInv, RecordInv
  <2>10. ForkInv'
    BY <1>0, <1>1
    DEF IInv, ForkInv, ForkOnlyPastExpiry, Siblings, Exp, Whole, TTL, Rotated, Past
  <2>11. PairInv' /\ jar' <= Len(pairs)'
    BY <1>0 DEF IInv, PairInv
  <2> QED
    BY <2>7, <2>8, <2>9, <2>10, <2>11 DEF IInv
<1> QED
  BY <1>2, <1>3

LEMMA InitInv == Init => IInv
<1> SUFFICES ASSUME Init PROVE IInv
  OBVIOUS
<1>1. TypeOK /\ pairs = <<>> /\ DOMAIN pairs = {} /\ Len(pairs) = 0 /\ jar = 0
  BY InitType DEF Init
<1>2. PairInv
  BY <1>1 DEF PairInv
<1>3. EndInv
  BY <1>1 DEF Init, EndInv, Kind
<1>4. RecordInv
  BY <1>1 DEF Init, RecordInv
<1>5. ForkInv
  BY <1>1 DEF Init, ForkInv, ForkOnlyPastExpiry, IdleRequest
<1>6. \A c \in Tab : ReqInv(req[c])
  BY <1>1 DEF Init, ReqInv, IdleRequest, Exchanging
<1> QED
  BY <1>1, <1>2, <1>3, <1>4, <1>5, <1>6 DEF IInv

\* Every step keeps the invariant.
LEMMA NextInv == IInv /\ [Next]_vars => IInv'
<1> SUFFICES ASSUME IInv, [Next]_vars PROVE IInv'
  OBVIOUS
<1>0. TypeOK /\ TypeOK'
  BY TypeStep DEF IInv
<1>1. CASE UNCHANGED vars
  BY <1>1
  DEF vars, store, IInv, TypeOK, PairInv, EndInv, RecordInv, ForkInv, ReqInv,
      ForkOnlyPastExpiry, Siblings, Exp, Whole, TTL, Rotated, Past, Used, Live,
      Barred, Session, Subject
<1>2. CASE Tick
  BY <1>0, <1>2, TickStep
<1>3. ASSUME NEW c \in Tab, NEW op \in Op, Send(c, op) PROVE IInv'
  BY <1>0, <1>3, SendStep
<1>4. ASSUME NEW c \in Tab,
             \/ Login(c) \/ CheckToken(c) \/ CheckSession(c) \/ Consume(c)
             \/ TestUsed(c) \/ AddUsed(c) \/ Rotate(c) \/ RevokeAccess(c)
             \/ RevokeSession(c) \/ Receive(c) \/ Abandon(c)
      PROVE  IInv'
  BY <1>0, <1>4, LoginStep, CheckTokenStep, CheckSessionStep, ConsumeStep,
     TestUsedStep, RotateStep, RevokeAccessStep, RevokeSessionStep, EndStep
<1> QED
  BY <1>1, <1>2, <1>3, <1>4 DEF Next

\* me and the rotation answer a request of a session logged out before only when
\* the token that logged it out is past: the last check of the session saw no entry.
LEMMA GrantStep ==
  ASSUME IInv, Next, NEW c \in Tab, Granted(c), req[c].barred
  PROVE  Past(out[Session(req[c])])
<1>0. TypeOK
  BY DEF IInv
<1>1. CASE CheckSession(c)
  <2>1. SessionValid(req[c])
    BY <1>0, <1>1 DEF CheckSession, Granted, Stop, IdleRequest, TypeOK
  <2> QED
    BY <2>1, SessionChecked DEF Past
<1>2. CASE Rotate(c)
  BY <1>2 DEF Rotate, IInv, ReqInv, Exchanging, Past
<1>3. CASE CheckSession(c) \/ Rotate(c)
  BY <1>1, <1>2, <1>3
<1>4. ASSUME req'[c] = req[c] PROVE FALSE
  BY <1>4 DEF Granted
<1>5. CASE Tick
  BY <1>4, <1>5 DEF Tick
<1>6. ASSUME NEW d \in Tab,
             \/ Login(d) \/ CheckToken(d) \/ Consume(d) \/ TestUsed(d)
             \/ AddUsed(d) \/ RevokeAccess(d) \/ RevokeSession(d)
             \/ Receive(d) \/ Abandon(d) \/ \E op \in Op : Send(d, op)
      PROVE  FALSE
  <2>1. \E r : req' = [req EXCEPT ![d] = r]
    BY <1>6
    DEF Login, CheckToken, Consume, TestUsed, AddUsed, RevokeAccess,
        RevokeSession, Receive, Abandon, Send, Goto, Stop
  <2>2. d = c
    BY <1>0, <1>4, <2>1 DEF TypeOK
  <2>3. CASE RevokeSession(c)
    BY <1>0, <2>3
    DEF RevokeSession, Goto, IInv, ReqInv, Granted, TypeOK, Request
  <2>4. CASE Login(c)
    BY <1>0, <2>4 DEF Login, Granted, IdleRequest, TypeOK
  <2>5. CASE \E op \in Op : Send(c, op)
    <3>1. PICK op \in Op, access \in {0, jar}, refresh \in {0, jar} :
            req' = [req EXCEPT ![c] = [Asked(op, access, refresh) EXCEPT
                      !.barred = Barred(Asked(op, access, refresh))]]
      BY <2>5 DEF Send
    <3> QED
      BY <1>0, <3>1 DEF Granted, Asked, IdleRequest, TypeOK
  <2>6. CASE \/ CheckToken(c) \/ Consume(c) \/ TestUsed(c) \/ AddUsed(c)
             \/ RevokeAccess(c) \/ Receive(c) \/ Abandon(c)
    BY <1>0, <2>6
    DEF CheckToken, Consume, TestUsed, AddUsed, RevokeAccess, Receive,
        Abandon, Goto, Stop, Granted, IdleRequest, TypeOK, Request
  <2> QED
    BY <1>6, <2>2, <2>3, <2>4, <2>5, <2>6
<1>7. ASSUME NEW d \in Tab, d # c, CheckSession(d) \/ Rotate(d) PROVE FALSE
  BY <1>0, <1>4, <1>7 DEF CheckSession, Rotate, Goto, Stop, TypeOK
<1> QED
  BY <1>3, <1>5, <1>6, <1>7 DEF Next

(***************************************************************************)
(* The theorems.                                                           *)
(***************************************************************************)
\* The inductive invariant holds of every behaviour.
THEOREM Invariant == Spec => []IInv
<1>1. Init => IInv
  BY InitInv
<1>2. IInv /\ [Next]_vars => IInv'
  BY NextInv
<1> QED
  BY <1>1, <1>2, PTL DEF Spec

\* Every variable stays in its domain: in particular no handler reads a cookie's
\* pair that was never issued, and no lifetime is negative.
THEOREM TypeCorrect == Spec => []TypeOK
<1>1. IInv => TypeOK
  BY DEF IInv
<1> QED
  BY <1>1, Invariant, PTL

\* Over Redis, consume_refresh_token lets a token be rotated a second time only
\* from the last second of its life on.
THEOREM ForkCorrect ==
  ASSUME Shared PROVE Spec => []ForkOnlyPastExpiry
<1>1. IInv => ForkOnlyPastExpiry
  BY DEF IInv, ForkInv
<1> QED
  BY <1>1, Invariant, PTL

\* After revoke_session, require_claims and require_refresh_claims grant nothing
\* of the session before the token that logged it out expires.
THEOREM LogoutCorrect == Spec => LogoutHolds
<1>1. ASSUME IInv, Next
      PROVE  \A c \in Tab : Granted(c) /\ req[c].barred
                          => out[Session(req[c])] < now + Second
  BY <1>1, GrantStep DEF Past
<1>2. IInv /\ [Next]_vars
      => [\A c \in Tab : Granted(c) /\ req[c].barred
                         => out[Session(req[c])] < now + Second]_vars
  BY <1>1
<1> QED
  BY <1>2, Invariant, PTL DEF Spec, LogoutHolds

\* Over the process-local store they never grant it anything again.
THEOREM LogoutLasts ==
  ASSUME ~ Shared PROVE Spec => LogoutIsLasting
<1>1. ASSUME IInv, Next
      PROVE  \A c \in Tab : Granted(c) /\ OnValidToken(req[c]) => ~ req[c].barred
  BY <1>1, GrantStep DEF Past
<1>2. IInv /\ [Next]_vars
      => [\A c \in Tab : Granted(c) /\ OnValidToken(req[c]) => ~ req[c].barred]_vars
  BY <1>1
<1> QED
  BY <1>2, Invariant, PTL DEF Spec, LogoutIsLasting

\* The process-local store keeps the record of a used token for as long as the
\* token is accepted.
THEOREM RecordCorrect ==
  ASSUME ~ Shared PROVE Spec => []RecordOutlivesToken
<1>1. IInv => RecordOutlivesToken
  BY DEF IInv, RecordInv, RecordOutlivesToken, Past
<1> QED
  BY <1>1, Invariant, PTL
=============================================================================
