---------------------------- MODULE GatewayProofs ----------------------------
(***************************************************************************)
(* Proofs about Gateway.tla for any connections and events, any capacity,  *)
(* whichever clients stall and whatever they may see.                      *)
(***************************************************************************)
EXTENDS Gateway, FiniteSetTheorems, SequenceTheorems, TLAPS

\* What TypeOK needs to be inductive: a connection has drawn a session, its only
\* one, exactly if it has authenticated, and the socket's lock is held for an
\* event, or for the connection being pushed to.
Held ==
  /\ \A c \in Conns :
       /\ session[c] = IF authed[c] THEN 1 ELSE 0
       /\ phase[c] = "intro" => ~authed[c]
       /\ phase[c] = "adding" => authed[c]
       /\ writing[c] = "writer" => taken[c] # None
  /\ \A e \in Events : relay[e] = "send" <=> target[e] # None

TypeInv == TypeOK /\ Held

-----------------------------------------------------------------------------
(* Queues.                                                                 *)

Has(s, e) == \E i \in DOMAIN s : s[i] = e

Distinct(s) == \A i, j \in DOMAIN s : s[i] = s[j] => i = j

\* What <- puts in a channel and what the receive leaves there.
LEMMA AppendFacts ==
  ASSUME NEW s \in Seq(Events), NEW e \in Events
  PROVE  /\ Append(s, e) \in Seq(Events) /\ Len(Append(s, e)) = Len(s) + 1
         /\ \A x : Has(Append(s, e), x) <=> Has(s, x) \/ x = e
         /\ Distinct(s) /\ ~Has(s, e) => Distinct(Append(s, e))
<1>1. /\ Append(s, e) \in Seq(Events) /\ Len(Append(s, e)) = Len(s) + 1
      /\ DOMAIN s = 1..Len(s) /\ DOMAIN Append(s, e) = 1..(Len(s) + 1)
      /\ \A i \in 1..Len(s) : Append(s, e)[i] = s[i]
      /\ Append(s, e)[Len(s) + 1] = e
      /\ Len(s) \in Nat
  OBVIOUS
<1>2. \A i \in DOMAIN Append(s, e) : i \in DOMAIN s \/ i = Len(s) + 1
  BY <1>1
<1>3. DOMAIN s \subseteq DOMAIN Append(s, e) /\ Len(s) + 1 \in DOMAIN Append(s, e)
  BY <1>1
<1>4. \A i \in DOMAIN s : Append(s, e)[i] = s[i]
  BY <1>1
<1> QED
  BY <1>1, <1>2, <1>3, <1>4 DEF Has, Distinct

LEMMA TailFacts ==
  ASSUME NEW s \in Seq(Events), s # <<>>
  PROVE  /\ Head(s) \in Events /\ Has(s, Head(s))
         /\ Tail(s) \in Seq(Events) /\ Len(Tail(s)) = Len(s) - 1
         /\ \A x : Has(s, x) <=> Has(Tail(s), x) \/ x = Head(s)
         /\ Distinct(s) => Distinct(Tail(s)) /\ ~Has(Tail(s), Head(s))
<1>1. /\ Len(s) \in Nat \ {0} /\ DOMAIN s = 1..Len(s)
      /\ Tail(s) \in Seq(Events) /\ Len(Tail(s)) = Len(s) - 1
      /\ DOMAIN Tail(s) = 1..(Len(s) - 1)
      /\ \A i \in 1..(Len(s) - 1) : Tail(s)[i] = s[i + 1]
      /\ Head(s) = s[1] /\ Head(s) \in Events
  OBVIOUS
<1>2. 1 \in DOMAIN s
  BY <1>1
<1>3. \A i \in DOMAIN Tail(s) : i + 1 \in DOMAIN s /\ Tail(s)[i] = s[i + 1] /\ i + 1 # 1
  BY <1>1
<1>4. \A i \in DOMAIN s : i = 1 \/ (i - 1 \in DOMAIN Tail(s) /\ Tail(s)[i - 1] = s[i])
  BY <1>1
<1>5. \A x : Has(s, x) <=> Has(Tail(s), x) \/ x = Head(s)
  BY <1>1, <1>2, <1>3, <1>4 DEF Has
<1>6. ASSUME Distinct(s) PROVE Distinct(Tail(s)) /\ ~Has(Tail(s), Head(s))
  <2>1. ~Has(Tail(s), Head(s))
    BY <1>1, <1>2, <1>3, <1>6 DEF Has, Distinct
  <2>2. \A i, j \in DOMAIN Tail(s) : Tail(s)[i] = Tail(s)[j] => i + 1 = j + 1
    BY <1>3, <1>6 DEF Distinct
  <2>3. DOMAIN Tail(s) \subseteq Int
    BY <1>1
  <2> QED
    BY <2>1, <2>2, <2>3 DEF Distinct
<1> QED
  BY <1>1, <1>2, <1>5, <1>6 DEF Has

\* Where an event occurs once or not at all there are that many copies of it.
LEMMA CopiesOf ==
  ASSUME NEW s \in Seq(Events), NEW e
  PROVE  LET n == Cardinality({i \in DOMAIN s : s[i] = e})
         IN /\ n \in Nat
            /\ n # 0 <=> Has(s, e)
            /\ Distinct(s) => n <= 1
<1> DEFINE at == {i \in DOMAIN s : s[i] = e}
<1>1. DOMAIN s = 1..Len(s) /\ Len(s) \in Nat
  OBVIOUS
<1>2. IsFiniteSet(at)
  <2>1. IsFiniteSet(DOMAIN s)
    BY <1>1, FS_Interval
  <2>2. at \in SUBSET DOMAIN s
    OBVIOUS
  <2> QED
    BY <2>1, <2>2, FS_Subset
<1>3. Cardinality(at) \in Nat
  BY <1>2, FS_CardinalityType
<1>4. Cardinality(at) # 0 <=> at # {}
  BY <1>2, FS_EmptySet
<1>5. at # {} <=> Has(s, e)
  BY DEF Has
<1>6. ASSUME Distinct(s) PROVE Cardinality(at) <= 1
  <2>1. CASE at = {}
    BY <1>3, <1>4, <2>1
  <2>2. CASE at # {}
    <3>1. PICK i \in at : TRUE
      BY <2>2
    <3>2. at = {i}
      BY <1>6, <3>1 DEF Distinct
    <3>3. Cardinality({i}) = 1
      BY FS_Singleton
    <3> QED
      BY <3>2, <3>3
  <2> QED
    BY <2>1, <2>2
<1> QED
  BY <1>3, <1>4, <1>5, <1>6

-----------------------------------------------------------------------------
\* The type invariant holds at the start.
LEMMA InitType == Init => TypeInv
BY GatewayAssumption DEF Init, TypeInv, TypeOK, Held, Sessions, Entries

\* The steps of a connection's goroutines keep the types.
LEMMA ConnType ==
  ASSUME TypeInv, NEW c \in Conns, ConnNext(c)
  PROVE  TypeInv'
<1> USE GatewayAssumption
    DEF TypeInv, TypeOK, Held, connVars, sockVars, relayVars, pushVars, Goto, Sessions, Entries
<1>1. CASE IntroToken(c) \/ Login(c)
  <2>1. session[c] = 0 /\ phase[c] # "adding"
    BY <1>1 DEF IntroToken, Login
  <2>2. /\ authed' = [authed EXCEPT ![c] = TRUE]
        /\ session' = [session EXCEPT ![c] = 1]
        /\ phase' = [phase EXCEPT ![c] = "adding"]
        /\ UNCHANGED <<registry, sockVars, relayVars, pushVars>>
    BY <1>1, <2>1 DEF IntroToken, Login, OnAuthentication
  <2>3. /\ authed' \in [Conns -> BOOLEAN] /\ session' \in [Conns -> Sessions]
        /\ authed'[c] = TRUE /\ session'[c] = 1
        /\ \A d \in Conns \ {c} : authed'[d] = authed[d] /\ session'[d] = session[d]
    BY <2>2
  <2> QED
    BY <2>2, <2>3
<1>2. CASE IntroNoToken(c) \/ Process(c) \/ Disconnect(c)
  <2>1. CASE IntroNoToken(c)
    BY <2>1 DEF IntroNoToken
  <2>2. CASE Process(c)
    BY <2>2 DEF Process
  <2>3. CASE Disconnect(c)
    BY <2>3 DEF Disconnect
  <2> QED
    BY <1>2, <2>1, <2>2, <2>3
<1>3. CASE AddConnection(c)
  BY <1>3 DEF AddConnection
<1>4. CASE Take(c)
  <2>1. /\ Head(queue[c]) \in Events /\ Head(queue[c]) # None
        /\ Tail(queue[c]) \in Seq(Events) /\ Len(Tail(queue[c])) <= Cap
    BY <1>4, TailFacts DEF Take
  <2> QED
    BY <1>4, <2>1 DEF Take
<1>5. CASE WriterAcquires(c) \/ ProcAcquires(c) \/ PushAcquires(c)
  <2>1. PICK who \in {"writer", "proc", "push"} :
          /\ Acquire(c, who)
          /\ who = "writer" => taken[c] # None
    BY <1>5 DEF WriterAcquires, ProcAcquires, PushAcquires
  <2> QED
    BY <2>1 DEF Acquire
<1>6. CASE ProcWrites(c)
  BY <1>6 DEF ProcWrites, Release
<1>7. CASE WriterWrites(c)
  <2>1. taken[c] \in Events
    BY <1>7 DEF WriterWrites
  <2>2. Append(wrote[c], taken[c]) \in Seq(Events)
    BY <2>1, AppendFacts
  <2> QED
    BY <1>7, <2>2 DEF WriterWrites, Release
<1>8. CASE PushWrites(c)
  BY <1>8 DEF PushWrites, Release
<1> QED
  BY <1>1, <1>2, <1>3, <1>4, <1>5, <1>6, <1>7, <1>8 DEF ConnNext, Writes

\* The steps of a fan-out keep the types.
LEMMA RelayType ==
  ASSUME TypeInv, NEW e \in Events, RelayNext(e)
  PROVE  TypeInv'
<1> USE GatewayAssumption
    DEF TypeInv, TypeOK, Held, connVars, sockVars, relayVars, pushVars
<1>1. CASE Spawn(e) \/ RelayRLock(e) \/ RelayEnds(e)
  <2>1. CASE Spawn(e)
    BY <2>1 DEF Spawn
  <2>2. CASE RelayRLock(e)
    BY <2>2 DEF RelayRLock
  <2>3. CASE RelayEnds(e)
    BY <2>3 DEF RelayEnds
  <2> QED
    BY <1>1, <2>1, <2>2, <2>3
<1>2. CASE RelaySkips(e)
  BY <1>2 DEF RelaySkips
<1>3. CASE RelayChecks(e)
  <2>1. PICK entry \in todo[e] :
          /\ todo' = [todo EXCEPT ![e] = @ \ {entry}]
          /\ target' = [target EXCEPT ![e] = entry[2]]
    BY <1>3 DEF RelayChecks
  <2>2. entry[2] \in Conns
    BY <2>1 DEF Entries
  <2> QED
    BY <1>3, <2>1, <2>2 DEF RelayChecks
<1>4. CASE RelaySends(e)
  <2>1. target[e] \in Conns /\ queue[target[e]] \in Seq(Events)
    BY <1>4 DEF RelaySends
  <2>2. /\ Append(queue[target[e]], e) \in Seq(Events)
        /\ Len(Append(queue[target[e]], e)) <= Cap
    BY <1>4, <2>1, AppendFacts DEF RelaySends
  <2> QED
    BY <1>4, <2>1, <2>2 DEF RelaySends
<1> QED
  BY <1>1, <1>2, <1>3, <1>4 DEF RelayNext

\* The push goroutine's too.
LEMMA PushType ==
  ASSUME TypeInv, PushNext
  PROVE  TypeInv'
<1> USE GatewayAssumption
    DEF TypeInv, TypeOK, Held, connVars, sockVars, relayVars, pushVars
<1>1. CASE PushRLock
  <2>1. {entry[2] : entry \in registry} \subseteq Conns
    BY DEF Entries
  <2> QED
    BY <1>1, <2>1 DEF PushRLock
<1>2. CASE PushStarts
  BY <1>2 DEF PushStarts
<1>3. CASE PushVisits
  BY <1>3 DEF PushVisits
<1>4. CASE PushEnds
  BY <1>4 DEF PushEnds
<1> QED
  BY <1>1, <1>2, <1>3, <1>4 DEF PushNext

LEMMA NextType == TypeInv /\ [Next]_vars => TypeInv'
<1> SUFFICES ASSUME TypeInv, [Next]_vars PROVE TypeInv'
  OBVIOUS
<1>1. CASE UNCHANGED vars
  BY <1>1 DEF vars, connVars, sockVars, relayVars, pushVars, TypeInv, TypeOK, Held
<1> QED
  BY <1>1, ConnType, RelayType, PushType DEF Next

\* Every variable keeps its type.  Above all, a queue never holds more events than
\* its channel has room for, although several fan-outs look for room before any of
\* them sends (GatewayConnection.Relay), and a connection draws one session at most
\* (OnAuthentication).
THEOREM GatewayTypeCorrect == Spec => []TypeOK
<1>1. TypeInv => TypeOK
  BY DEF TypeInv
<1> QED
  BY <1>1, InitType, NextType, PTL DEF Spec

-----------------------------------------------------------------------------
(* Who gets an event, and how often.                                       *)

\* A connection is registered under its own session, once it has authenticated.
RegistryInv ==
  \A entry \in registry : entry[1] = session[entry[2]] /\ authed[entry[2]]

\* Event e is on its way to connection c, or has arrived.
Present(e, c) ==
  Has(wrote[c], e) \/ Has(queue[c], e) \/ taken[c] = e \/ target[e] = c

\* It is in one place of those only, and once.
Single(e, c) ==
  /\ target[e] = c => ~Has(queue[c], e) /\ taken[c] # e /\ ~Has(wrote[c], e)
  /\ Has(queue[c], e) => taken[c] # e /\ ~Has(wrote[c], e)
  /\ taken[c] = e => ~Has(wrote[c], e)

\* Event e is in one place at most on its way to connection c; if it is in any, its
\* fan-out has begun and will not visit c again, and c may have it.
InStep(e, c) ==
  /\ Single(e, c)
  /\ Present(e, c) =>
       /\ relay[e] \notin {"none", "lock"}
       /\ \A entry \in todo[e] : entry[2] # c
       /\ \E entry \in registry : entry[2] = c
       /\ <<e, c>> \notin Hidden

\* A fan-out takes connections from the registry, and none twice.  Copies alone are
\* not inductive: what has been sent must not be visited again.
FanOutInv ==
  /\ RegistryInv
  /\ \A e \in Events : todo[e] \subseteq registry
  /\ \A c \in Conns : Distinct(queue[c]) /\ Distinct(wrote[c])
  /\ \A e \in Events, c \in Conns : InStep(e, c)

\* The logins: what is registered stays, under the same session.
LEMMA LoginFanOut ==
  ASSUME TypeInv, FanOutInv, NEW c \in Conns,
         \/ IntroToken(c) \/ IntroNoToken(c) \/ Login(c) \/ AddConnection(c)
         \/ Process(c) \/ Disconnect(c)
  PROVE  FanOutInv'
<1>1. UNCHANGED <<sockVars, relayVars>>
  BY DEF IntroToken, IntroNoToken, Login, OnAuthentication, AddConnection, Process, Disconnect
<1>2. /\ registry \subseteq registry' /\ registry' \subseteq registry \cup {<<session[c], c>>}
      /\ registry' # registry => authed[c] /\ session' = session
      /\ \A d \in Conns : authed[d] => authed'[d] /\ session'[d] = session[d]
  BY DEF IntroToken, IntroNoToken, Login, OnAuthentication, AddConnection, Process, Disconnect,
         TypeInv, TypeOK, Held
<1>3. RegistryInv'
  <2>1. ASSUME NEW entry \in registry' PROVE entry[1] = session'[entry[2]] /\ authed'[entry[2]]
    <3>1. CASE entry \in registry
      <4>1. entry[2] \in Conns /\ entry[1] = session[entry[2]] /\ authed[entry[2]]
        BY <3>1 DEF FanOutInv, RegistryInv, TypeInv, TypeOK, Entries
      <4> QED
        BY <1>2, <4>1
    <3>2. CASE entry \notin registry
      <4>1. entry = <<session[c], c>> /\ registry' # registry
        BY <1>2, <2>1, <3>2
      <4> QED
        BY <1>2, <4>1
    <3> QED
      BY <3>1, <3>2
  <2> QED
    BY <2>1 DEF RegistryInv
<1> QED
  BY <1>1, <1>2, <1>3 DEF FanOutInv, InStep, Single, Present, sockVars, relayVars

\* The writer: what it takes off the queue it writes.
LEMMA WriterFanOut ==
  ASSUME TypeInv, FanOutInv, NEW c \in Conns, Take(c) \/ WriterWrites(c)
  PROVE  FanOutInv'
<1>1. /\ UNCHANGED <<registry, authed, session, relayVars>>
      /\ \A d \in Conns \ {c} : UNCHANGED <<queue[d], taken[d], wrote[d]>>
  BY DEF Take, WriterWrites, TypeInv, TypeOK, connVars, relayVars
<1>2. /\ queue[c] \in Seq(Events) /\ wrote[c] \in Seq(Events) /\ taken[c] \in Events \cup {None}
      /\ None \notin Events
      /\ Distinct(queue[c]) /\ Distinct(wrote[c])
  BY GatewayAssumption DEF TypeInv, TypeOK, FanOutInv
<1>3. /\ Distinct(queue'[c]) /\ Distinct(wrote'[c])
      /\ \A e \in Events : Single(e, c)' /\ (Present(e, c)' => Present(e, c))
  <2>1. CASE Take(c)
    <3>1. /\ queue[c] # <<>> /\ taken[c] = None /\ taken'[c] = Head(queue[c])
          /\ queue'[c] = Tail(queue[c]) /\ wrote'[c] = wrote[c] /\ target' = target
      BY <2>1 DEF Take, TypeInv, TypeOK, relayVars
    <3>2. /\ Distinct(Tail(queue[c])) /\ ~Has(Tail(queue[c]), taken'[c])
          /\ \A x : Has(queue[c], x) <=> Has(Tail(queue[c]), x) \/ x = taken'[c]
      BY <1>2, <3>1, TailFacts
    <3>3. ASSUME NEW e \in Events PROVE Single(e, c)' /\ (Present(e, c)' => Present(e, c))
      <4>1. Single(e, c)
        BY DEF FanOutInv, InStep
      <4>2. Has(queue[c], e) <=> Has(queue'[c], e) \/ e = taken'[c]
        BY <3>1, <3>2
      <4>3. e = taken'[c] => ~Has(queue'[c], e)
        BY <3>1, <3>2
      <4> QED
        BY <3>1, <4>1, <4>2, <4>3 DEF Single, Present
    <3> QED
      BY <1>2, <3>1, <3>2, <3>3
  <2>2. CASE WriterWrites(c)
    <3>1. /\ taken[c] \in Events /\ taken'[c] = None /\ target' = target
          /\ queue'[c] = queue[c]
          /\ wrote'[c] = wrote[c] \/ wrote'[c] = Append(wrote[c], taken[c])
      BY <2>2 DEF WriterWrites, TypeInv, TypeOK, Held, relayVars
    <3>2. ~Has(wrote[c], taken[c]) /\ ~Has(queue[c], taken[c]) /\ target[taken[c]] # c
      BY <3>1 DEF FanOutInv, InStep, Single
    <3>3. /\ Distinct(wrote'[c])
          /\ \A x : Has(wrote'[c], x) => Has(wrote[c], x) \/ x = taken[c]
      <4>1. /\ Distinct(Append(wrote[c], taken[c]))
            /\ \A x : Has(Append(wrote[c], taken[c]), x) <=> Has(wrote[c], x) \/ x = taken[c]
        BY <1>2, <3>1, <3>2, AppendFacts
      <4> QED
        BY <1>2, <3>1, <4>1
    <3>4. ASSUME NEW e \in Events PROVE Single(e, c)' /\ (Present(e, c)' => Present(e, c))
      <4>1. Single(e, c)
        BY DEF FanOutInv, InStep
      <4>2. Has(wrote'[c], e) => Has(wrote[c], e) \/ e = taken[c]
        BY <3>3
      <4>3. e = taken[c] => ~Has(wrote[c], e) /\ ~Has(queue[c], e) /\ target[e] # c
        BY <3>2
      <4> QED
        BY <1>2, <3>1, <4>1, <4>2, <4>3 DEF Single, Present
    <3> QED
      BY <1>2, <3>1, <3>3, <3>4
  <2> QED
    BY <2>1, <2>2
<1>4. /\ RegistryInv' /\ \A e \in Events : todo'[e] \subseteq registry'
  BY <1>1 DEF FanOutInv, RegistryInv, relayVars
<1>5. /\ \A d \in Conns : Distinct(queue'[d]) /\ Distinct(wrote'[d])
      /\ \A e \in Events, d \in Conns : Single(e, d)' /\ (Present(e, d)' => Present(e, d))
  <2>1. ASSUME NEW d \in Conns \ {c}, NEW e \in Events
        PROVE  /\ Distinct(queue'[d]) /\ Distinct(wrote'[d])
               /\ Single(e, d)' /\ (Present(e, d)' => Present(e, d))
    BY <1>1 DEF FanOutInv, InStep, Single, Present, relayVars
  <2>2. \A d \in Conns \ {c} : Distinct(queue'[d]) /\ Distinct(wrote'[d])
    BY <1>1 DEF FanOutInv
  <2> QED
    BY <1>3, <2>1, <2>2
<1> QED
  BY <1>1, <1>4, <1>5 DEF FanOutInv, InStep, relayVars

\* The fan-outs: each takes the registry once, and sends an event only where it has
\* not been.
LEMMA RelayFanOut ==
  ASSUME TypeInv, FanOutInv, NEW e \in Events, RelayNext(e)
  PROVE  FanOutInv'
<1>1. /\ UNCHANGED <<registry, authed, session, taken, wrote>>
      /\ \A f \in Events \ {e} : UNCHANGED <<relay[f], todo[f], target[f]>>
  BY DEF RelayNext, Spawn, RelayRLock, RelaySkips, RelayChecks, RelaySends, RelayEnds,
         TypeInv, TypeOK, connVars, sockVars
<1>2. RegistryInv'
  BY <1>1 DEF FanOutInv, RegistryInv
<1>3. \A f \in Events, c \in Conns : InStep(f, c)
  BY DEF FanOutInv
<1>4. CASE \/ Spawn(e) \/ RelayRLock(e) \/ RelaySkips(e) \/ RelayEnds(e)
  <2>1. UNCHANGED <<queue, target>>
    BY <1>4 DEF Spawn, RelayRLock, RelaySkips, RelayEnds, sockVars
  <2>2. todo'[e] \subseteq registry
    BY <1>4 DEF Spawn, RelayRLock, RelaySkips, RelayEnds, TypeInv, TypeOK, FanOutInv
  <2>3. /\ relay'[e] \in {"none", "lock"} => relay[e] \in {"none", "lock"}
        /\ todo'[e] \subseteq todo[e] \/ relay[e] = "lock"
    BY <1>4 DEF Spawn, RelayRLock, RelaySkips, RelayEnds, TypeInv, TypeOK
  <2>4. \A f \in Events, c \in Conns : InStep(f, c)'
    <3>1. ASSUME NEW c \in Conns PROVE InStep(e, c)'
      <4>1. InStep(e, c)
        BY <1>3
      <4> QED
        BY <1>1, <2>1, <2>3, <4>1 DEF InStep, Single, Present
    <3>2. ASSUME NEW f \in Events \ {e}, NEW c \in Conns PROVE InStep(f, c)'
      BY <1>1, <1>3, <2>1 DEF InStep, Single, Present
    <3> QED
      BY <3>1, <3>2
  <2> QED
    BY <1>1, <1>2, <2>1, <2>2, <2>4 DEF FanOutInv
<1>5. CASE RelayChecks(e)
  <2>1. PICK entry \in todo[e] :
          /\ Accepts(e, entry[2])
          /\ todo' = [todo EXCEPT ![e] = @ \ {entry}]
          /\ target' = [target EXCEPT ![e] = entry[2]]
    BY <1>5 DEF RelayChecks
  <2> DEFINE c == entry[2]
  <2>2. /\ c \in Conns /\ entry \in registry
        /\ relay[e] = "visit" /\ relay'[e] = "send" /\ target[e] = None
        /\ todo'[e] = todo[e] \ {entry} /\ target'[e] = c
        /\ UNCHANGED queue
    BY <1>5, <2>1 DEF RelayChecks, TypeInv, TypeOK, Held, FanOutInv, Entries, sockVars
  <2>3. ~Present(e, c)
    BY <1>3, <2>1, <2>2 DEF InStep
  <2>4. \A other \in todo[e] : other[2] = c => other = entry
    <3>1. todo[e] \subseteq registry /\ registry \subseteq Sessions \X Conns
      BY DEF FanOutInv, TypeInv, TypeOK, Entries
    <3>2. \A x \in registry : x = <<x[1], x[2]>> /\ x[1] = session[x[2]]
      BY <3>1 DEF FanOutInv, RegistryInv
    <3> QED
      BY <2>2, <3>1, <3>2
  <2>5. InStep(e, c)'
    BY <1>1, <2>1, <2>2, <2>3, <2>4 DEF InStep, Single, Present, Accepts
  <2>6. ASSUME NEW d \in Conns \ {c} PROVE InStep(e, d)'
    <3>1. InStep(e, d)
      BY <1>3
    <3> QED
      BY <1>1, <2>2, <3>1, GatewayAssumption DEF InStep, Single, Present
  <2>7. ASSUME NEW f \in Events \ {e}, NEW d \in Conns PROVE InStep(f, d)'
    BY <1>1, <1>3, <2>2 DEF InStep, Single, Present
  <2>8. \A f \in Events, d \in Conns : InStep(f, d)'
    BY <2>5, <2>6, <2>7
  <2> QED
    BY <1>1, <1>2, <2>2, <2>8 DEF FanOutInv
<1>6. CASE RelaySends(e)
  <2>0. PICK c \in Conns : c = target[e]
    BY <1>6, GatewayAssumption DEF RelaySends, TypeInv, TypeOK, Held
  <2>1. /\ relay[e] = "send" /\ relay'[e] = "visit" /\ target'[e] = None
        /\ c # None /\ todo' = todo
        /\ queue' = [queue EXCEPT ![c] = Append(queue[c], e)]
        /\ queue \in [Conns -> Seq(Events)]
    BY <1>6, <2>0, GatewayAssumption DEF RelaySends, TypeInv, TypeOK, Held
  <2>2. /\ queue'[c] = Append(queue[c], e)
        /\ \A d \in Conns \ {c} : queue'[d] = queue[d]
    BY <2>1
  <2>3. ~Has(queue[c], e) /\ taken[c] # e /\ ~Has(wrote[c], e) /\ Distinct(queue[c])
    BY <1>3, <2>0 DEF FanOutInv, InStep, Single
  <2>4. /\ Distinct(queue'[c])
        /\ \A x : Has(queue'[c], x) <=> Has(queue[c], x) \/ x = e
    BY <2>1, <2>2, <2>3, AppendFacts
  <2>5. ASSUME NEW f \in Events PROVE InStep(f, c)'
    <3>1. InStep(f, c)
      BY <1>3
    <3>2. CASE f = e
      BY <1>1, <2>0, <2>1, <2>3, <3>1, <3>2 DEF InStep, Single, Present
    <3>3. CASE f # e
      <4>1. Has(queue'[c], f) <=> Has(queue[c], f)
        BY <2>4, <3>3
      <4> QED
        BY <1>1, <2>1, <3>1, <3>3, <4>1 DEF InStep, Single, Present
    <3> QED
      BY <3>2, <3>3
  <2>6. ASSUME NEW f \in Events, NEW d \in Conns \ {c} PROVE InStep(f, d)'
    <3>1. InStep(f, d)
      BY <1>3
    <3>2. CASE f = e
      BY <1>1, <2>0, <2>1, <2>2, <3>1, <3>2, GatewayAssumption DEF InStep, Single, Present
    <3>3. CASE f # e
      BY <1>1, <2>1, <2>2, <3>1, <3>3 DEF InStep, Single, Present
    <3> QED
      BY <3>2, <3>3
  <2>7. \A f \in Events, d \in Conns : InStep(f, d)'
    BY <2>5, <2>6
  <2> QED
    BY <1>1, <1>2, <2>1, <2>2, <2>4, <2>7 DEF FanOutInv
<1> QED
  BY <1>4, <1>5, <1>6 DEF RelayNext

LEMMA InitFanOut == Init => FanOutInv
BY GatewayAssumption DEF Init, FanOutInv, RegistryInv, InStep, Single, Present, Has, Distinct

LEMMA NextFanOut == TypeInv /\ FanOutInv /\ [Next]_vars => FanOutInv'
<1> SUFFICES ASSUME TypeInv, FanOutInv, [Next]_vars PROVE FanOutInv'
  OBVIOUS
<1>1. CASE UNCHANGED <<registry, authed, session, queue, taken, wrote, relayVars>>
  BY <1>1 DEF relayVars, FanOutInv, RegistryInv, InStep, Single, Present
<1>2. ASSUME NEW c \in Conns,
             \/ WriterAcquires(c) \/ ProcAcquires(c) \/ PushAcquires(c)
             \/ ProcWrites(c) \/ PushWrites(c)
      PROVE  UNCHANGED <<registry, authed, session, queue, taken, wrote, relayVars>>
  BY <1>2 DEF WriterAcquires, ProcAcquires, PushAcquires, Acquire, ProcWrites, PushWrites,
              connVars
<1>3. ASSUME PushNext \/ UNCHANGED vars
      PROVE  UNCHANGED <<registry, authed, session, queue, taken, wrote, relayVars>>
  BY <1>3 DEF PushNext, PushStarts, PushRLock, PushVisits, PushEnds, vars, connVars, sockVars
<1> QED
  BY <1>1, <1>2, <1>3, LoginFanOut, WriterFanOut, RelayFanOut DEF Next, ConnNext, Writes

\* In such a state there is one copy at most, and if there is one, the event is
\* there.
LEMMA CopiesPresent ==
  ASSUME TypeInv, FanOutInv, NEW e \in Events, NEW c \in Conns
  PROVE  Copies(e, c) <= 1 /\ (Copies(e, c) # 0 => Present(e, c))
<1> DEFINE w == Cardinality({i \in DOMAIN wrote[c] : wrote[c][i] = e})
           q == Cardinality({i \in DOMAIN queue[c] : queue[c][i] = e})
           t == IF taken[c] = e THEN 1 ELSE 0
           g == IF target[e] = c THEN 1 ELSE 0
<1>1. /\ w \in Nat /\ w <= 1 /\ (w # 0 <=> Has(wrote[c], e))
      /\ q \in Nat /\ q <= 1 /\ (q # 0 <=> Has(queue[c], e))
  <2>1. wrote[c] \in Seq(Events) /\ queue[c] \in Seq(Events)
    BY DEF TypeInv, TypeOK
  <2>2. Distinct(wrote[c]) /\ Distinct(queue[c])
    BY DEF FanOutInv
  <2> QED
    BY <2>1, <2>2, CopiesOf
<1>2. Single(e, c)
  BY DEF FanOutInv, InStep
<1>3. Copies(e, c) = w + q + t + g
  BY DEF Copies
<1> HIDE DEF w, q
<1>4. CASE target[e] = c
  BY <1>1, <1>2, <1>3, <1>4 DEF Single, Present
<1>5. CASE target[e] # c
  BY <1>1, <1>2, <1>3, <1>5 DEF Single, Present
<1> QED
  BY <1>4, <1>5

\* No client receives an event twice, whichever way and however often it tried to
\* authenticate, and however fan-outs, logins and writers interleave: a connection
\* is in gw.connections under one session only (OnAuthentication, AddConnection).
THEOREM GatewayNoDuplicates == Spec => []NoDuplicates
<1>1. TypeInv /\ FanOutInv => NoDuplicates
  BY CopiesPresent DEF NoDuplicates
<1> QED
  BY <1>1, InitType, InitFanOut, NextType, NextFanOut, PTL DEF Spec

\* An event only travels to a connection that has authenticated, that is
\* registered, and whose user may view the channel (Gateway.RelayByChannel,
\* GatewayConnection.Relay).
THEOREM GatewayOnlyEntitled == Spec => []OnlyEntitled
<1>1. ASSUME TypeInv, FanOutInv PROVE OnlyEntitled
  <2> SUFFICES ASSUME NEW e \in Events, NEW c \in Conns, Copies(e, c) # 0
               PROVE  /\ authed[c] /\ <<e, c>> \notin Hidden
                      /\ \E s \in Sessions : <<s, c>> \in registry
    BY DEF OnlyEntitled
  <2>1. Present(e, c)
    BY <1>1, CopiesPresent
  <2>2. PICK entry \in registry : entry[2] = c
    BY <1>1, <2>1 DEF FanOutInv, InStep
  <2>3. entry = <<entry[1], c>> /\ entry[1] \in Sessions /\ authed[c]
    BY <1>1, <2>2 DEF FanOutInv, RegistryInv, TypeInv, TypeOK, Entries
  <2> QED
    BY <1>1, <2>1, <2>2, <2>3 DEF FanOutInv, InStep
<1> QED
  BY <1>1, InitType, InitFanOut, NextType, NextFanOut, PTL DEF Spec

-----------------------------------------------------------------------------
(* The gateway implements the abstract delivery.                           *)

\* One event in front of a queue.
LEMMA FrontFacts ==
  ASSUME NEW e \in Events, NEW s \in Seq(Events)
  PROVE  /\ <<e>> \o s \in Seq(Events) /\ <<e>> \o s # <<>>
         /\ Head(<<e>> \o s) = e /\ Tail(<<e>> \o s) = s
<1> DEFINE t == <<e>> \o s
<1>1. <<e>> \in Seq(Events) /\ Len(<<e>>) = 1 /\ <<e>>[1] = e
  OBVIOUS
<1>2. /\ t \in Seq(Events) /\ Len(t) = 1 + Len(s)
      /\ \A i \in 1 .. 1 + Len(s) : t[i] = IF i <= 1 THEN <<e>>[i] ELSE s[i - 1]
  BY <1>1, ConcatProperties
<1>3. Len(s) \in Nat
  OBVIOUS
<1> HIDE DEF t
<1>4. t # <<>> /\ t[1] = e /\ \A i \in 1 .. Len(s) : t[i + 1] = s[i]
  BY <1>1, <1>2, <1>3
<1>5. /\ Tail(t) \in Seq(Events) /\ Len(Tail(t)) = Len(s)
      /\ \A i \in 1 .. Len(s) : Tail(t)[i] = t[i + 1]
  BY <1>2, <1>3, <1>4, HeadTailProperties
<1>6. Tail(t) = s
  BY <1>4, <1>5, SeqEqual
<1>7. Head(t) = e
  BY <1>2, <1>4
<1> QED
  BY <1>2, <1>4, <1>6, <1>7 DEF t

\* A queue is its first event in front of the rest.
LEMMA FrontBack ==
  ASSUME NEW s \in Seq(Events), s # <<>>
  PROVE  <<Head(s)>> \o Tail(s) = s
<1> DEFINE t == <<Head(s)>> \o Tail(s)
<1>1. /\ Head(s) \in Events /\ Tail(s) \in Seq(Events) /\ Len(Tail(s)) = Len(s) - 1
      /\ \A i \in 1 .. Len(Tail(s)) : Tail(s)[i] = s[i + 1]
      /\ Head(s) = s[1] /\ Len(s) \in Nat \ {0}
  OBVIOUS
<1>2. <<Head(s)>> \in Seq(Events) /\ Len(<<Head(s)>>) = 1 /\ <<Head(s)>>[1] = s[1]
  BY <1>1
<1>3. /\ t \in Seq(Events) /\ Len(t) = 1 + Len(Tail(s))
      /\ \A i \in 1 .. 1 + Len(Tail(s)) :
           t[i] = IF i <= 1 THEN <<Head(s)>>[i] ELSE Tail(s)[i - 1]
  BY <1>1, <1>2, ConcatProperties
<1> HIDE DEF t
<1>4. Len(t) = Len(s) /\ \A i \in 1 .. Len(s) : t[i] = s[i]
  BY <1>1, <1>2, <1>3
<1>5. t = s
  BY <1>3, <1>4, SeqEqual
<1> QED
  BY <1>5 DEF t

\* The line of a connection: what the writer has taken, and the queue.
LEMMA LineFacts ==
  ASSUME TypeInv, NEW c \in Conns
  PROVE  /\ Line(c) \in Seq(Events)
         /\ taken[c] = None => Line(c) = queue[c]
         /\ taken[c] # None =>
              Line(c) # <<>> /\ Head(Line(c)) = taken[c] /\ Tail(Line(c)) = queue[c]
         /\ \A e \in Events : Has(Line(c), e) <=> Has(queue[c], e) \/ taken[c] = e
<1>1. /\ queue[c] \in Seq(Events) /\ taken[c] \in Events \cup {None} /\ None \notin Events
  BY GatewayAssumption DEF TypeInv, TypeOK
<1>2. CASE taken[c] = None
  <2>1. Line(c) = queue[c]
    BY <1>1, <1>2, ConcatEmptySeq DEF Line
  <2> QED
    BY <1>1, <1>2, <2>1
<1>3. CASE taken[c] # None
  <2>1. Line(c) = <<taken[c]>> \o queue[c] /\ taken[c] \in Events
    BY <1>1, <1>3 DEF Line
  <2>2. /\ Line(c) \in Seq(Events) /\ Line(c) # <<>>
        /\ Head(Line(c)) = taken[c] /\ Tail(Line(c)) = queue[c]
    BY <1>1, <2>1, FrontFacts
  <2>3. \A e : Has(Line(c), e) <=> Has(Tail(Line(c)), e) \/ e = Head(Line(c))
    <3> DEFINE s == Line(c)
    <3>1. s \in Seq(Events) /\ s # <<>>
      BY <2>2
    <3> HIDE DEF s
    <3>2. \A e : Has(s, e) <=> Has(Tail(s), e) \/ e = Head(s)
      BY <3>1, TailFacts
    <3> QED
      BY <3>2 DEF s
  <2> QED
    BY <1>3, <2>2, <2>3
<1> QED
  BY <1>2, <1>3

\* Appending to the second of two sequences appends to both together.
LEMMA AppendBehind ==
  ASSUME NEW s \in Seq(Events), NEW t \in Seq(Events), NEW e \in Events
  PROVE  s \o Append(t, e) = Append(s \o t, e)
<1>1. <<e>> \in Seq(Events) /\ s \o t \in Seq(Events)
  BY ConcatProperties
<1>2. Append(t, e) = t \o <<e>> /\ Append(s \o t, e) = (s \o t) \o <<e>>
  BY <1>1, AppendIsConcat
<1>3. (s \o t) \o <<e>> = s \o (t \o <<e>>)
  BY <1>1, ConcatAssociative
<1> QED
  BY <1>2, <1>3

\* What is sent to the queue joins the end of the line.
LEMMA LineAppend ==
  ASSUME TypeInv, NEW c \in Conns, NEW e \in Events,
         queue'[c] = Append(queue[c], e), taken'[c] = taken[c]
  PROVE  Line(c)' = Append(Line(c), e)
<1>1. queue[c] \in Seq(Events) /\ taken[c] \in Events \cup {None}
  BY DEF TypeInv, TypeOK
<1> DEFINE front == IF taken[c] = None THEN <<>> ELSE <<taken[c]>>
<1>2. front \in Seq(Events)
  BY <1>1
<1>3. Line(c) = front \o queue[c] /\ Line(c)' = front \o Append(queue[c], e)
  BY DEF Line
<1> HIDE DEF front
<1> QED
  BY <1>1, <1>2, <1>3, AppendBehind

\* Nothing a client sees.
Invisible ==
  UNCHANGED <<registry, queue, taken, wrote>> /\ \A c \in Conns : phase'[c] = "closed" <=> phase[c] = "closed"

LEMMA InvisibleStutters == Invisible => UNCHANGED Client!vars
BY DEF Invisible, Client!vars, Line

\* A connection's loop holds the socket only to reply: it is not closed meanwhile,
\* and no reply opens it again.
Replying == \A c \in Conns : writing[c] = "proc" => phase[c] = "reply"

LEMMA NextReplying == TypeInv /\ Replying /\ [Next]_vars => Replying'
<1> SUFFICES ASSUME TypeInv, Replying, [Next]_vars PROVE Replying'
  OBVIOUS
<1> USE DEF TypeInv, TypeOK, Replying
<1>1. ASSUME UNCHANGED <<writing, phase>> PROVE Replying'
  BY <1>1
<1>2. ASSUME NEW c \in Conns,
             \/ IntroToken(c) \/ IntroNoToken(c) \/ Login(c) \/ AddConnection(c)
             \/ Process(c) \/ Disconnect(c)
      PROVE  Replying'
  <2>1. /\ phase[c] # "reply" /\ writing' = writing
        /\ \A d \in Conns \ {c} : phase'[d] = phase[d]
    BY <1>2 DEF IntroToken, IntroNoToken, Login, OnAuthentication, AddConnection, Process,
                Disconnect, Goto, sockVars
  <2> QED
    BY <2>1
<1>3. ASSUME NEW c \in Conns, WriterAcquires(c) \/ ProcAcquires(c) \/ PushAcquires(c)
      PROVE  Replying'
  BY <1>3 DEF WriterAcquires, ProcAcquires, PushAcquires, Acquire, connVars
<1>4. ASSUME NEW c \in Conns, Writes(c) PROVE Replying'
  BY <1>4 DEF Writes, ProcWrites, WriterWrites, PushWrites, Release, Goto, connVars
<1>5. ASSUME NEW c \in Conns, Take(c) PROVE UNCHANGED <<writing, phase>>
  BY <1>5 DEF Take, connVars
<1>6. ASSUME NEW e \in Events, RelayNext(e) PROVE UNCHANGED <<writing, phase>>
  BY <1>6 DEF RelayNext, Spawn, RelayRLock, RelaySkips, RelayChecks, RelaySends, RelayEnds,
              sockVars, connVars
<1>7. ASSUME PushNext \/ UNCHANGED vars PROVE UNCHANGED <<writing, phase>>
  BY <1>7 DEF PushNext, PushStarts, PushRLock, PushVisits, PushEnds, vars, sockVars, connVars
<1> QED
  BY <1>1, <1>2, <1>3, <1>4, <1>5, <1>6, <1>7 DEF Next, ConnNext

\* One more entry is one more connection.
LEMMA OneMore ==
  ASSUME NEW R, NEW n, NEW c
  PROVE  {entry[2] : entry \in R \cup {<<n, c>>}} = {entry[2] : entry \in R} \cup {c}
<1> DEFINE A == {entry[2] : entry \in R \cup {<<n, c>>}}
           B == {entry[2] : entry \in R}
<1>1. ASSUME NEW d \in A PROVE d \in B \cup {c}
  <2>1. PICK entry \in R \cup {<<n, c>>} : d = entry[2]
    BY <1>1
  <2>2. CASE entry \in R
    BY <2>1, <2>2
  <2>3. CASE entry = <<n, c>>
    BY <2>1, <2>3
  <2> QED
    BY <2>1, <2>2, <2>3
<1>2. c \in A
  <2>1. <<n, c>> \in R \cup {<<n, c>>} /\ <<n, c>>[2] = c
    OBVIOUS
  <2> QED
    BY <2>1
<1>3. B \subseteq A
  OBVIOUS
<1> HIDE DEF A, B
<1>4. A = B \cup {c}
  BY <1>1, <1>2, <1>3
<1> QED
  BY <1>4 DEF A, B

\* Registering is joining, closing is leaving; the rest of a login, a request and
\* its answer are nothing to the relayed events.
LEMMA LoopRefines ==
  ASSUME TypeInv, Replying, NEW c \in Conns,
         \/ IntroToken(c) \/ IntroNoToken(c) \/ Login(c) \/ AddConnection(c)
         \/ Process(c) \/ Disconnect(c) \/ ProcWrites(c)
  PROVE  Client!Next \/ UNCHANGED Client!vars
<1> USE DEF TypeInv, TypeOK
<1>1. CASE AddConnection(c)
  <2>1. /\ registry' = registry \cup {<<session[c], c>>}
        /\ UNCHANGED <<queue, taken, wrote>>
        /\ \A d \in Conns : phase'[d] = "closed" <=> phase[d] = "closed"
    BY <1>1 DEF AddConnection, Goto, sockVars
  <2>2. {entry[2] : entry \in registry'} = {entry[2] : entry \in registry} \cup {c}
    BY <2>1, OneMore
  <2>3. Client!Join(c)
    BY <2>1, <2>2 DEF Client!Join, Line
  <2> QED
    BY <2>3 DEF Client!Next
<1>2. CASE Disconnect(c)
  <2>1. /\ UNCHANGED <<registry, queue, taken, wrote>>
        /\ \A d \in Conns : phase'[d] = "closed" <=> phase[d] = "closed" \/ d = c
    BY <1>2 DEF Disconnect, Goto, sockVars
  <2>2. Client!Leave(c)
    BY <2>1 DEF Client!Leave, Line
  <2> QED
    BY <2>2 DEF Client!Next
<1>3. CASE \/ IntroToken(c) \/ IntroNoToken(c) \/ Login(c) \/ Process(c) \/ ProcWrites(c)
  <2>1. UNCHANGED <<registry, queue, taken, wrote>>
    BY <1>3 DEF IntroToken, IntroNoToken, Login, OnAuthentication, Process, ProcWrites, sockVars
  <2>2. phase[c] # "closed"
    BY <1>3 DEF IntroToken, IntroNoToken, Login, Process, ProcWrites, Replying
  <2>3. phase'[c] # "closed" /\ \A d \in Conns \ {c} : phase'[d] = phase[d]
    BY <1>3 DEF IntroToken, IntroNoToken, Login, OnAuthentication, Process, ProcWrites, Goto
  <2> QED
    BY <2>1, <2>2, <2>3, InvisibleStutters DEF Invisible
<1> QED
  BY <1>1, <1>2, <1>3

\* Taking an event off the queue leaves the line as it is; writing it is delivering
\* the first of the line, or losing it.
LEMMA WriterRefines ==
  ASSUME TypeInv, NEW c \in Conns, Take(c) \/ WriterWrites(c)
  PROVE  Client!Next \/ UNCHANGED Client!vars
<1>1. UNCHANGED <<registry, phase>>
  BY DEF Take, WriterWrites, connVars
<1>2. /\ queue[c] \in Seq(Events) /\ taken[c] \in Events \cup {None} /\ None \notin Events
      /\ wrote \in [Conns -> Seq(Events)]
  BY GatewayAssumption DEF TypeInv, TypeOK
<1>3. \A d \in Conns \ {c} : queue'[d] = queue[d] /\ taken'[d] = taken[d]
  BY DEF Take, WriterWrites, TypeInv, TypeOK
<1>4. \A d \in Conns \ {c} : Line(d)' = Line(d)
  BY <1>3 DEF Line
<1>5. CASE Take(c)
  <2>1. /\ taken[c] = None /\ queue[c] # <<>> /\ wrote' = wrote
        /\ taken'[c] = Head(queue[c]) /\ queue'[c] = Tail(queue[c])
    BY <1>5 DEF Take, TypeInv, TypeOK
  <2>2. taken'[c] # None
    BY <1>2, <2>1, TailFacts
  <2>3. Line(c)' = <<Head(queue[c])>> \o Tail(queue[c])
    BY <2>1, <2>2 DEF Line
  <2>4. Line(c)' = Line(c)
    BY <1>2, <2>1, <2>3, FrontBack, LineFacts
  <2> QED
    BY <1>1, <1>4, <2>1, <2>4 DEF Client!vars
<1>6. CASE WriterWrites(c)
  <2>1. /\ taken[c] # None /\ taken'[c] = None /\ queue'[c] = queue[c]
        /\ wrote' = [wrote EXCEPT ![c] =
                       IF phase[c] = "closed" THEN @ ELSE Append(@, taken[c])]
    BY <1>6 DEF WriterWrites, TypeInv, TypeOK, Held
  <2>2. Line(c) # <<>> /\ Head(Line(c)) = taken[c] /\ Tail(Line(c)) = queue[c]
    BY <2>1, LineFacts
  <2>3. Line(c)' = queue[c]
    BY <1>2, <2>1, ConcatEmptySeq DEF Line
  <2> DEFINE lines == [d \in Conns |-> Line(d)]
  <2>4. lines' = [lines EXCEPT ![c] = Tail(@)] /\ lines[c] = Line(c)
    BY <1>4, <2>2, <2>3
  <2>5. CASE phase[c] = "closed"
    <3>1. wrote' = wrote
      BY <1>2, <2>1, <2>5
    <3>2. Client!Lose(c)
      BY <1>1, <2>2, <2>4, <2>5, <3>1 DEF Client!Lose
    <3> QED
      BY <3>2 DEF Client!Next
  <2>6. CASE phase[c] # "closed"
    <3>1. wrote' = [wrote EXCEPT ![c] = Append(@, Head(lines[c]))]
      BY <2>1, <2>2, <2>4, <2>6
    <3>2. Client!Deliver(c)
      BY <1>1, <2>2, <2>4, <2>6, <3>1 DEF Client!Deliver
    <3> QED
      BY <3>2 DEF Client!Next
  <2> QED
    BY <2>5, <2>6
<1> QED
  BY <1>5, <1>6

\* Sending to a queue is accepting the event for the client: for one that has
\* registered, that may have it, and that was not offered it before.
LEMMA RelayRefines ==
  ASSUME TypeInv, FanOutInv, NEW e \in Events, RelayNext(e)
  PROVE  Client!Next \/ UNCHANGED Client!vars
<1>1. UNCHANGED <<registry, phase, taken, wrote>>
  BY DEF RelayNext, Spawn, RelayRLock, RelaySkips, RelayChecks, RelaySends, RelayEnds,
         connVars, sockVars
<1>2. CASE Spawn(e) \/ RelayRLock(e) \/ RelaySkips(e) \/ RelayChecks(e) \/ RelayEnds(e)
  <2>1. UNCHANGED queue
    BY <1>2 DEF Spawn, RelayRLock, RelaySkips, RelayChecks, RelayEnds, sockVars
  <2> QED
    BY <1>1, <2>1, InvisibleStutters DEF Invisible
<1>3. CASE RelaySends(e)
  <2>1. PICK c \in Conns : c = target[e]
    BY <1>3, GatewayAssumption DEF RelaySends, TypeInv, TypeOK, Held
  <2>2. InStep(e, c) /\ Present(e, c)
    BY <2>1 DEF FanOutInv, Present
  <2>3. /\ ~Has(queue[c], e) /\ taken[c] # e /\ ~Has(wrote[c], e)
        /\ \E entry \in registry : entry[2] = c
        /\ <<e, c>> \notin Hidden
    BY <2>1, <2>2 DEF InStep, Single
  <2>4. /\ queue'[c] = Append(queue[c], e)
        /\ \A d \in Conns \ {c} : queue'[d] = queue[d]
    BY <1>3, <2>1 DEF RelaySends, TypeInv, TypeOK
  <2>5. Line(c)' = Append(Line(c), e)
    BY <1>1, <2>4, LineAppend
  <2>6. \A d \in Conns \ {c} : Line(d)' = Line(d)
    BY <1>1, <2>4 DEF Line
  <2> DEFINE lines == [d \in Conns |-> Line(d)]
  <2>7. lines' = [lines EXCEPT ![c] = Append(@, e)] /\ lines[c] = Line(c)
    BY <2>5, <2>6
  <2>8. ~Has(lines[c], e)
    BY <2>3, <2>7, LineFacts
  <2>9. Client!Accept(c, e)
    BY <1>1, <2>3, <2>7, <2>8 DEF Client!Accept, Client!In, Has
  <2> QED
    BY <2>9 DEF Client!Next
<1> QED
  BY <1>2, <1>3 DEF RelayNext

\* Taking a lock, and what the push goroutine does, is nothing to them.
LEMMA OthersRefine ==
  ASSUME \/ \E c \in Conns : \/ WriterAcquires(c) \/ ProcAcquires(c) \/ PushAcquires(c)
                             \/ PushWrites(c)
         \/ PushNext \/ UNCHANGED vars
  PROVE  UNCHANGED Client!vars
<1>1. UNCHANGED <<registry, phase, queue, taken, wrote>>
  BY DEF WriterAcquires, ProcAcquires, PushAcquires, Acquire, PushWrites, PushNext, PushStarts,
         PushRLock, PushVisits, PushEnds, vars, connVars, sockVars
<1> QED
  BY <1>1, InvisibleStutters DEF Invisible

\* The gateway implements the abstract delivery: bounded queues, fan-outs that run at
\* the same time, and a writer goroutine that competes with replies and pushes for the
\* socket are one line per client, accepted once each, received in order
\* (GatewayConnection.Relay, writeEvent, Run).
THEOREM GatewayRefines == Spec => ImplementsDelivery
<1> DEFINE I == TypeInv /\ FanOutInv /\ Replying
<1>1. Init => I /\ Client!Init
  <2> SUFFICES ASSUME Init PROVE I /\ Client!Init
    OBVIOUS
  <2>1. I
    BY InitType, InitFanOut DEF Init, Replying
  <2>2. \A c \in Conns : Line(c) = <<>>
    BY <2>1, LineFacts DEF Init
  <2> QED
    BY <2>1, <2>2 DEF Init, Client!Init
<1>2. I /\ [Next]_vars => I'
  BY NextType, NextFanOut, NextReplying
<1>3. I /\ [Next]_vars => [Client!Next]_(Client!vars)
  <2> SUFFICES ASSUME I, [Next]_vars
               PROVE  Client!Next \/ UNCHANGED Client!vars
    OBVIOUS
  <2> QED
    BY LoopRefines, WriterRefines, RelayRefines, OthersRefine DEF Next, ConnNext, Writes
<1> QED
  BY <1>1, <1>2, <1>3, PTL DEF Spec, ImplementsDelivery, Client!Spec
=============================================================================
