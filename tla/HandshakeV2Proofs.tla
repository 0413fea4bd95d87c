------------------------- MODULE HandshakeV2Proofs -------------------------
(***************************************************************************)
(* Proofs about HandshakeV2, for any number of hosts, dials, connections   *)
(* and sources, and any assignment of ids and keys to hosts.               *)
(*                                                                         *)
(* The inductive invariant has one part for the rate limiter, one for the  *)
(* messages and the trust stores, one for the connection counters and one  *)
(* for the keys in the queues and in the session stores.                   *)
(***************************************************************************)
EXTENDS HandshakeV2, FiniteSetTheorems, TLAPS

----------------------------------------------------------------------------
(* The rate limiter *)

\* What the limiter remembers of the window is exactly what was let through in
\* it: stale attempts are dropped in allow and in prune, which comes to the
\* same.
LimiterInv ==
  /\ LimiterTypeOK
  /\ \A ip \in Sources :
       /\ Recent(attempts[ip]) = Recent(admitted[ip])
       /\ IsFiniteSet(admitted[ip])
       /\ Cardinality(Recent(admitted[ip])) <= MaxAttempts

LEMMA LimiterInitial == LimiterInit => LimiterInv
<1> SUFFICES ASSUME LimiterInit PROVE LimiterInv
  OBVIOUS
<1>1. LimiterTypeOK
  BY LimiterAssumption DEF LimiterInit, LimiterTypeOK
<1>2. \A ip \in Sources : attempts[ip] = {} /\ admitted[ip] = {}
  BY DEF LimiterInit
<1>3. Recent({}) = {}
  BY DEF Recent
<1> QED
  BY <1>1, <1>2, <1>3, FS_EmptySet, LimiterAssumption DEF LimiterInv

LEMMA LimiterSteps ==
  ASSUME LimiterInv,
         \/ \E ip \in Sources, r \in Connections : AllowFrom(ip, r)
         \/ \E ip \in Sources : DenyFrom(ip)
         \/ Prune \/ Tick \/ UNCHANGED limiterVars
  PROVE  LimiterInv'
<1> USE LimiterAssumption
<1>1. /\ clock \in 0 .. MaxClock
      /\ attempts \in [Sources -> SUBSET [by : Connections, at : 0 .. clock]]
      /\ admitted \in [Sources -> SUBSET [by : Connections, at : 0 .. clock]]
  BY DEF LimiterInv, LimiterTypeOK
<1>2. ASSUME NEW ip \in Sources, NEW r \in Connections, AllowFrom(ip, r)
      PROVE  LimiterInv'
  <2> DEFINE a == [by |-> r, at |-> clock]
  <2>1. /\ Cardinality(Recent(attempts[ip])) < MaxAttempts /\ clock' = clock
        /\ attempts'[ip] = Recent(attempts[ip]) \union {a}
        /\ admitted'[ip] = admitted[ip] \union {a}
        /\ \A jp \in Sources : jp # ip =>
             attempts'[jp] = attempts[jp] /\ admitted'[jp] = admitted[jp]
    BY <1>1, <1>2 DEF AllowFrom
  <2>2. LimiterTypeOK'
    BY <1>1, <1>2 DEF AllowFrom, LimiterTypeOK, Recent
  <2>3. /\ Recent(attempts[ip])' = Recent(attempts[ip]) \union {a}
        /\ Recent(admitted[ip])' = Recent(admitted[ip]) \union {a}
    BY <1>1, <2>1 DEF Recent
  <2>4. IsFiniteSet(Recent(admitted[ip])) /\ Cardinality(Recent(admitted[ip])) \in Nat
    <3>1. Recent(admitted[ip]) \in SUBSET admitted[ip] /\ IsFiniteSet(admitted[ip])
      BY DEF LimiterInv, Recent
    <3> QED
      BY <3>1, FS_Subset, FS_CardinalityType
  <2>5. Cardinality(Recent(admitted[ip]) \union {a}) <= MaxAttempts
    <3> HIDE DEF a
    <3>1. Cardinality(Recent(admitted[ip])) < MaxAttempts
      BY <2>1 DEF LimiterInv
    <3>2. Cardinality(Recent(admitted[ip]) \union {a}) =
            IF a \in Recent(admitted[ip]) THEN Cardinality(Recent(admitted[ip]))
            ELSE Cardinality(Recent(admitted[ip])) + 1
      BY <2>4, FS_AddElement
    <3> QED
      BY <3>1, <3>2, <2>4
  <2>6. IsFiniteSet(admitted[ip] \union {a})
    <3> HIDE DEF a
    <3> QED
      BY FS_AddElement DEF LimiterInv
  <2>7. \A jp \in Sources : jp # ip =>
          /\ Recent(attempts[jp])' = Recent(attempts[jp])
          /\ Recent(admitted[jp])' = Recent(admitted[jp])
    BY <2>1 DEF Recent
  <2> QED
    BY <2>1, <2>2, <2>3, <2>5, <2>6, <2>7 DEF LimiterInv
<1>3. ASSUME NEW ip \in Sources, DenyFrom(ip)
      PROVE  LimiterInv'
  <2>1. /\ clock' = clock /\ admitted' = admitted
        /\ attempts'[ip] = Recent(attempts[ip])
        /\ \A jp \in Sources : jp # ip => attempts'[jp] = attempts[jp]
    BY <1>1, <1>3 DEF DenyFrom
  <2>2. LimiterTypeOK'
    BY <1>1, <1>3 DEF DenyFrom, LimiterTypeOK, Recent
  <2>3. \A jp \in Sources : /\ Recent(attempts[jp])' = Recent(attempts[jp])
                            /\ Recent(admitted[jp])' = Recent(admitted[jp])
    BY <2>1 DEF Recent
  <2> QED
    BY <2>1, <2>2, <2>3 DEF LimiterInv
<1>4. CASE Prune
  <2>1. /\ clock' = clock /\ admitted' = admitted
        /\ \A ip \in Sources :
             attempts'[ip] = IF Recent(attempts[ip]) = {} THEN {} ELSE attempts[ip]
    BY <1>4 DEF Prune
  <2>2. LimiterTypeOK'
    BY <1>1, <1>4 DEF Prune, LimiterTypeOK
  <2>3. \A ip \in Sources : /\ Recent(attempts[ip])' = Recent(attempts[ip])
                            /\ Recent(admitted[ip])' = Recent(admitted[ip])
    BY <2>1 DEF Recent
  <2> QED
    BY <2>1, <2>2, <2>3 DEF LimiterInv
<1>5. CASE Tick
  <2>1. clock' = clock + 1 /\ attempts' = attempts /\ admitted' = admitted
    BY <1>5 DEF Tick
  <2>2. LimiterTypeOK'
    BY <1>1, <1>5 DEF Tick, LimiterTypeOK
  <2>3. ASSUME NEW ip \in Sources
        PROVE  /\ Recent(attempts[ip])' = Recent(admitted[ip])'
               /\ Cardinality(Recent(admitted[ip])') <= MaxAttempts
    <3>1. /\ Recent(attempts[ip])' = {t \in Recent(attempts[ip]) : t.at > clock + 1 - Window}
          /\ Recent(admitted[ip])' = {t \in Recent(admitted[ip]) : t.at > clock + 1 - Window}
      BY <1>1, <2>1 DEF Recent
    <3>2. /\ Recent(attempts[ip]) = Recent(admitted[ip])
          /\ IsFiniteSet(admitted[ip]) /\ Cardinality(Recent(admitted[ip])) <= MaxAttempts
      BY DEF LimiterInv
    <3>3. IsFiniteSet(Recent(admitted[ip]))
      BY <3>2, FS_Subset DEF Recent
    <3>4. Recent(admitted[ip])' \in SUBSET Recent(admitted[ip])
      BY <3>1
    <3>5. /\ Cardinality(Recent(admitted[ip])') <= Cardinality(Recent(admitted[ip]))
          /\ IsFiniteSet(Recent(admitted[ip])')
      BY <3>3, <3>4, FS_Subset
    <3>6. /\ Cardinality(Recent(admitted[ip])') \in Nat
          /\ Cardinality(Recent(admitted[ip])) \in Nat
      BY <3>3, <3>5, FS_CardinalityType
    <3> QED
      BY <3>1, <3>2, <3>5, <3>6
  <2> QED
    BY <2>1, <2>2, <2>3 DEF LimiterInv
<1>6. CASE UNCHANGED limiterVars
  BY <1>6 DEF limiterVars, LimiterInv, LimiterTypeOK, Recent
<1> QED
  BY <1>2, <1>3, <1>4, <1>5, <1>6

\* The limiter lets through neither more nor less than its limit.
LEMMA InvImpliesAdmitsExactly == LimiterInv => AdmitsExactly
  BY DEF LimiterInv, AdmitsExactly, WindowLimit, DeniedOnlyWhenFull
----------------------------------------------------------------------------
(* Messages and trust stores *)

HelloMessages == {Hello(i) : i \in Initiations}
ReplyMessages == {Reply(r, Hello(i)) : r \in Connections, i \in Initiations}

IniStates == {"idle", "waiting", "done", "failed"}
ResStates == {"new", "reading", "replying", "done", "failed"}

\* Whatever an end has read was written by an exchange of the other kind.
MessagesInv ==
  /\ ini \in [Initiations -> [st : IniStates, m2 : ReplyMessages \union {NoMessage}]]
  /\ res \in [Connections -> [st : ResStates, m1 : HelloMessages \union {NoMessage}]]
  /\ \A r \in Connections : res[r].st \in {"replying", "done"} => res[r].m1 \in HelloMessages

PinsInv ==
  /\ pins \in [Hosts -> [Ids -> Keys \union {NoKey}]]
  /\ PinsAuthentic

\* A reply that can arrive is one to a hello.
LEMMA RepliesAnswerHellos ==
  MessagesInv => Replies \subseteq ReplyMessages /\ Hellos \subseteq HelloMessages
  BY DEF MessagesInv, Replies, Hellos, ReplyMessages, HelloMessages

\* The fields of a message.
LEMMA HelloFields ==
  ASSUME NEW i \in Initiations
  PROVE  /\ Hello(i).ex = i /\ Hello(i).id = IdOf[HostOf[i]]
         /\ Hello(i).key = PublicOf[HostOf[i]]
         /\ Hello(i).sig = [by |-> PrivateOf[HostOf[i]], over |-> <<i, i>>]
         /\ Hello(i).sig.by = PrivateOf[HostOf[i]]
  BY DEF Hello, Message

LEMMA ReplyFields ==
  ASSUME NEW r \in Connections, NEW i \in Initiations
  PROVE  /\ Reply(r, Hello(i)).ex = r /\ Reply(r, Hello(i)).id = IdOf[HostOf[r]]
         /\ Reply(r, Hello(i)).key = PublicOf[HostOf[r]]
         /\ Reply(r, Hello(i)).sig = [by |-> PrivateOf[HostOf[r]], over |-> <<i, r>>]
         /\ Reply(r, Hello(i)).sig.by = PrivateOf[HostOf[r]]
  BY HelloFields DEF Reply, Message

\* Every message names its sender, and verifies only if the sender's files
\* are a pair.
LEMMA MessageFromHost ==
  ASSUME NEW m \in HelloMessages \union ReplyMessages
  PROVE  \E g \in Hosts : /\ m.id = IdOf[g] /\ m.key = PublicOf[g] /\ m.sig.by = PrivateOf[g]
                          /\ m.id \in Ids /\ m.key \in Keys
<1>1. ASSUME NEW i \in Initiations, m = Hello(i)
      PROVE  \E g \in Hosts : /\ m.id = IdOf[g] /\ m.key = PublicOf[g] /\ m.sig.by = PrivateOf[g]
                              /\ m.id \in Ids /\ m.key \in Keys
  <2>1. HostOf[i] \in Hosts
    BY ExchangesAssumption
  <2>2. /\ m.id = IdOf[HostOf[i]] /\ m.key = PublicOf[HostOf[i]]
        /\ m.sig.by = PrivateOf[HostOf[i]]
    BY <1>1, HelloFields
  <2>3. m.id \in Ids /\ m.key \in Keys
    BY <2>1, <2>2, HostsAssumption
  <2> QED
    BY <2>1, <2>2, <2>3
<1>2. ASSUME NEW r \in Connections, NEW i \in Initiations, m = Reply(r, Hello(i))
      PROVE  \E g \in Hosts : /\ m.id = IdOf[g] /\ m.key = PublicOf[g] /\ m.sig.by = PrivateOf[g]
                              /\ m.id \in Ids /\ m.key \in Keys
  <2>1. HostOf[r] \in Hosts
    BY ExchangesAssumption
  <2>2. /\ m.id = IdOf[HostOf[r]] /\ m.key = PublicOf[HostOf[r]]
        /\ m.sig.by = PrivateOf[HostOf[r]]
    BY <1>2, ReplyFields
  <2>3. m.id \in Ids /\ m.key \in Keys
    BY <2>1, <2>2, HostsAssumption
  <2> QED
    BY <2>1, <2>2, <2>3
<1> QED
  BY <1>1, <1>2 DEF HelloMessages, ReplyMessages

\* _verify_and_trust pins what the host with that id and key has shown, and
\* leaves every pin that exists as it is.
LEMMA TrustStep ==
  ASSUME PinsInv, NEW x \in Initiations \union Connections,
         NEW m \in HelloMessages \union ReplyMessages, NEW salt,
         Acceptable(x, m, salt), Trust(x, m)
  PROVE  /\ PinsInv'
         /\ \A h \in Hosts, d \in Ids : pins[h][d] # NoKey => pins'[h][d] = pins[h][d]
<1>1. PICK g \in Hosts : /\ m.id = IdOf[g] /\ m.key = PublicOf[g] /\ m.sig.by = PrivateOf[g]
                         /\ m.id \in Ids /\ m.key \in Keys
  BY MessageFromHost
<1>2. m.sig.by = m.key /\ pins[HostOf[x]][m.id] \in {NoKey, m.key}
  BY DEF Acceptable
<1>3. HostOf[x] \in Hosts
  BY ExchangesAssumption
<1>4. /\ pins' \in [Hosts -> [Ids -> Keys \union {NoKey}]]
      /\ \A h \in Hosts, d \in Ids :
           pins'[h][d] = IF h = HostOf[x] /\ d = m.id THEN m.key ELSE pins[h][d]
  BY <1>1, <1>3 DEF Trust, PinsInv
<1>5. PinsAuthentic'
  <2> SUFFICES ASSUME NEW h \in Hosts, NEW d \in Ids, pins'[h][d] # NoKey
               PROVE  \E f \in Hosts : /\ IdOf[f] = d
                                       /\ PublicOf[f] = pins'[h][d] /\ PrivateOf[f] = pins'[h][d]
    BY DEF PinsAuthentic
  <2>1. CASE h = HostOf[x] /\ d = m.id
    BY <2>1, <1>1, <1>2, <1>4
  <2>2. CASE ~(h = HostOf[x] /\ d = m.id)
    BY <2>2, <1>4 DEF PinsAuthentic, PinsInv
  <2> QED
    BY <2>1, <2>2
<1> QED
  BY <1>2, <1>4, <1>5 DEF PinsInv

----------------------------------------------------------------------------
(* Connections *)

Serving(h) == {r \in Connections : HostOf[r] = h /\ res[r].st \in {"reading", "replying"}}

ServingInv ==
  /\ active \in [Hosts -> 0 .. MaxConnections]
  /\ \A h \in Hosts : active[h] = Cardinality(Serving(h))

LEMMA ServingFinite ==
  ASSUME NEW h
  PROVE  IsFiniteSet(Serving(h)) /\ Cardinality(Serving(h)) \in Nat
<1>1. IsFiniteSet(Connections) /\ Serving(h) \in SUBSET Connections
  BY ExchangesAssumption DEF Serving
<1> QED
  BY <1>1, FS_Subset, FS_CardinalityType

\* A connection that begins to be served is counted.
LEMMA ServingGrows ==
  ASSUME MessagesInv, ServingInv, NEW r \in Connections,
         res[r].st = "new", res' = [res EXCEPT ![r].st = "reading"],
         RoomForConnection(HostOf[r]), active' = [active EXCEPT ![HostOf[r]] = @ + 1]
  PROVE  ServingInv'
<1>1. /\ res'[r].st = "reading" /\ \A q \in Connections : q # r => res'[q] = res[q]
      /\ HostOf[r] \in Hosts
  BY ExchangesAssumption DEF MessagesInv
<1>2. active' \in [Hosts -> 0 .. MaxConnections]
  BY <1>1, MaxConnectionsAssumption DEF ServingInv, RoomForConnection
<1>3. \A h \in Hosts : h # HostOf[r] => Serving(h)' = Serving(h) /\ active'[h] = active[h]
  BY <1>1 DEF Serving, ServingInv
<1>4. Serving(HostOf[r])' = Serving(HostOf[r]) \union {r} /\ r \notin Serving(HostOf[r])
  BY <1>1 DEF Serving
<1>5. Cardinality(Serving(HostOf[r])') = Cardinality(Serving(HostOf[r])) + 1
  BY <1>4, ServingFinite, FS_AddElement
<1>6. active'[HostOf[r]] = active[HostOf[r]] + 1
  BY <1>1 DEF ServingInv
<1> QED
  BY <1>1, <1>2, <1>3, <1>5, <1>6 DEF ServingInv

\* Every way out of the handler gives the place back.
LEMMA ServingShrinks ==
  ASSUME MessagesInv, ServingInv, NEW r \in Connections, NEW out \in {"done", "failed"},
         res[r].st \in {"reading", "replying"}, res' = [res EXCEPT ![r].st = out],
         GiveBackPlace(r)
  PROVE  ServingInv'
<1>1. /\ res'[r].st = out /\ \A q \in Connections : q # r => res'[q] = res[q]
      /\ HostOf[r] \in Hosts
  BY ExchangesAssumption DEF MessagesInv
<1>2. \A h \in Hosts : h # HostOf[r] => Serving(h)' = Serving(h) /\ active'[h] = active[h]
  BY <1>1 DEF Serving, ServingInv, GiveBackPlace
<1>3. Serving(HostOf[r])' = Serving(HostOf[r]) \ {r} /\ r \in Serving(HostOf[r])
  BY <1>1 DEF Serving
<1>4. Cardinality(Serving(HostOf[r])') = Cardinality(Serving(HostOf[r])) - 1
  BY <1>3, ServingFinite, FS_RemoveElement
<1>5. /\ active'[HostOf[r]] = active[HostOf[r]] - 1
      /\ active[HostOf[r]] \in 0 .. MaxConnections
  BY <1>1 DEF ServingInv, GiveBackPlace
<1>6. Cardinality(Serving(HostOf[r])') \in Nat
  <2>1. IsFiniteSet(Serving(HostOf[r])')
    BY <1>3, ServingFinite, FS_RemoveElement
  <2> QED
    BY <2>1, FS_CardinalityType
<1>7. active'[HostOf[r]] = Cardinality(Serving(HostOf[r])')
  BY <1>1, <1>4, <1>5 DEF ServingInv
<1>8. active' \in [Hosts -> 0 .. MaxConnections]
  <2>1. active'[HostOf[r]] \in 0 .. MaxConnections
    BY <1>5, <1>6, <1>7, MaxConnectionsAssumption
  <2> QED
    BY <2>1, <1>1, <1>5 DEF ServingInv, GiveBackPlace
<1> QED
  BY <1>1, <1>2, <1>7, <1>8 DEF ServingInv

\* Every other step leaves the set of served connections as it is.
LEMMA ServingStays ==
  ASSUME ServingInv, UNCHANGED active,
         \A r \in Connections :
           (res'[r].st \in {"reading", "replying"}) <=> (res[r].st \in {"reading", "replying"})
  PROVE  ServingInv'
<1>1. \A h : Serving(h)' = Serving(h)
  BY DEF Serving
<1> QED
  BY <1>1 DEF ServingInv
----------------------------------------------------------------------------
(* Keys *)

KeysOf(role, i, r) == SessionKeys(role, i, r, IdOf[HostOf[i]], IdOf[HostOf[r]])

AllKeys ==
  {KeysOf(role, i, r) : role \in {"initiator", "responder"}, i \in Initiations, r \in Connections}

\* Whatever a session store or a queue holds was derived from one exchange of
\* each kind.  The responder's half of a connection exists once, in the queue
\* or in the store; the initiator's half only in the store of who dialled.
KeysInv ==
  /\ results \in [Hosts -> SUBSET AllKeys] /\ sessions \in [Hosts -> SUBSET AllKeys]
  /\ \A h \in Hosts :
       /\ \A k \in results[h] :
            k.role = "responder" /\ HostOf[k.sid[2]] = h /\ res[k.sid[2]].st = "done"
       /\ \A s \in sessions[h] :
            /\ s.role = "responder" => res[s.sid[2]].st = "done"
            /\ s.role = "initiator" => HostOf[s.sid[1]] = h
       /\ \A k, l \in results[h] : k.sid[2] = l.sid[2] => k = l
       /\ \A k \in results[h], s \in sessions[h] :
            s.role = "responder" => s.sid[2] # k.sid[2]

LEMMA KeysFields ==
  ASSUME NEW role, NEW i \in Initiations, NEW r \in Connections
  PROVE  /\ KeysOf(role, i, r).role = role
         /\ KeysOf(role, i, r).sid = <<i, r>>
         /\ KeysOf(role, i, r).sid[1] = i /\ KeysOf(role, i, r).sid[2] = r
  BY DEF KeysOf, SessionKeys, SessionId

\* derive_session_keys: one session id means one pair of exchanges, and then
\* equal halves or mirrored ones.
LEMMA KeysOfOneSession ==
  ASSUME NEW s \in AllKeys, NEW t \in AllKeys, s # t, s.sid = t.sid
  PROVE  s.role # t.role /\ s.send = t.receive /\ s.receive = t.send
<1>1. PICK role \in {"initiator", "responder"}, i \in Initiations, r \in Connections :
        s = KeysOf(role, i, r)
  BY DEF AllKeys
<1>2. PICK role2 \in {"initiator", "responder"}, i2 \in Initiations, r2 \in Connections :
        t = KeysOf(role2, i2, r2)
  BY DEF AllKeys
<1>3. i = i2 /\ r = r2
  BY <1>1, <1>2, KeysFields
<1>4. role # role2
  BY <1>1, <1>2, <1>3
<1> QED
  BY <1>1, <1>2, <1>3, <1>4 DEF KeysOf, SessionKeys

\* What either end derives from a message it has read.
LEMMA DerivedKeys ==
  /\ \A i \in Initiations, m2 \in ReplyMessages :
       \E r \in Connections : InitiatorKeys(i, m2) = KeysOf("initiator", i, r)
  /\ \A r \in Connections, m1 \in HelloMessages :
       \E i \in Initiations : ResponderKeys(r, m1) = KeysOf("responder", i, r)
<1>1. ASSUME NEW i \in Initiations, NEW m2 \in ReplyMessages
      PROVE  \E r \in Connections : InitiatorKeys(i, m2) = KeysOf("initiator", i, r)
  <2>1. PICK r \in Connections, j \in Initiations : m2 = Reply(r, Hello(j))
    BY DEF ReplyMessages
  <2>2. m2.ex = r /\ m2.id = IdOf[HostOf[r]]
    BY <2>1, ReplyFields
  <2>3. InitiatorKeys(i, m2) = KeysOf("initiator", i, r)
    BY <2>2 DEF InitiatorKeys, KeysOf
  <2> QED
    BY <2>3
<1>2. ASSUME NEW r \in Connections, NEW m1 \in HelloMessages
      PROVE  \E i \in Initiations : ResponderKeys(r, m1) = KeysOf("responder", i, r)
  <2>1. PICK i \in Initiations : m1 = Hello(i)
    BY DEF HelloMessages
  <2> QED
    BY <2>1, HelloFields DEF ResponderKeys, KeysOf
<1> QED
  BY <1>1, <1>2

\* The initiator's half arrives in its store.
LEMMA KeysRecorded ==
  ASSUME KeysInv, NEW i \in Initiations, NEW m2 \in ReplyMessages,
         Put(HostOf[i], InitiatorKeys(i, m2)), UNCHANGED <<res, results>>
  PROVE  KeysInv'
<1>1. PICK r \in Connections : InitiatorKeys(i, m2) = KeysOf("initiator", i, r)
  BY DerivedKeys
<1> DEFINE k == KeysOf("initiator", i, r)
<1>2. /\ k \in AllKeys /\ k.role = "initiator" /\ k.sid[1] = i /\ HostOf[i] \in Hosts
  BY KeysFields, ExchangesAssumption DEF AllKeys
<1> HIDE DEF k
<1>3. /\ sessions' \in [Hosts -> SUBSET AllKeys]
      /\ \A h \in Hosts : sessions'[h] \subseteq sessions[h] \union {k}
      /\ \A h \in Hosts : h # HostOf[i] => sessions'[h] = sessions[h]
  BY <1>1, <1>2 DEF Put, KeysInv, k
<1>4. \A h \in Hosts : \A s \in sessions'[h] : s \in sessions[h] \/ (s = k /\ h = HostOf[i])
  BY <1>3
<1> QED
  BY <1>2, <1>3, <1>4 DEF KeysInv

\* A result is published: its connection was not done before.
LEMMA KeysPublished ==
  ASSUME MessagesInv, KeysInv, NEW r \in Connections, ReplySent(r)
  PROVE  KeysInv'
<1>1. /\ res[r].st = "replying" /\ res[r].m1 \in HelloMessages /\ HostOf[r] \in Hosts
      /\ UNCHANGED sessions
  BY ExchangesAssumption DEF ReplySent, MessagesInv
<1>2. PICK i \in Initiations : ResponderKeys(r, res[r].m1) = KeysOf("responder", i, r)
  BY <1>1, DerivedKeys
<1> DEFINE k == KeysOf("responder", i, r)
<1>3. k \in AllKeys /\ k.role = "responder" /\ k.sid[2] = r
  BY KeysFields DEF AllKeys
<1>4. /\ res'[r].st = "done"
      /\ \A q \in Connections : res[q].st = "done" => res'[q].st = "done"
  BY DEF ReplySent, MessagesInv
<1>5. /\ results' = [results EXCEPT ![HostOf[r]] = @ \union {k}]
  BY <1>2 DEF ReplySent
<1> HIDE DEF k
<1>6. /\ results' \in [Hosts -> SUBSET AllKeys]
      /\ \A h \in Hosts : \A l \in results'[h] : l \in results[h] \/ (l = k /\ h = HostOf[r])
  BY <1>1, <1>3, <1>5 DEF KeysInv
<1>7. \A h \in Hosts : \A l \in results[h] \union sessions[h] :
        l.sid[2] \in Connections /\ (l.role = "responder" => l.sid[2] # r)
  <2>1. \A l \in AllKeys : l.sid[2] \in Connections
    BY KeysFields DEF AllKeys
  <2> QED
    BY <2>1, <1>1 DEF KeysInv
<1>8. \A h \in Hosts : \A l \in results'[h] :
        l.role = "responder" /\ HostOf[l.sid[2]] = h /\ res'[l.sid[2]].st = "done"
  BY <1>3, <1>4, <1>6, <1>7 DEF KeysInv
<1>9. \A h \in Hosts : \A s \in sessions'[h] :
        /\ s.role = "responder" => res'[s.sid[2]].st = "done"
        /\ s.role = "initiator" => HostOf[s.sid[1]] = h
  BY <1>1, <1>4, <1>7 DEF KeysInv
<1>10. \A h \in Hosts : \A l, o \in results'[h] : l.sid[2] = o.sid[2] => l = o
  BY <1>3, <1>6, <1>7 DEF KeysInv
<1>11. \A h \in Hosts : \A l \in results'[h], s \in sessions'[h] :
         s.role = "responder" => s.sid[2] # l.sid[2]
  BY <1>1, <1>3, <1>6, <1>7 DEF KeysInv
<1> QED
  BY <1>1, <1>6, <1>8, <1>9, <1>10, <1>11 DEF KeysInv

\* A result goes from the queue to the store.
LEMMA KeysDrained ==
  ASSUME KeysInv, NEW h \in Hosts, Drain(h)
  PROVE  KeysInv'
<1>1. PICK k \in results[h] :
        results' = [results EXCEPT ![h] = @ \ {k}] /\ Put(h, k) /\ UNCHANGED res
  BY DEF Drain
<1>2. /\ results' \in [Hosts -> SUBSET AllKeys] /\ sessions' \in [Hosts -> SUBSET AllKeys]
      /\ \A g \in Hosts : \A l \in results'[g] : l \in results[g] /\ (g = h => l # k)
      /\ \A g \in Hosts : \A s \in sessions'[g] : s \in sessions[g] \/ (s = k /\ g = h)
  BY <1>1 DEF Put, KeysInv
<1> QED
  BY <1>1, <1>2 DEF KeysInv

\* A step that leaves queues and stores alone, and finishes no connection
\* anew.
LEMMA KeysStay ==
  ASSUME KeysInv, UNCHANGED <<results, sessions>>,
         \A r \in Connections : res[r].st = "done" => res'[r].st = "done"
  PROVE  KeysInv'
<1>1. \A l \in AllKeys : l.sid[2] \in Connections
  BY KeysFields DEF AllKeys
<1> QED
  BY <1>1 DEF KeysInv

----------------------------------------------------------------------------
(* The handshake *)

Inv == LimiterInv /\ MessagesInv /\ PinsInv /\ ServingInv /\ KeysInv

LEMMA InvInitial == Init => Inv
<1> SUFFICES ASSUME Init PROVE Inv
  OBVIOUS
<1>1. LimiterInv
  BY LimiterInitial DEF Init
<1>2. MessagesInv
  BY DEF Init, MessagesInv, IniStates, ResStates
<1>3. PinsInv
  BY DEF Init, PinsInv, PinsAuthentic
<1>4. ServingInv
  <2>1. \A h \in Hosts : Serving(h) = {}
    BY DEF Init, Serving
  <2>2. \A h \in Hosts : Cardinality(Serving(h)) = 0 /\ active[h] = 0
    BY <2>1, FS_EmptySet DEF Init
  <2>3. active \in [Hosts -> 0 .. MaxConnections]
    BY MaxConnectionsAssumption DEF Init
  <2> QED
    BY <2>1, <2>2, <2>3 DEF ServingInv
<1>5. KeysInv
  BY DEF Init, KeysInv
<1> QED
  BY <1>1, <1>2, <1>3, <1>4, <1>5 DEF Inv

\* Every step keeps the invariant and every pin.
LEMMA InvSteps ==
  ASSUME Inv, Next
  PROVE  Inv' /\ \A h \in Hosts, d \in Ids : pins[h][d] # NoKey => pins'[h][d] = pins[h][d]
<1> DEFINE PinsKept == \A h \in Hosts, d \in Ids : pins[h][d] # NoKey => pins'[h][d] = pins[h][d]
<1>0. MessagesInv
  BY DEF Inv
<1>1. ASSUME NEW i \in Initiations, Initiate(i) \/ InitiationFails(i)
      PROVE  Inv' /\ PinsKept
  <2>1. UNCHANGED <<res, pins, active, results, sessions, limiterVars>>
    BY <1>1 DEF Initiate, InitiationFails
  <2>2. MessagesInv'
    BY <1>1 DEF Inv, MessagesInv, Initiate, InitiationFails, IniStates
  <2>3. LimiterInv' /\ ServingInv' /\ KeysInv'
    BY <2>1, LimiterSteps, ServingStays, KeysStay DEF Inv
  <2> QED
    BY <2>1, <2>2, <2>3 DEF Inv, PinsInv, PinsAuthentic
<1>2. ASSUME NEW i \in Initiations, NEW m2 \in Replies, ReplyArrives(i, m2)
      PROVE  Inv' /\ PinsKept
  <2>1. /\ UNCHANGED <<res, active, results, limiterVars>> /\ m2 \in ReplyMessages
        /\ Acceptable(i, m2, i) /\ Trust(i, m2) /\ Put(HostOf[i], InitiatorKeys(i, m2))
    BY <1>0, <1>2, RepliesAnswerHellos DEF ReplyArrives
  <2>2. MessagesInv'
    BY <1>2, <2>1 DEF Inv, MessagesInv, ReplyArrives, IniStates
  <2>3. LimiterInv' /\ ServingInv'
    BY <2>1, LimiterSteps, ServingStays DEF Inv
  <2>4. KeysInv'
    BY <2>1, KeysRecorded DEF Inv
  <2>5. PinsInv' /\ PinsKept
    BY <2>1, TrustStep DEF Inv
  <2> QED
    BY <2>2, <2>3, <2>4, <2>5 DEF Inv
<1>3. ASSUME NEW r \in Connections, Serve(r)
      PROVE  Inv' /\ PinsKept
  <2>1. /\ UNCHANGED <<ini, pins, results, sessions>> /\ res[r].st = "new"
        /\ res' = [res EXCEPT ![r].st = "reading"] /\ AllowFrom(SourceOf[r], r)
        /\ RoomForConnection(HostOf[r]) /\ active' = [active EXCEPT ![HostOf[r]] = @ + 1]
        /\ SourceOf[r] \in Sources
    BY <1>3, ExchangesAssumption DEF Serve
  <2>2. MessagesInv'
    BY <2>1 DEF Inv, MessagesInv, ResStates
  <2>3. LimiterInv' /\ ServingInv'
    BY <2>1, LimiterSteps, ServingGrows DEF Inv
  <2>4. \A q \in Connections : res[q].st = "done" => res'[q].st = "done"
    BY <1>0, <2>1 DEF MessagesInv
  <2>5. KeysInv'
    BY <2>1, <2>4, KeysStay DEF Inv
  <2> QED
    BY <2>1, <2>2, <2>3, <2>5 DEF Inv, PinsInv, PinsAuthentic
<1>4. ASSUME NEW r \in Connections, TurnAway(r) \/ TooMany(r)
      PROVE  Inv' /\ PinsKept
  <2>1. /\ UNCHANGED <<ini, pins, active, results, sessions>> /\ res[r].st = "new"
        /\ res' = [res EXCEPT ![r].st = "failed"]
        /\ AllowFrom(SourceOf[r], r) \/ DenyFrom(SourceOf[r])
        /\ SourceOf[r] \in Sources
    BY <1>4, ExchangesAssumption DEF TurnAway, TooMany
  <2>2. MessagesInv'
    BY <2>1 DEF Inv, MessagesInv, ResStates
  <2>3. LimiterInv'
    BY <2>1, LimiterSteps DEF Inv
  <2>4. \A q \in Connections :
          /\ res[q].st = "done" => res'[q].st = "done"
          /\ (res'[q].st \in {"reading", "replying"}) <=> (res[q].st \in {"reading", "replying"})
    BY <1>0, <2>1 DEF MessagesInv
  <2>5. KeysInv' /\ ServingInv'
    BY <2>1, <2>4, KeysStay, ServingStays DEF Inv
  <2> QED
    BY <2>1, <2>2, <2>3, <2>5 DEF Inv, PinsInv, PinsAuthentic
<1>5. ASSUME NEW r \in Connections, NEW m1 \in Hellos, HelloArrives(r, m1)
      PROVE  Inv' /\ PinsKept
  <2>1. /\ UNCHANGED <<ini, active, results, sessions, limiterVars>> /\ m1 \in HelloMessages
        /\ Acceptable(r, m1, m1.ex) /\ Trust(r, m1) /\ res[r].st = "reading"
        /\ res' = [res EXCEPT ![r] = [st |-> "replying", m1 |-> m1]]
    BY <1>0, <1>5, RepliesAnswerHellos DEF HelloArrives
  <2>2. MessagesInv'
    BY <2>1 DEF Inv, MessagesInv, ResStates
  <2>3. \A q \in Connections :
          /\ res[q].st = "done" => res'[q].st = "done"
          /\ (res'[q].st \in {"reading", "replying"}) <=> (res[q].st \in {"reading", "replying"})
    BY <1>0, <2>1 DEF MessagesInv
  <2>4. LimiterInv' /\ KeysInv' /\ ServingInv'
    BY <2>1, <2>3, LimiterSteps, KeysStay, ServingStays DEF Inv
  <2>5. PinsInv' /\ PinsKept
    BY <2>1, TrustStep DEF Inv
  <2> QED
    BY <2>2, <2>4, <2>5 DEF Inv
<1>6. ASSUME NEW r \in Connections, ReplySent(r)
      PROVE  Inv' /\ PinsKept
  <2>1. /\ UNCHANGED <<ini, pins, sessions, limiterVars>> /\ res[r].st = "replying"
        /\ res' = [res EXCEPT ![r].st = "done"] /\ GiveBackPlace(r)
    BY <1>6 DEF ReplySent
  <2>2. MessagesInv'
    BY <2>1 DEF Inv, MessagesInv, ResStates
  <2>3. LimiterInv' /\ ServingInv' /\ KeysInv'
    BY <1>6, <2>1, LimiterSteps, ServingShrinks, KeysPublished DEF Inv
  <2> QED
    BY <2>1, <2>2, <2>3 DEF Inv, PinsInv, PinsAuthentic
<1>7. ASSUME NEW r \in Connections, ServingFails(r)
      PROVE  Inv' /\ PinsKept
  <2>1. /\ UNCHANGED <<ini, pins, results, sessions, limiterVars>>
        /\ res[r].st \in {"reading", "replying"}
        /\ res' = [res EXCEPT ![r].st = "failed"] /\ GiveBackPlace(r)
    BY <1>7 DEF ServingFails
  <2>2. MessagesInv'
    BY <2>1 DEF Inv, MessagesInv, ResStates
  <2>3. \A q \in Connections : res[q].st = "done" => res'[q].st = "done"
    BY <1>0, <2>1 DEF MessagesInv
  <2>4. LimiterInv' /\ ServingInv' /\ KeysInv'
    BY <2>1, <2>3, LimiterSteps, ServingShrinks, KeysStay DEF Inv
  <2> QED
    BY <2>1, <2>2, <2>4 DEF Inv, PinsInv, PinsAuthentic
<1>8. ASSUME NEW h \in Hosts, Drain(h)
      PROVE  Inv' /\ PinsKept
  <2>1. UNCHANGED <<ini, res, pins, active, limiterVars>>
    BY <1>8 DEF Drain
  <2>2. LimiterInv' /\ ServingInv' /\ KeysInv'
    BY <1>8, <2>1, LimiterSteps, ServingStays, KeysDrained DEF Inv
  <2> QED
    BY <2>1, <2>2 DEF Inv, MessagesInv, PinsInv, PinsAuthentic
<1>9. CASE (Prune \/ Tick) /\ UNCHANGED <<ini, res, pins, active, results, sessions>>
  <2>1. LimiterInv' /\ ServingInv' /\ KeysInv'
    BY <1>9, LimiterSteps, ServingStays, KeysStay DEF Inv
  <2> QED
    BY <1>9, <2>1 DEF Inv, MessagesInv, PinsInv, PinsAuthentic
<1> QED
  BY <1>1, <1>2, <1>3, <1>4, <1>5, <1>6, <1>7, <1>8, <1>9 DEF Next

\* The invariant holds in every state.
THEOREM HandshakeInvariant == Spec => []Inv
<1>1. Inv /\ UNCHANGED vars => Inv'
  <2> SUFFICES ASSUME Inv, UNCHANGED vars PROVE Inv'
    OBVIOUS
  <2>1. UNCHANGED <<ini, res, pins, active, results, sessions, limiterVars>>
    BY DEF vars
  <2>2. LimiterInv' /\ ServingInv' /\ KeysInv'
    BY <2>1, LimiterSteps, ServingStays, KeysStay DEF Inv
  <2> QED
    BY <2>1, <2>2 DEF Inv, MessagesInv, PinsInv, PinsAuthentic
<1>2. Inv /\ [Next]_vars => Inv'
  BY <1>1, InvSteps
<1> QED
  BY <1>2, InvInitial, PTL DEF Spec

\* HandshakeServer: the fields keep their types, the cap on concurrent
\* connections holds, and the counter is exact on every path out of the
\* handler, for any number of connections.
THEOREM HandshakeServerInv == Spec => []ServerInv
<1>1. Inv => ServerInv
  <2> SUFFICES ASSUME Inv PROVE ServerInv
    OBVIOUS
  <2>1. TypeOK
    BY DEF Inv, LimiterInv, MessagesInv, PinsInv, ServingInv, TypeOK, IniStates, ResStates
  <2>2. ActiveExact
    BY DEF Inv, ServingInv, ActiveExact, Serving
  <2> QED
    BY <2>1, <2>2 DEF ServerInv
<1> QED
  BY <1>1, HandshakeInvariant, PTL

\* initiate, accept and derive_session_keys: pins are authentic, the two ends
\* of a session hold mirrored keys, and session ids do not repeat, for any
\* number of handshakes whose messages are lost, repeated or crossed.
THEOREM HandshakeKeysAndPins == Spec => []HandshakeInv
<1>1. Inv => HandshakeInv
  <2> SUFFICES ASSUME Inv PROVE HandshakeInv
    OBVIOUS
  <2>1. PinsAuthentic
    BY DEF Inv, PinsInv
  <2>2. KeysMirror
    <3>1. \A h \in Hosts : sessions[h] \subseteq AllKeys
      BY DEF Inv, KeysInv
    <3> QED
      BY <3>1, KeysOfOneSession DEF KeysMirror
  <2>3. SessionIdsFresh
    <3>1. ASSUME NEW l \in AllKeys
          PROVE  l.role \in {"initiator", "responder"}
      <4>1. PICK role \in {"initiator", "responder"}, i \in Initiations, r \in Connections :
              l = KeysOf(role, i, r)
        BY DEF AllKeys
      <4> QED
        BY <4>1, KeysFields
    <3> QED
      BY <3>1 DEF Inv, KeysInv, SessionIdsFresh
  <2> QED
    BY <2>1, <2>2, <2>3 DEF HandshakeInv
<1> QED
  BY <1>1, HandshakeInvariant, PTL

\* SourceIpRateLimiter: no source is let through more often than its limit in
\* any window, and none is denied below it, for every limit and window.
THEOREM HandshakeRateLimit == Spec => []AdmitsExactly
<1>1. Inv => AdmitsExactly
  BY InvImpliesAdmitsExactly DEF Inv
<1> QED
  BY <1>1, HandshakeInvariant, PTL

\* _verify_and_trust: no handshake, dialled or served, replaces a pinned key.
THEOREM HandshakePinsKept == Spec => PinNeverReplaced
<1>1. Inv /\ [Next]_vars =>
        [\A h \in Hosts, d \in Ids : pins[h][d] # NoKey => pins'[h][d] = pins[h][d]]_vars
  BY InvSteps
<1> QED
  BY <1>1, HandshakeInvariant, PTL DEF Spec, PinNeverReplaced
=============================================================================
