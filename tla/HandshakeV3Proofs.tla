------------------------- MODULE HandshakeV3Proofs -------------------------
(***************************************************************************)
(* Proofs about HandshakeV3, for any number of hosts and exchanges, any    *)
(* assignment of ids, keys and ports to hosts, and any rate and burst.     *)
(*                                                                         *)
(* The argument is about terms: a signature or MAC that verifies was made  *)
(* by an exchange over the same transcript, and a transcript names both    *)
(* exchanges, so it was made by the other end of this very handshake.  The *)
(* inductive invariant says so at each of the points where an end has just *)
(* verified something: message 2, message 3, and either form of message 4. *)
(***************************************************************************)
EXTENDS HandshakeV3, FiniteSetTheorems, TLAPS

\* Messages as far as they can come about.
Introductions == [ex : Exchanges, id : Ids, key : Keys, port : Ports]
Replies == {Reply(r, Hello(i)) : r \in Acceptances, i \in Initiations}
Confirms == {Confirm(i, m2) : i \in Initiations, m2 \in Replies}

AcceptOf(r, m1, m3) ==
  [status |-> "accept", mac |-> AcceptMac(ResponderSecrets(r, m1), m1, Reply(r, m1), m3)]
RejectOf(r, m1, m3) ==
  [status |-> "reject", mac |-> RejectMac(ResponderSecrets(r, m1), m1, Reply(r, m1), m3)]

Finals ==
  {AcceptOf(r, m1, m3) : r \in Acceptances, m1 \in Introductions, m3 \in Confirms}
    \union {RejectOf(r, m1, m3) : r \in Acceptances, m1 \in Introductions,
                                  m3 \in Confirms \union {Malformed}}

InitiatorRecords ==
  [st : InitiatorStates, m2 : Replies \union {NoMessage}, outcome : Outcomes]

ResponderRecords ==
  [st : ResponderStates, m1 : Introductions \union {NoMessage},
   m3 : Confirms \union {Malformed, NoMessage}, m4 : Finals \union {NoMessage},
   trust : {"untouched", "pinned"}]

Types ==
  /\ ini \in [Initiations -> InitiatorRecords]
  /\ res \in [Acceptances -> ResponderRecords]
  /\ pins \in [Hosts -> [Ids -> Keys \union {NoKey}]]
  /\ halfOpen \in [Hosts -> Nat]
  /\ DOMAIN sessions = Hosts

\* Before message 2 has been read, or message 1, or message 3.
Awaiting2 == {"IDLE", "SENT_HELLO"}
Awaiting1 == {"NEW", "WAIT_HELLO"}
Awaiting3 == {"NEW", "WAIT_HELLO", "SENT_REPLY"}

\* A message is recorded when it has been read, and not before.
Stages ==
  /\ \A i \in Initiations :
       /\ ini[i].st \in Awaiting2 => ini[i].m2 = NoMessage
       /\ ini[i].outcome = "rejected" => ini[i].st = "FAILED"
  /\ \A r \in Acceptances :
       /\ res[r].st \in Awaiting1 => res[r].m1 = NoMessage
       /\ res[r].st \in Awaiting3 => res[r].m4 = NoMessage
       /\ res[r].st = "SENT_REPLY" => res[r].m1 \in Introductions

\* The host has the private key of the public key that it shows.
Holds(h) == PublicOf[h] = PrivateOf[h]

\* Exchange i has read the reply of r to the very message 1 that i sent.
Answered(i, r) ==
  /\ res[r].st \notin Awaiting1 /\ res[r].m1 = Hello(i)
  /\ ini[i].m2 = Reply(r, Hello(i))
  /\ Holds(HostOf[r])

\* Message 4 of r rejects message 3 of i.
Rejected(i, r) ==
  /\ res[r].st \notin Awaiting1 /\ res[r].m1 = Hello(i)
  /\ res[r].m3 = Confirm(i, ini[i].m2)
  /\ res[r].m4 # NoMessage /\ res[r].m4.status = "reject"

\* What an initiator has verified so far is true of some responder.
InitiatorKnows(i) ==
  /\ ini[i].st \in {"SENT_CONFIRM", "CONFIRMED"} \/ ini[i].m2 # NoMessage =>
       \E r \in Acceptances : Answered(i, r)
  /\ ini[i].st = "CONFIRMED" =>
       \E r \in Acceptances :
         /\ Answered(i, r)
         /\ Result("responder", Hello(i), InitiatorSecrets(i, ini[i].m2)) \in sessions[HostOf[r]]
  /\ ini[i].outcome = "rejected" => \E r \in Acceptances : Rejected(i, r)

\* A session record of r, from what r has read.
RecordOf(r) == Result("responder", res[r].m1, ResponderSecrets(r, res[r].m1))

\* Message 4 is a reject, or an accept of a recorded session.
ResponderWrote(r) ==
  res[r].m4 # NoMessage =>
    \/ res[r].m4 = RejectOf(r, res[r].m1, res[r].m3)
    \/ res[r].m4 = AcceptOf(r, res[r].m1, res[r].m3) /\ RecordOf(r) \in sessions[HostOf[r]]

\* Exchange r has read message 3 of i, which had read the reply of r.
Confirmed(r, i) ==
  /\ res[r].st \notin Awaiting1 /\ res[r].m1 = Hello(i)
  /\ ini[i].st \notin Awaiting2 /\ ini[i].m2 = Reply(r, Hello(i))
  /\ Holds(HostOf[i])

\* A responder's session record is that of an exchange that read message 3.
Recorded(x) ==
  x.role = "responder" =>
    \E r \in Acceptances, i \in Initiations : Confirmed(r, i) /\ x = RecordOf(r)

Knowledge ==
  /\ \A i \in Initiations : InitiatorKnows(i)
  /\ \A r \in Acceptances : ResponderWrote(r)
  /\ \A h \in Hosts : \A x \in sessions[h] : Recorded(x)

\* The tokens and what has been admitted since s come from the burst and the
\* refill since s; after the last refill nothing was admitted.
BucketInv ==
  /\ LimiterTypeOK
  /\ \A h \in Hosts : \A s \in Times :
       /\ s <= last[h] => Unit * since[h][s] + tokens[h] <= Burst + Rate * (last[h] - s)
       /\ s > last[h] => since[h][s] = 0

Inv == Types /\ Stages /\ Knowledge /\ PinsAuthentic /\ HalfOpenExact /\ BucketInv

----------------------------------------------------------------------------
(* The token bucket *)

LEMMA Arithmetic ==
  ASSUME NEW R \in Nat, NEW x \in Int, NEW y \in Int
  PROVE  R * x \in Int /\ R * (x + y) = R * x + R * y /\ R * (x + 1) = R * x + R
         /\ (x <= y => R * x <= R * y) /\ R * 0 = 0
OBVIOUS

LEMMA BucketInitial == LimiterInit => BucketInv
<1> SUFFICES ASSUME LimiterInit
             PROVE  BucketInv
  OBVIOUS
<1> USE BucketAssumption
<1>1. LimiterTypeOK
  BY DEF LimiterInit, LimiterTypeOK, Times
<1>2. ASSUME NEW h \in Hosts, NEW s \in Times
      PROVE  /\ s <= last[h] => Unit * since[h][s] + tokens[h] <= Burst + Rate * (last[h] - s)
             /\ s > last[h] => since[h][s] = 0
  <2>1. last[h] = 0 /\ since[h][s] = 0 /\ tokens[h] = Burst /\ s \in Nat
    BY DEF LimiterInit, Times
  <2>2. Unit * 0 = 0 /\ Rate * 0 = 0
    BY Arithmetic
  <2>3. s <= last[h] => last[h] - s = 0
    BY <2>1
  <2> QED
    BY <2>1, <2>2, <2>3
<1> QED
  BY <1>1, <1>2 DEF BucketInv

\* What one refill does to the bucket of a host.
LEMMA RefilledBounds ==
  ASSUME BucketInv, NEW h \in Hosts
  PROVE  /\ Refilled(h) \in 0 .. Burst
         /\ \A s \in Times : s <= clock =>
              Unit * since[h][s] + Refilled(h) <= Burst + Rate * (clock - s)
<1> USE BucketAssumption
<1>1. /\ tokens[h] \in 0 .. Burst /\ last[h] \in 0 .. clock /\ clock \in Nat
      /\ \A s \in Times : since[h][s] \in Nat /\ s \in Nat
  BY DEF BucketInv, LimiterTypeOK, Times
<1>2. PICK gain : gain = Rate * (clock - last[h])
  OBVIOUS
<1>3. (clock - last[h]) * Rate = gain /\ gain \in Int /\ gain >= 0
  <2>1. clock - last[h] \in Int /\ 0 <= clock - last[h]
    BY <1>1
  <2>2. Rate * 0 <= Rate * (clock - last[h]) /\ Rate * 0 = 0 /\ Rate * (clock - last[h]) \in Int
    BY <2>1, Arithmetic
  <2> QED
    BY <1>2, <2>1, <2>2
<1>4. Refilled(h) = IF Burst <= tokens[h] + gain THEN Burst ELSE tokens[h] + gain
  BY <1>3 DEF Refilled, Lower
<1>5. Refilled(h) \in 0 .. Burst /\ Refilled(h) <= tokens[h] + gain
  BY <1>1, <1>3, <1>4
<1>6. ASSUME NEW s \in Times, s <= clock
      PROVE  Unit * since[h][s] + Refilled(h) <= Burst + Rate * (clock - s)
  <2>1. PICK used, due, n : used = Unit * since[h][s] /\ due = Rate * (clock - s) /\ n = since[h][s]
    OBVIOUS
  <2>2. used \in Int /\ due \in Int /\ due >= 0
    <3>1. clock - s \in Int /\ 0 <= clock - s
      BY <1>1, <1>6
    <3> QED
      BY <1>1, <2>1, <3>1, Arithmetic
  <2>3. CASE s <= last[h]
    <3>1. PICK old : old = Rate * (last[h] - s)
      OBVIOUS
    <3>2. used + tokens[h] <= Burst + old
      BY <2>1, <2>3, <3>1 DEF BucketInv
    <3>3. last[h] - s \in Int /\ clock - last[h] \in Int
          /\ clock - s = (last[h] - s) + (clock - last[h])
      BY <1>1
    <3>4. due = old + gain /\ old \in Int
      BY <1>2, <2>1, <3>1, <3>3, Arithmetic
    <3> QED
      BY <1>1, <1>3, <1>5, <2>1, <2>2, <3>2, <3>4
  <2>4. CASE s > last[h]
    <3>1. used = 0
      BY <2>1, <2>4, Arithmetic DEF BucketInv
    <3> QED
      BY <1>5, <2>1, <2>2, <3>1
  <2> QED
    BY <1>1, <2>3, <2>4
<1> QED
  BY <1>5, <1>6

LEMMA BucketSteps ==
  ASSUME BucketInv,
         \/ \E h \in Hosts : TakeToken(h) \/ Refuse(h)
         \/ Tick \/ UNCHANGED limiterVars
  PROVE  BucketInv'
<1> USE BucketAssumption
<1>1. /\ tokens \in [Hosts -> 0 .. Burst] /\ last \in [Hosts -> 0 .. clock]
      /\ since \in [Hosts -> [Times -> Nat]] /\ clock \in Times /\ clock \in Nat
      /\ \A s \in Times : s \in Nat
  <2>1. LimiterTypeOK
    BY DEF BucketInv
  <2>2. \A s \in Times : s \in Nat
    BY DEF Times
  <2> QED
    BY <2>1, <2>2 DEF LimiterTypeOK
<1>2. ASSUME NEW h \in Hosts, TakeToken(h)
      PROVE  BucketInv'
  <2>1. PICK n : n = Refilled(h)
    OBVIOUS
  <2>2. /\ n \in 0 .. Burst /\ n >= Unit
        /\ \A s \in Times : s <= clock => Unit * since[h][s] + n <= Burst + Rate * (clock - s)
    BY <1>2, <2>1, RefilledBounds DEF TakeToken
  <2>3. /\ tokens' = [tokens EXCEPT ![h] = n - Unit] /\ last' = [last EXCEPT ![h] = clock]
        /\ clock' = clock
        /\ since' = [since EXCEPT ![h] =
                       [s \in Times |-> IF s <= clock THEN @[s] + 1 ELSE @[s]]]
    BY <1>2, <2>1 DEF TakeToken
  <2>4. n - Unit \in 0 .. Burst
    BY <2>2
  <2>5. /\ since' \in [Hosts -> [Times -> Nat]]
        /\ \A s \in Times : since'[h][s] = IF s <= clock THEN since[h][s] + 1 ELSE since[h][s]
        /\ \A g \in Hosts \ {h} : since'[g] = since[g]
    <3>1. [s \in Times |-> IF s <= clock THEN since[h][s] + 1 ELSE since[h][s]] \in [Times -> Nat]
      BY <1>1
    <3> QED
      BY <1>1, <2>3, <3>1
  <2>6. LimiterTypeOK'
    <3>1. tokens' \in [Hosts -> 0 .. Burst]
      BY <1>1, <2>3, <2>4
    <3>2. last' \in [Hosts -> 0 .. clock']
      BY <1>1, <2>3
    <3>3. clock' \in Times'
      BY <1>1, <2>3 DEF Times
    <3>4. since' \in [Hosts -> [Times' -> Nat]]
      BY <2>5 DEF Times
    <3> QED
      BY <3>1, <3>2, <3>3, <3>4 DEF LimiterTypeOK
  <2>7. ASSUME NEW g \in Hosts, NEW s \in Times
        PROVE  /\ s <= last'[g] =>
                    Unit * since'[g][s] + tokens'[g] <= Burst + Rate * (last'[g] - s)
               /\ s > last'[g] => since'[g][s] = 0
    <3>1. CASE g # h
      BY <1>1, <2>3, <2>5, <3>1 DEF BucketInv
    <3>2. CASE g = h
      <4>1. last'[g] = clock /\ tokens'[g] = n - Unit
        BY <1>1, <2>3, <3>2
      <4>2. ASSUME s <= clock
            PROVE  Unit * since'[g][s] + tokens'[g] <= Burst + Rate * (last'[g] - s)
        <5>1. PICK used, due : used = Unit * since[h][s] /\ due = Rate * (clock - s)
          OBVIOUS
        <5>2. since[h][s] \in Int /\ clock - s \in Int
          BY <1>1
        <5>3. Unit * (since[h][s] + 1) = used + Unit /\ used \in Int /\ due \in Int
          BY <5>1, <5>2, Arithmetic
        <5>4. Unit * since'[g][s] = used + Unit
          BY <2>5, <3>2, <4>2, <5>3
        <5>5. used + n <= Burst + due
          BY <2>2, <4>2, <5>1
        <5> QED
          BY <2>2, <4>1, <5>1, <5>3, <5>4, <5>5
      <4>3. ASSUME s > clock
            PROVE  since'[g][s] = 0
        <5>1. s > last[h] /\ ~ (s <= clock)
          BY <1>1, <4>3
        <5> QED
          BY <2>5, <3>2, <5>1 DEF BucketInv
      <4> QED
        BY <4>1, <4>2, <4>3
    <3> QED
      BY <3>1, <3>2
  <2> QED
    BY <2>6, <2>7 DEF BucketInv
<1>3. ASSUME NEW h \in Hosts, Refuse(h)
      PROVE  BucketInv'
  <2>1. PICK n : n = Refilled(h)
    OBVIOUS
  <2>2. /\ n \in 0 .. Burst
        /\ \A s \in Times : s <= clock => Unit * since[h][s] + n <= Burst + Rate * (clock - s)
    BY <2>1, RefilledBounds
  <2>3. /\ tokens' = [tokens EXCEPT ![h] = n] /\ last' = [last EXCEPT ![h] = clock]
        /\ clock' = clock /\ since' = since
    BY <1>3, <2>1 DEF Refuse
  <2>4. LimiterTypeOK'
    <3>1. tokens' \in [Hosts -> 0 .. Burst]
      BY <1>1, <2>2, <2>3
    <3>2. last' \in [Hosts -> 0 .. clock']
      BY <1>1, <2>3
    <3>3. clock' \in Times' /\ since' \in [Hosts -> [Times' -> Nat]]
      BY <1>1, <2>3 DEF Times
    <3> QED
      BY <3>1, <3>2, <3>3 DEF LimiterTypeOK
  <2>5. ASSUME NEW g \in Hosts, NEW s \in Times
        PROVE  /\ s <= last'[g] =>
                    Unit * since'[g][s] + tokens'[g] <= Burst + Rate * (last'[g] - s)
               /\ s > last'[g] => since'[g][s] = 0
    <3>1. CASE g # h
      BY <1>1, <2>3, <3>1 DEF BucketInv
    <3>2. CASE g = h
      <4>1. last'[g] = clock /\ tokens'[g] = n /\ since'[g] = since[h]
        BY <1>1, <2>3, <3>2
      <4>2. s > clock => s > last[h]
        BY <1>1
      <4> QED
        BY <2>2, <4>1, <4>2 DEF BucketInv
    <3> QED
      BY <3>1, <3>2
  <2> QED
    BY <2>4, <2>5 DEF BucketInv
<1>4. CASE Tick
  <2>1. LimiterTypeOK'
    BY <1>1, <1>4 DEF Tick, LimiterTypeOK, Times
  <2> QED
    BY <1>4, <2>1 DEF Tick, BucketInv
<1>5. CASE UNCHANGED limiterVars
  BY <1>5 DEF limiterVars, BucketInv, LimiterTypeOK
<1> QED
  BY <1>2, <1>3, <1>4, <1>5

LEMMA BucketRate == BucketInv => BurstAndRate
<1> SUFFICES ASSUME BucketInv, NEW h \in Hosts, NEW s \in 0 .. clock
             PROVE  Unit * since[h][s] <= Burst + Rate * (clock - s)
  BY DEF BurstAndRate
<1>1. /\ s \in Times /\ s <= clock /\ clock \in Nat /\ s \in Nat /\ since[h][s] \in Nat
  BY BucketAssumption DEF BucketInv, LimiterTypeOK, Times
<1>2. PICK n, used, due : n = Refilled(h) /\ used = Unit * since[h][s] /\ due = Rate * (clock - s)
  OBVIOUS
<1>3. n \in Nat /\ used + n <= Burst + due
  BY <1>1, <1>2, RefilledBounds
<1>4. used \in Int /\ due \in Int
  BY <1>1, <1>2, Arithmetic, BucketAssumption
<1> QED
  BY <1>2, <1>3, <1>4, BucketAssumption

----------------------------------------------------------------------------
(* What verifies was made by the other end *)

\* An introduction names its exchange.
LEMMA IntroductionNames ==
  ASSUME NEW x \in Exchanges, NEW y
  PROVE  /\ Introduction(x) \in Introductions
         /\ Introduction(x) = Introduction(y) => x = y
<1>1. HostOf[x] \in Hosts
  BY ExchangesAssumption
<1>2. IdOf[HostOf[x]] \in Ids /\ PublicOf[HostOf[x]] \in Keys /\ PortOf[HostOf[x]] \in Ports
  BY <1>1, HostsAssumption
<1>3. Introduction(x) \in Introductions
  BY <1>2 DEF Introduction, Introductions
<1>4. Introduction(x).ex = x /\ Introduction(y).ex = y
  BY DEF Introduction
<1> QED
  BY <1>3, <1>4

\* Message 2 as it arrives: a reply, its body perhaps changed.
Delivered(r, m1, b) == [Reply(r, m1) EXCEPT !.body = b]

LEMMA ReplyFields ==
  ASSUME NEW r, NEW m1, NEW b, NEW m2, m2 = Delivered(r, m1, b)
  PROVE  /\ m2.body = b
         /\ m2.sig = Signature(r, "responder", TranscriptT2(m1, Introduction(r)))
         /\ b = Introduction(r) => m2 = Reply(r, m1)
<1> DEFINE t2 == TranscriptT2(m1, Introduction(r))
           sig == Signature(r, "responder", t2)
           mac == Mac("k_r", Secrets(r, m1.ex, t2), <<t2, sig>>)
<1>1. Reply(r, m1) = [body |-> Introduction(r), sig |-> sig, mac |-> mac]
  BY DEF Reply
<1> HIDE DEF t2, sig, mac
<1>2. m2 = [body |-> b, sig |-> sig, mac |-> mac]
  BY <1>1 DEF Delivered
<1> QED
  BY <1>1, <1>2 DEF t2, sig, mac

\* The reply itself.
LEMMA ReplyParts ==
  ASSUME NEW r, NEW m1
  PROVE  Reply(r, m1).body = Introduction(r)
BY DEF Reply

\* A message 2 that passes the checks of i is the reply of an exchange that
\* read the message 1 of i, and that holds the key it shows.
LEMMA ReplyGenuine ==
  ASSUME NEW i \in Initiations, NEW r \in Acceptances, NEW m1, NEW b, NEW m2,
         m2 = Delivered(r, m1, b), ReplyAcceptable(i, m2)
  PROVE  m1 = Hello(i) /\ m2 = Reply(r, Hello(i)) /\ Holds(HostOf[r])
<1> DEFINE u2 == TranscriptT2(Hello(i), b)
           t2 == TranscriptT2(m1, Introduction(r))
<1>1. /\ m2.body = b /\ m2.sig = Signature(r, "responder", t2)
      /\ b = Introduction(r) => m2 = Reply(r, m1)
  BY ReplyFields
<1>2. m2.sig = [by |-> b.key, over |-> <<"responder", u2>>]
  BY <1>1 DEF ReplyAcceptable, Verifies
<1>3. m2.sig = [by |-> PrivateOf[HostOf[r]], over |-> <<"responder", t2>>]
  BY <1>1 DEF Signature
<1> HIDE DEF u2, t2
<1>4. u2 = t2 /\ b.key = PrivateOf[HostOf[r]]
  BY <1>2, <1>3
<1>5. Hello(i) = m1 /\ b = Introduction(r)
  BY <1>4 DEF u2, t2, TranscriptT2
<1>6. b.key = PublicOf[HostOf[r]]
  BY <1>5 DEF Introduction
<1> QED
  BY <1>1, <1>4, <1>5, <1>6 DEF Holds

\* Two ends with the same secrets are the two ends of one handshake.
LEMMA SecretsAgree ==
  ASSUME NEW i \in Initiations, NEW r \in Acceptances, NEW q \in Acceptances, NEW m1, NEW m2,
         m2 = Reply(q, Hello(i)), InitiatorSecrets(i, m2) = ResponderSecrets(r, m1)
  PROVE  m1 = Hello(i) /\ r = q
<1>1. m2.body = Introduction(q)
  BY ReplyParts
<1>2. TranscriptT2(Hello(i), Introduction(q)) = TranscriptT2(m1, Introduction(r))
  BY <1>1 DEF InitiatorSecrets, ResponderSecrets, Secrets
<1>3. Hello(i) = m1 /\ Introduction(q) = Introduction(r)
  BY <1>2 DEF TranscriptT2
<1>4. q \in Exchanges
  BY DEF Exchanges
<1> QED
  BY <1>3, <1>4, IntroductionNames

\* A message 3 that passes the checks of r was written by an exchange that
\* sent message 1 as r read it, read the reply of r, and holds the key it shows.
LEMMA ConfirmGenuine ==
  ASSUME NEW i \in Initiations, NEW r \in Acceptances, NEW q \in Acceptances, NEW m2, NEW m3,
         m2 = Reply(q, Hello(i)), m3 = Confirm(i, m2), ConfirmAcceptable(r, m3)
  PROVE  res[r].m1 = Hello(i) /\ q = r /\ Holds(HostOf[i])
<1>1. PICK m1 : m1 = res[r].m1
  OBVIOUS
<1> DEFINE t == TranscriptT2s(m1, Reply(r, m1))
           u == TranscriptT2s(Hello(i), m2)
<1>2. m3.sig = [by |-> m1.key, over |-> <<"initiator", t>>]
  BY <1>1 DEF ConfirmAcceptable, Verifies
<1>3. m3.sig = [by |-> PrivateOf[HostOf[i]], over |-> <<"initiator", u>>]
  BY DEF Confirm, Signature
<1> HIDE DEF t, u
<1>4. t = u /\ m1.key = PrivateOf[HostOf[i]]
  BY <1>2, <1>3
<1>5. TranscriptT2(m1, Reply(r, m1).body) = TranscriptT2(Hello(i), m2.body)
  BY <1>4 DEF t, u, TranscriptT2s
<1>6. Reply(r, m1).body = Introduction(r) /\ m2.body = Introduction(q)
  BY ReplyParts
<1>7. m1 = Hello(i) /\ Introduction(r) = Introduction(q)
  BY <1>5, <1>6 DEF TranscriptT2
<1>8. r = q
  BY <1>7, IntroductionNames DEF Exchanges
<1>9. m1.key = PublicOf[HostOf[i]]
  BY <1>7 DEF Hello, Introduction
<1> QED
  BY <1>1, <1>4, <1>7, <1>8, <1>9 DEF Holds

\* An accept and a reject never have the same MAC.
LEMMA MacKinds ==
  ASSUME NEW s, NEW m1, NEW m2, NEW m3, NEW t, NEW n1, NEW n2, NEW n3
  PROVE  AcceptMac(s, m1, m2, m3) # RejectMac(t, n1, n2, n3)
<1> DEFINE a == <<"accept", TranscriptT3s(m1, m2, m3.sig), m3.mac>>
           d == <<"reject", TranscriptT2s(n1, n2), n3>>
<1>1. /\ AcceptMac(s, m1, m2, m3) = [key |-> "k_r", secrets |-> s, over |-> a]
      /\ RejectMac(t, n1, n2, n3) = [key |-> "k_r", secrets |-> t, over |-> d]
  BY DEF AcceptMac, RejectMac, Mac
<1>2. a[1] = "accept" /\ d[1] = "reject"
  OBVIOUS
<1> HIDE DEF a, d
<1> QED
  BY <1>1, <1>2

\* A MAC is made with its secrets, and that of a reject over message 3.
LEMMA MacTerms ==
  ASSUME NEW s, NEW m1, NEW m2, NEW m3
  PROVE  /\ AcceptMac(s, m1, m2, m3).secrets = s
         /\ RejectMac(s, m1, m2, m3).secrets = s
         /\ RejectMac(s, m1, m2, m3).over[3] = m3
BY DEF AcceptMac, RejectMac, Mac

----------------------------------------------------------------------------
(* What an exchange has read and written stays *)

Persists ==
  /\ \A i \in Initiations : ini[i].st \notin Awaiting2 =>
       ini'[i].st \notin Awaiting2 /\ ini'[i].m2 = ini[i].m2
  /\ \A r \in Acceptances : res[r].st \notin Awaiting1 =>
       res'[r].st \notin Awaiting1 /\ res'[r].m1 = res[r].m1
  /\ \A r \in Acceptances : res[r].m4 # NoMessage =>
       res'[r].m3 = res[r].m3 /\ res'[r].m4 = res[r].m4
  /\ \A h \in Hosts : sessions[h] \subseteq sessions'[h]

LEMMA FactsStay ==
  ASSUME Persists
  PROVE  /\ \A i \in Initiations, r \in Acceptances :
              Answered(i, r) /\ ini'[i].m2 = ini[i].m2 => Answered(i, r)'
         /\ \A i \in Initiations, r \in Acceptances :
              Rejected(i, r) /\ ini'[i].m2 = ini[i].m2 => Rejected(i, r)'
         /\ \A i \in Initiations, r \in Acceptances : Confirmed(r, i) => Confirmed(r, i)'
         /\ \A x : Recorded(x) => Recorded(x)'
<1>1. ASSUME NEW i \in Initiations, NEW r \in Acceptances, Answered(i, r), ini'[i].m2 = ini[i].m2
      PROVE  Answered(i, r)'
  BY <1>1 DEF Persists, Answered
<1>2. ASSUME NEW i \in Initiations, NEW r \in Acceptances, Rejected(i, r), ini'[i].m2 = ini[i].m2
      PROVE  Rejected(i, r)'
  BY <1>2 DEF Persists, Rejected
<1>3. ASSUME NEW i \in Initiations, NEW r \in Acceptances, Confirmed(r, i)
      PROVE  Confirmed(r, i)'
  BY <1>3 DEF Persists, Confirmed
<1>4. ASSUME NEW x, Recorded(x)
      PROVE  Recorded(x)'
  <2> SUFFICES ASSUME x.role = "responder"
               PROVE  \E r \in Acceptances, i \in Initiations :
                        Confirmed(r, i)' /\ x = RecordOf(r)'
    BY DEF Recorded
  <2>1. PICK r \in Acceptances, i \in Initiations : Confirmed(r, i) /\ x = RecordOf(r)
    BY <1>4 DEF Recorded
  <2>2. res'[r].m1 = res[r].m1
    BY <2>1 DEF Persists, Confirmed
  <2>3. x = RecordOf(r)'
    BY <2>1, <2>2 DEF RecordOf
  <2> QED
    BY <1>3, <2>1, <2>3
<1> QED
  BY <1>1, <1>2, <1>3, <1>4

LEMMA InitiatorStays ==
  ASSUME Persists, NEW i \in Initiations, InitiatorKnows(i), ini'[i] = ini[i]
  PROVE  InitiatorKnows(i)'
<1>1. \A r \in Acceptances : Answered(i, r) => Answered(i, r)'
  BY FactsStay
<1>2. \A r \in Acceptances : Rejected(i, r) => Rejected(i, r)'
  BY FactsStay
<1>3. \A r \in Acceptances : sessions[HostOf[r]] \subseteq sessions'[HostOf[r]]
  BY ExchangesAssumption DEF Persists, Exchanges
<1>4. ini'[i].st \in {"SENT_CONFIRM", "CONFIRMED"} \/ ini'[i].m2 # NoMessage =>
        \E r \in Acceptances : Answered(i, r)'
  BY <1>1 DEF InitiatorKnows
<1>5. ini'[i].st = "CONFIRMED" =>
        \E r \in Acceptances :
          /\ Answered(i, r)'
          /\ Result("responder", Hello(i), InitiatorSecrets(i, ini'[i].m2))
               \in sessions'[HostOf[r]]
  BY <1>1, <1>3 DEF InitiatorKnows
<1>6. ini'[i].outcome = "rejected" => \E r \in Acceptances : Rejected(i, r)'
  BY <1>2 DEF InitiatorKnows
<1> QED
  BY <1>4, <1>5, <1>6 DEF InitiatorKnows

LEMMA ResponderStays ==
  ASSUME Stages, Persists, NEW r \in Acceptances, ResponderWrote(r),
         res[r].m4 # NoMessage \/ res'[r].m4 = NoMessage
  PROVE  ResponderWrote(r)'
<1> SUFFICES ASSUME res'[r].m4 # NoMessage
             PROVE  ResponderWrote(r)'
  BY DEF ResponderWrote
<1>1. res[r].m4 # NoMessage /\ res[r].st \notin Awaiting1
  BY DEF Stages, Awaiting3, Awaiting1
<1>2. res'[r].m1 = res[r].m1 /\ res'[r].m3 = res[r].m3 /\ res'[r].m4 = res[r].m4
      /\ sessions[HostOf[r]] \subseteq sessions'[HostOf[r]]
  BY <1>1, ExchangesAssumption DEF Persists, Exchanges
<1>3. RecordOf(r)' = RecordOf(r)
  BY <1>2 DEF RecordOf
<1> QED
  BY <1>1, <1>2, <1>3 DEF ResponderWrote

\* A step of an initiator leaves Inv true when it does for that exchange, for
\* the trust stores and for the records it adds, which are an initiator's.
LEMMA InitiatorKeeps ==
  ASSUME Inv, NEW i \in Initiations, NEW u \in InitiatorRecords,
         ini' = [ini EXCEPT ![i] = u],
         UNCHANGED <<res, halfOpen, limiterVars>>,
         pins' \in [Hosts -> [Ids -> Keys \union {NoKey}]], PinsAuthentic',
         DOMAIN sessions' = Hosts,
         \A h \in Hosts : /\ sessions[h] \subseteq sessions'[h]
                          /\ \A x \in sessions'[h] \ sessions[h] : x.role # "responder",
         ini[i].st \notin Awaiting2 => u.st \notin Awaiting2 /\ u.m2 = ini[i].m2,
         u.st \in Awaiting2 => u.m2 = NoMessage,
         u.outcome = "rejected" => u.st = "FAILED",
         Persists => InitiatorKnows(i)'
  PROVE  Inv'
<1>1. ini' \in [Initiations -> InitiatorRecords] /\ ini'[i] = u
      /\ \A j \in Initiations \ {i} : ini'[j] = ini[j]
  BY DEF Inv, Types
<1>2. Types'
  BY <1>1 DEF Inv, Types
<1>3. Stages'
  BY <1>1 DEF Inv, Stages
<1>4. Persists
  BY <1>1 DEF Persists
<1>5. Knowledge'
  <2>1. \A j \in Initiations : InitiatorKnows(j)'
    BY <1>1, <1>4, InitiatorStays DEF Inv, Knowledge
  <2>2. \A r \in Acceptances : ResponderWrote(r)'
    BY <1>4, ResponderStays DEF Inv, Knowledge
  <2>3. \A h \in Hosts : \A x \in sessions'[h] : Recorded(x)'
    <3> SUFFICES ASSUME NEW h \in Hosts, NEW x \in sessions'[h]
                 PROVE  Recorded(x)'
      OBVIOUS
    <3>1. CASE x \in sessions[h]
      BY <1>4, <3>1, FactsStay DEF Inv, Knowledge
    <3>2. CASE x \notin sessions[h]
      BY <3>2 DEF Recorded
    <3> QED
      BY <3>1, <3>2
  <2> QED
    BY <2>1, <2>2, <2>3 DEF Knowledge
<1>6. HalfOpenExact'
  BY DEF Inv, HalfOpenExact
<1>7. BucketInv'
  BY BucketSteps DEF Inv
<1> QED
  BY <1>2, <1>3, <1>5, <1>6, <1>7 DEF Inv

\* The same for a step of a responder.
LEMMA ResponderKeeps ==
  ASSUME Inv, NEW r \in Acceptances, NEW u \in ResponderRecords,
         res' = [res EXCEPT ![r] = u], ini' = ini,
         pins' \in [Hosts -> [Ids -> Keys \union {NoKey}]], PinsAuthentic',
         halfOpen' \in [Hosts -> Nat], HalfOpenExact', BucketInv',
         DOMAIN sessions' = Hosts,
         \A h \in Hosts : /\ sessions[h] \subseteq sessions'[h]
                          /\ \A x \in sessions'[h] \ sessions[h] : Persists => Recorded(x)',
         res[r].st \notin Awaiting1 => u.st \notin Awaiting1 /\ u.m1 = res[r].m1,
         res[r].m4 # NoMessage => u.m3 = res[r].m3 /\ u.m4 = res[r].m4,
         u.st \in Awaiting1 => u.m1 = NoMessage,
         u.st \in Awaiting3 => u.m4 = NoMessage,
         u.st = "SENT_REPLY" => u.m1 \in Introductions,
         res[r].m4 = NoMessage /\ u.m4 # NoMessage => ResponderWrote(r)'
  PROVE  Inv'
<1>1. res' \in [Acceptances -> ResponderRecords] /\ res'[r] = u
      /\ \A q \in Acceptances \ {r} : res'[q] = res[q]
  BY DEF Inv, Types
<1>2. Types'
  BY <1>1 DEF Inv, Types
<1>3. Stages'
  BY <1>1 DEF Inv, Stages
<1>4. Persists
  BY <1>1 DEF Persists
<1>5. Knowledge'
  <2>1. \A j \in Initiations : InitiatorKnows(j)'
    BY <1>4, InitiatorStays DEF Inv, Knowledge
  <2>2. \A q \in Acceptances : ResponderWrote(q)'
    <3> SUFFICES ASSUME NEW q \in Acceptances
                 PROVE  ResponderWrote(q)'
      OBVIOUS
    <3>1. CASE res[q].m4 # NoMessage \/ res'[q].m4 = NoMessage
      BY <1>4, <3>1, ResponderStays DEF Inv, Knowledge
    <3>2. CASE res[q].m4 = NoMessage /\ res'[q].m4 # NoMessage
      <4>1. q = r
        BY <1>1, <3>2
      <4> QED
        BY <1>1, <3>2, <4>1
    <3> QED
      BY <3>1, <3>2
  <2>3. \A h \in Hosts : \A x \in sessions'[h] : Recorded(x)'
    <3> SUFFICES ASSUME NEW h \in Hosts, NEW x \in sessions'[h]
                 PROVE  Recorded(x)'
      OBVIOUS
    <3>1. CASE x \in sessions[h]
      BY <1>4, <3>1, FactsStay DEF Inv, Knowledge
    <3>2. CASE x \notin sessions[h]
      BY <1>4, <3>2
    <3> QED
      BY <3>1, <3>2
  <2> QED
    BY <2>1, <2>2, <2>3 DEF Knowledge
<1> QED
  BY <1>2, <1>3, <1>5 DEF Inv

----------------------------------------------------------------------------
(* The steps of an initiator *)

\* trust is called with the introduction of a host that holds its key.
LEMMA TrustAuthentic ==
  ASSUME Inv, NEW x \in Exchanges, NEW y \in Exchanges, Holds(HostOf[y]),
         Trust(x, Introduction(y))
  PROVE  pins' \in [Hosts -> [Ids -> Keys \union {NoKey}]] /\ PinsAuthentic'
<1>1. PICK g, h, d, k : g = HostOf[y] /\ h = HostOf[x] /\ d = IdOf[g] /\ k = PublicOf[g]
  OBVIOUS
<1>2. g \in Hosts /\ h \in Hosts /\ d \in Ids /\ k \in Keys /\ k = PrivateOf[g]
  BY <1>1, ExchangesAssumption, HostsAssumption DEF Holds
<1>3. Introduction(y).id = d /\ Introduction(y).key = k
  BY <1>1 DEF Introduction
<1>4. pins' = [pins EXCEPT ![h][d] = k]
  BY <1>1, <1>3 DEF Trust
<1>5. pins \in [Hosts -> [Ids -> Keys \union {NoKey}]]
  BY DEF Inv, Types
<1>6. pins' \in [Hosts -> [Ids -> Keys \union {NoKey}]]
  BY <1>2, <1>4, <1>5
<1>7. \A f \in Hosts, e \in Ids :
        pins'[f][e] = pins[f][e] \/ (e = d /\ pins'[f][e] = k)
  BY <1>2, <1>4, <1>5
<1>8. PinsAuthentic'
  <2> SUFFICES ASSUME NEW f \in Hosts, NEW e \in Ids, pins'[f][e] # NoKey
               PROVE  \E n \in Hosts : /\ IdOf[n] = e /\ PublicOf[n] = pins'[f][e]
                                       /\ PrivateOf[n] = pins'[f][e]
    BY DEF PinsAuthentic
  <2>1. CASE pins'[f][e] = pins[f][e]
    BY <2>1 DEF Inv, PinsAuthentic
  <2>2. CASE e = d /\ pins'[f][e] = k
    BY <1>1, <1>2, <2>2
  <2> QED
    BY <1>7, <2>1, <2>2
<1> QED
  BY <1>6, <1>8

\* The steps that end an exchange or begin it, without a message 2.
LEMMA InitiateStep ==
  ASSUME Inv, NEW i \in Initiations, Initiate(i)
  PROVE  Inv'
<1>1. PICK u : u = [ini[i] EXCEPT !.st = "SENT_HELLO"]
  OBVIOUS
<1>2. ini[i] \in InitiatorRecords /\ ini[i].st = "IDLE" /\ ini[i].m2 = NoMessage
      /\ ini[i].outcome # "rejected"
  BY DEF Initiate, Inv, Types, Stages, Awaiting2
<1>3. /\ u \in InitiatorRecords /\ u.st = "SENT_HELLO" /\ u.m2 = NoMessage
      /\ u.outcome = ini[i].outcome
  BY <1>1, <1>2 DEF InitiatorRecords, InitiatorStates
<1>4. ini' = [ini EXCEPT ![i] = u]
  BY <1>1 DEF Initiate
<1>5. UNCHANGED <<res, pins, halfOpen, sessions, limiterVars>>
  BY DEF Initiate
<1>6. ini'[i] = u
  BY <1>4 DEF Inv, Types
<1>7. InitiatorKnows(i)'
  BY <1>2, <1>3, <1>6 DEF InitiatorKnows
<1>8. pins' \in [Hosts -> [Ids -> Keys \union {NoKey}]] /\ PinsAuthentic' /\ DOMAIN sessions' = Hosts
  BY <1>5 DEF Inv, Types, PinsAuthentic
<1> QED
  BY <1>2, <1>3, <1>4, <1>5, <1>7, <1>8, InitiatorKeeps DEF Awaiting2

\* A message 2 that arrives is a reply, its body perhaps changed.
LEMMA ReplyDelivered ==
  ASSUME NEW m2 \in RepliesArriving, m2 # Malformed
  PROVE  \E r \in Acceptances : res[r].m1 # NoMessage /\ \E b : m2 = Delivered(r, res[r].m1, b)
BY DEF RepliesArriving, Delivered

LEMMA ReplyArrivesStep ==
  ASSUME Inv, NEW i \in Initiations, NEW m2 \in RepliesArriving, ReplyArrives(i, m2)
  PROVE  Inv'
<1>1. PICK r \in Acceptances : res[r].m1 # NoMessage /\ \E b : m2 = Delivered(r, res[r].m1, b)
  BY ReplyDelivered DEF ReplyArrives
<1>2. PICK b : m2 = Delivered(r, res[r].m1, b)
  BY <1>1
<1>3. res[r].m1 = Hello(i) /\ m2 = Reply(r, Hello(i)) /\ Holds(HostOf[r])
  BY <1>2, ReplyGenuine DEF ReplyArrives
<1>4. res[r].st \notin Awaiting1
  BY <1>1 DEF Inv, Stages
<1>5. PICK u : u = [ini[i] EXCEPT !.st = "SENT_CONFIRM", !.m2 = m2]
  OBVIOUS
<1>6. ini[i] \in InitiatorRecords /\ ini[i].st = "SENT_HELLO" /\ ini[i].outcome # "rejected"
  BY DEF ReplyArrives, Inv, Types, Stages
<1>7. m2 \in Replies
  BY <1>3 DEF Replies
<1>8. /\ u \in InitiatorRecords /\ u.st = "SENT_CONFIRM" /\ u.m2 = m2
      /\ u.outcome = ini[i].outcome
  BY <1>5, <1>6, <1>7 DEF InitiatorRecords, InitiatorStates
<1>9. ini' = [ini EXCEPT ![i] = u]
  BY <1>5 DEF ReplyArrives, Inv, Types
<1>10. UNCHANGED <<res, pins, halfOpen, sessions, limiterVars>>
  BY DEF ReplyArrives
<1>11. ini'[i] = u
  BY <1>9 DEF Inv, Types
<1>12. Answered(i, r)'
  BY <1>3, <1>4, <1>8, <1>10, <1>11 DEF Answered
<1>13. InitiatorKnows(i)'
  BY <1>6, <1>8, <1>11, <1>12 DEF InitiatorKnows
<1>14. pins' \in [Hosts -> [Ids -> Keys \union {NoKey}]] /\ PinsAuthentic' /\ DOMAIN sessions' = Hosts
  BY <1>10 DEF Inv, Types, PinsAuthentic
<1> QED
  BY <1>6, <1>8, <1>9, <1>10, <1>13, <1>14, InitiatorKeeps DEF Awaiting2

\* A message 4 that arrives has the MAC of one that was written.
LEMMA FinalDelivered ==
  ASSUME Inv, NEW m4 \in FinalsArriving, m4 # Malformed
  PROVE  \E r \in Acceptances :
           /\ res[r].m4 # NoMessage /\ res[r].st \notin Awaiting1
           /\ m4.mac = res[r].m4.mac
<1>1. PICK r \in Acceptances, s \in {"accept", "reject"} :
        res[r].m4 # NoMessage /\ m4 = [res[r].m4 EXCEPT !.status = s]
  BY DEF FinalsArriving
<1>2. \/ res[r].m4 = AcceptOf(r, res[r].m1, res[r].m3)
      \/ res[r].m4 = RejectOf(r, res[r].m1, res[r].m3)
  BY <1>1 DEF Inv, Knowledge, ResponderWrote
<1>3. PICK t, mac : res[r].m4 = [status |-> t, mac |-> mac]
  BY <1>2 DEF AcceptOf, RejectOf
<1>4. m4.mac = res[r].m4.mac
  BY <1>1, <1>3
<1>5. res[r].st \notin Awaiting1
  BY <1>1 DEF Inv, Stages, Awaiting1, Awaiting3
<1> QED
  BY <1>1, <1>4, <1>5

LEMMA AcceptArrivesStep ==
  ASSUME Inv, NEW i \in Initiations, NEW m4 \in FinalsArriving, AcceptArrives(i, m4)
  PROVE  Inv'
<1>1. PICK m2 : m2 = ini[i].m2
  OBVIOUS
<1>2. PICK q \in Acceptances : Answered(i, q)
  BY DEF AcceptArrives, Inv, Knowledge, InitiatorKnows
<1>3. m2 = Reply(q, Hello(i)) /\ Holds(HostOf[q]) /\ m2.body = Introduction(q)
  BY <1>1, <1>2, ReplyParts DEF Answered
<1>4. PICK r \in Acceptances : /\ res[r].m4 # NoMessage /\ res[r].st \notin Awaiting1
                               /\ m4.mac = res[r].m4.mac
  BY FinalDelivered DEF AcceptArrives
<1>5. m4.mac = AcceptMac(InitiatorSecrets(i, m2), Hello(i), m2, Confirm(i, m2))
  BY <1>1 DEF AcceptArrives
<1>6. PICK m1, m3 : m1 = res[r].m1 /\ m3 = res[r].m3
  OBVIOUS
<1>7. res[r].m4 # RejectOf(r, m1, m3)
  <2>1. RejectOf(r, m1, m3).mac = RejectMac(ResponderSecrets(r, m1), m1, Reply(r, m1), m3)
    BY DEF RejectOf
  <2>2. RejectOf(r, m1, m3).mac # m4.mac
    BY <1>5, <2>1, MacKinds
  <2> QED
    BY <1>4, <2>2
<1>8. res[r].m4 = AcceptOf(r, m1, m3) /\ RecordOf(r) \in sessions[HostOf[r]]
  BY <1>4, <1>6, <1>7 DEF Inv, Knowledge, ResponderWrote
<1>9. m4.mac = AcceptMac(ResponderSecrets(r, m1), m1, Reply(r, m1), m3)
  BY <1>4, <1>8 DEF AcceptOf
<1>10. InitiatorSecrets(i, m2) = ResponderSecrets(r, m1)
  <2>1. m4.mac.secrets = InitiatorSecrets(i, m2)
    BY <1>5, MacTerms
  <2>2. m4.mac.secrets = ResponderSecrets(r, m1)
    BY <1>9, MacTerms
  <2> QED
    BY <2>1, <2>2
<1>11. m1 = Hello(i) /\ r = q
  BY <1>3, <1>10, SecretsAgree
<1>12. Result("responder", Hello(i), InitiatorSecrets(i, m2)) \in sessions[HostOf[q]]
  BY <1>6, <1>8, <1>10, <1>11 DEF RecordOf
<1>13. PICK u : u = [ini[i] EXCEPT !.st = "CONFIRMED", !.outcome = "result"]
  OBVIOUS
<1>14. ini[i] \in InitiatorRecords /\ ini[i].st = "SENT_CONFIRM"
  BY DEF AcceptArrives, Inv, Types
<1>15. u \in InitiatorRecords /\ u.st = "CONFIRMED" /\ u.m2 = m2 /\ u.outcome = "result"
  BY <1>1, <1>13, <1>14 DEF InitiatorRecords, InitiatorStates, Outcomes
<1>16. ini' = [ini EXCEPT ![i] = u] /\ ini'[i] = u
  BY <1>13 DEF AcceptArrives, Inv, Types
<1>17. PICK x : x = Result("initiator", m2.body, InitiatorSecrets(i, m2))
  OBVIOUS
<1>18. x.role # "responder"
  BY <1>17 DEF Result
<1>19. sessions' = [sessions EXCEPT ![HostOf[i]] = @ \union {x}]
  BY <1>1, <1>17 DEF AcceptArrives
<1>20. /\ DOMAIN sessions' = Hosts
       /\ \A h \in Hosts : /\ sessions[h] \subseteq sessions'[h]
                           /\ \A y \in sessions'[h] \ sessions[h] : y.role # "responder"
  BY <1>18, <1>19 DEF Inv, Types
<1>21. pins' \in [Hosts -> [Ids -> Keys \union {NoKey}]] /\ PinsAuthentic'
  BY <1>1, <1>3, TrustAuthentic DEF AcceptArrives, Exchanges
<1>22. ASSUME Persists
       PROVE  InitiatorKnows(i)'
  <2>1. Answered(i, q)'
    BY <1>1, <1>2, <1>15, <1>16, <1>22, FactsStay
  <2>2. Result("responder", Hello(i), InitiatorSecrets(i, ini'[i].m2)) \in sessions'[HostOf[q]]
    BY <1>12, <1>15, <1>16, <1>22, ExchangesAssumption DEF Persists, Exchanges
  <2> QED
    BY <1>15, <1>16, <2>1, <2>2 DEF InitiatorKnows
<1>23. UNCHANGED <<res, halfOpen, limiterVars>>
  BY DEF AcceptArrives
<1> QED
  BY <1>1, <1>14, <1>15, <1>16, <1>20, <1>21, <1>22, <1>23, InitiatorKeeps DEF Awaiting2

\* An authenticated reject is one that a responder has written to this exchange.
LEMMA RejectGenuine ==
  ASSUME Inv, NEW i \in Initiations, ini[i].st = "SENT_CONFIRM",
         NEW m4 \in FinalsArriving, AuthenticReject(i, m4)
  PROVE  \E r \in Acceptances : Rejected(i, r)
<1>1. PICK m2 : m2 = ini[i].m2
  OBVIOUS
<1>2. PICK q \in Acceptances : Answered(i, q)
  BY DEF Inv, Knowledge, InitiatorKnows
<1>3. m2 = Reply(q, Hello(i))
  BY <1>1, <1>2 DEF Answered
<1>4. PICK r \in Acceptances : /\ res[r].m4 # NoMessage /\ res[r].st \notin Awaiting1
                               /\ m4.mac = res[r].m4.mac
  BY FinalDelivered DEF AuthenticReject
<1>5. m4.mac = RejectMac(InitiatorSecrets(i, m2), Hello(i), m2, Confirm(i, m2))
  BY <1>1 DEF AuthenticReject
<1>6. PICK m1, m3 : m1 = res[r].m1 /\ m3 = res[r].m3
  OBVIOUS
<1>7. res[r].m4 # AcceptOf(r, m1, m3)
  <2>1. AcceptOf(r, m1, m3).mac = AcceptMac(ResponderSecrets(r, m1), m1, Reply(r, m1), m3)
    BY DEF AcceptOf
  <2>2. AcceptOf(r, m1, m3).mac # m4.mac
    BY <1>5, <2>1, MacKinds
  <2> QED
    BY <1>4, <2>2
<1>8. res[r].m4 = RejectOf(r, m1, m3)
  BY <1>4, <1>6, <1>7 DEF Inv, Knowledge, ResponderWrote
<1>9. /\ m4.mac = RejectMac(ResponderSecrets(r, m1), m1, Reply(r, m1), m3)
      /\ res[r].m4.status = "reject"
  BY <1>4, <1>8 DEF RejectOf
<1>10. InitiatorSecrets(i, m2) = ResponderSecrets(r, m1) /\ m3 = Confirm(i, m2)
  <2>1. m4.mac.secrets = InitiatorSecrets(i, m2) /\ m4.mac.over[3] = Confirm(i, m2)
    BY <1>5, MacTerms
  <2>2. m4.mac.secrets = ResponderSecrets(r, m1) /\ m4.mac.over[3] = m3
    BY <1>9, MacTerms
  <2> QED
    BY <2>1, <2>2
<1>11. m1 = Hello(i)
  BY <1>3, <1>10, SecretsAgree
<1> QED
  BY <1>1, <1>4, <1>6, <1>9, <1>10, <1>11 DEF Rejected

\* The exchange ends in FAILED, with or without a rejection.
LEMMA InitiatorFailsStep ==
  ASSUME Inv, NEW i \in Initiations,
         \/ \E m4 \in FinalsArriving : RejectArrives(i, m4) \/ UnverifiedRejectArrives(i, m4)
         \/ InitiationFails(i)
  PROVE  Inv'
<1>1. PICK o \in {"rejected", "unverified", "error"} :
        /\ ini' = [ini EXCEPT ![i].st = "FAILED", ![i].outcome = o]
        /\ o = "rejected" => \E r \in Acceptances : Rejected(i, r)
  BY RejectGenuine DEF RejectArrives, UnverifiedRejectArrives, InitiationFails
<1>2. UNCHANGED <<res, pins, halfOpen, sessions, limiterVars>>
      /\ ini[i].st \in {"SENT_HELLO", "SENT_CONFIRM"}
  BY DEF RejectArrives, UnverifiedRejectArrives, InitiationFails
<1>3. PICK u : u = [ini[i] EXCEPT !.st = "FAILED", !.outcome = o]
  OBVIOUS
<1>4. ini[i] \in InitiatorRecords
  BY DEF Inv, Types
<1>5. u \in InitiatorRecords /\ u.st = "FAILED" /\ u.m2 = ini[i].m2 /\ u.outcome = o
  BY <1>3, <1>4 DEF InitiatorRecords, InitiatorStates, Outcomes
<1>6. ini' = [ini EXCEPT ![i] = u] /\ ini'[i] = u
  BY <1>1, <1>3 DEF Inv, Types
<1>7. ASSUME Persists
      PROVE  InitiatorKnows(i)'
  <2>1. ini'[i].m2 = ini[i].m2
    BY <1>5, <1>6
  <2>2. ini'[i].m2 # NoMessage => \E r \in Acceptances : Answered(i, r)'
    BY <1>7, <2>1, FactsStay DEF Inv, Knowledge, InitiatorKnows
  <2>3. o = "rejected" => \E r \in Acceptances : Rejected(i, r)'
    BY <1>1, <1>7, <2>1, FactsStay
  <2> QED
    BY <1>5, <1>6, <2>2, <2>3 DEF InitiatorKnows
<1>8. pins' \in [Hosts -> [Ids -> Keys \union {NoKey}]] /\ PinsAuthentic' /\ DOMAIN sessions' = Hosts
  BY <1>2 DEF Inv, Types, PinsAuthentic
<1> QED
  BY <1>2, <1>5, <1>6, <1>7, <1>8, InitiatorKeeps DEF Awaiting2

----------------------------------------------------------------------------
(* The half-open counter *)

Open(h) == {r \in Acceptances : HostOf[r] = h /\ res[r].st \in Counted}

LEMMA OpenFinite ==
  ASSUME NEW h
  PROVE  IsFiniteSet(Open(h)) /\ Cardinality(Open(h)) \in Nat
<1>1. Open(h) \subseteq Acceptances /\ IsFiniteSet(Acceptances)
  BY ExchangesAssumption DEF Open
<1>2. IsFiniteSet(Open(h))
  BY <1>1, FS_Subset
<1> QED
  BY <1>2, FS_CardinalityType

\* The exchanges of the other hosts are not touched.
LEMMA OpenElsewhere ==
  ASSUME NEW r \in Acceptances, NEW u,
         res \in [Acceptances -> ResponderRecords], res' = [res EXCEPT ![r] = u]
  PROVE  /\ \A h : h # HostOf[r] => Open(h)' = Open(h)
         /\ u.st \in Counted => Open(HostOf[r])' = Open(HostOf[r]) \union {r}
         /\ u.st \notin Counted => Open(HostOf[r])' = Open(HostOf[r]) \ {r}
<1>1. res'[r] = u /\ \A q \in Acceptances \ {r} : res'[q] = res[q]
  OBVIOUS
<1>2. ASSUME NEW h, h # HostOf[r]
      PROVE  Open(h)' = Open(h)
  BY <1>1, <1>2 DEF Open
<1>3. ASSUME u.st \in Counted
      PROVE  Open(HostOf[r])' = Open(HostOf[r]) \union {r}
  BY <1>1, <1>3 DEF Open
<1>4. ASSUME u.st \notin Counted
      PROVE  Open(HostOf[r])' = Open(HostOf[r]) \ {r}
  BY <1>1, <1>4 DEF Open
<1> QED
  BY <1>2, <1>3, <1>4

LEMMA CountKeeps ==
  ASSUME Inv, NEW r \in Acceptances, NEW u, res' = [res EXCEPT ![r] = u],
         \/ /\ res[r].st \in Counted <=> u.st \in Counted
            /\ halfOpen' = halfOpen
         \/ /\ res[r].st \notin Counted /\ u.st \in Counted
            /\ halfOpen' = [halfOpen EXCEPT ![HostOf[r]] = @ + 1]
            /\ RoomForHalfOpen(HostOf[r])
         \/ /\ res[r].st \in Counted /\ u.st \notin Counted
            /\ halfOpen' = EndHalfOpen(HostOf[r])
  PROVE  halfOpen' \in [Hosts -> Nat] /\ HalfOpenExact'
<1>1. PICK h : h = HostOf[r]
  OBVIOUS
<1>2. /\ h \in Hosts /\ halfOpen \in [Hosts -> Nat] /\ res \in [Acceptances -> ResponderRecords]
  BY <1>1, ExchangesAssumption DEF Exchanges, Inv, Types
<1>3. \A g \in Hosts : halfOpen[g] = Cardinality(Open(g)) /\ halfOpen[g] <= MaxHalfOpen
  BY DEF Inv, HalfOpenExact, Open
<1>4. r \in Open(h) <=> res[r].st \in Counted
  BY <1>1 DEF Open
<1>5. PICK S : S = Open(h)
  OBVIOUS
<1>6. IsFiniteSet(S) /\ Cardinality(S) \in Nat /\ halfOpen[h] = Cardinality(S)
  BY <1>2, <1>3, <1>5, OpenFinite
<1>7. /\ Cardinality(S \union {r}) = IF r \in S THEN Cardinality(S) ELSE Cardinality(S) + 1
      /\ Cardinality(S \ {r}) = IF r \in S THEN Cardinality(S) - 1 ELSE Cardinality(S)
  BY <1>6, FS_AddElement, FS_RemoveElement
<1>8. Cardinality(S \ {r}) \in Nat
  <2>1. IsFiniteSet(S \ {r})
    BY <1>6, FS_RemoveElement
  <2> QED
    BY <2>1, FS_CardinalityType
<1>9. /\ \A g \in Hosts : g # h => Open(g)' = Open(g)
      /\ u.st \in Counted => Open(h)' = S \union {r}
      /\ u.st \notin Counted => Open(h)' = S \ {r}
  BY <1>1, <1>2, <1>5, OpenElsewhere
<1>10. /\ halfOpen' \in [Hosts -> Nat]
       /\ \A g \in Hosts : g # h => halfOpen'[g] = halfOpen[g]
       /\ halfOpen'[h] = Cardinality(Open(h)') /\ halfOpen'[h] <= MaxHalfOpen
  <2>1. CASE (res[r].st \in Counted <=> u.st \in Counted) /\ halfOpen' = halfOpen
    BY <1>2, <1>3, <1>4, <1>5, <1>6, <1>7, <1>9, <2>1
  <2>2. CASE /\ res[r].st \notin Counted /\ u.st \in Counted
             /\ halfOpen' = [halfOpen EXCEPT ![h] = @ + 1]
             /\ RoomForHalfOpen(h)
    <3>1. Cardinality(Open(h)') = Cardinality(S) + 1
      BY <1>4, <1>5, <1>7, <1>9, <2>2
    <3>2. Cardinality(S) + 1 <= MaxHalfOpen
      BY <1>6, <2>2, MaxHalfOpenAssumption DEF RoomForHalfOpen
    <3>3. halfOpen' \in [Hosts -> Nat] /\ halfOpen'[h] = Cardinality(S) + 1
          /\ \A g \in Hosts : g # h => halfOpen'[g] = halfOpen[g]
      BY <1>2, <1>6, <2>2
    <3> QED
      BY <3>1, <3>2, <3>3
  <2>3. CASE /\ res[r].st \in Counted /\ u.st \notin Counted
             /\ halfOpen' = EndHalfOpen(h)
    <3>1. Cardinality(Open(h)') = Cardinality(S) - 1 /\ Cardinality(S) > 0
      <4>1. r \in S /\ Open(h)' = S \ {r}
        BY <1>4, <1>5, <1>9, <2>3
      <4>2. Cardinality(S \ {r}) = Cardinality(S) - 1
        BY <1>7, <4>1
      <4> QED
        BY <1>6, <1>8, <4>1, <4>2
    <3>2. halfOpen' = [halfOpen EXCEPT ![h] = Cardinality(S) - 1]
      BY <1>2, <1>6, <2>3, <3>1 DEF EndHalfOpen
    <3>3. halfOpen' \in [Hosts -> Nat] /\ halfOpen'[h] = Cardinality(S) - 1
          /\ \A g \in Hosts : g # h => halfOpen'[g] = halfOpen[g]
      BY <1>2, <1>6, <3>1, <3>2
    <3>4. Cardinality(S) - 1 <= MaxHalfOpen
      BY <1>2, <1>3, <1>6, MaxHalfOpenAssumption
    <3> QED
      BY <3>1, <3>3, <3>4
  <2> QED
    BY <1>1, <2>1, <2>2, <2>3
<1>11. \A g \in Hosts : halfOpen'[g] = Cardinality(Open(g)') /\ halfOpen'[g] <= MaxHalfOpen
  BY <1>3, <1>9, <1>10
<1>12. HalfOpenExact'
  BY <1>11 DEF HalfOpenExact, Open
<1> QED
  BY <1>10, <1>12

----------------------------------------------------------------------------
(* The steps of a responder *)

\* A step that changes the state of an exchange and reads or writes nothing.
LEMMA StateKeeps ==
  ASSUME Inv, NEW r \in Acceptances, NEW s \in ResponderStates,
         res' = [res EXCEPT ![r].st = s], UNCHANGED <<ini, pins, sessions>>, BucketInv',
         \/ /\ res[r].st \in Counted <=> s \in Counted
            /\ halfOpen' = halfOpen
         \/ /\ res[r].st \in Counted /\ s \notin Counted
            /\ halfOpen' = EndHalfOpen(HostOf[r]),
         res[r].st \notin Awaiting1 => s \notin Awaiting1,
         s \in Awaiting3 => res[r].st = "NEW", s # "SENT_REPLY"
  PROVE  Inv'
<1>1. PICK u : u = [res[r] EXCEPT !.st = s]
  OBVIOUS
<1>2. res[r] \in ResponderRecords
  BY DEF Inv, Types
<1>3. /\ u \in ResponderRecords /\ u.st = s /\ u.m1 = res[r].m1 /\ u.m3 = res[r].m3
      /\ u.m4 = res[r].m4
  BY <1>1, <1>2 DEF ResponderRecords
<1>4. res' = [res EXCEPT ![r] = u]
  BY <1>1
<1>5. halfOpen' \in [Hosts -> Nat] /\ HalfOpenExact'
  BY <1>3, <1>4, CountKeeps
<1>6. /\ pins' \in [Hosts -> [Ids -> Keys \union {NoKey}]] /\ PinsAuthentic'
      /\ DOMAIN sessions' = Hosts
  BY DEF Inv, Types, PinsAuthentic
<1>7. /\ s \in Awaiting1 => res[r].m1 = NoMessage
      /\ s \in Awaiting3 => res[r].m4 = NoMessage
  BY DEF Inv, Stages, Awaiting1, Awaiting3
<1>8. /\ res[r].st \notin Awaiting1 => u.st \notin Awaiting1 /\ u.m1 = res[r].m1
      /\ u.st \in Awaiting1 => u.m1 = NoMessage
      /\ u.st \in Awaiting3 => u.m4 = NoMessage
      /\ u.st = "SENT_REPLY" => u.m1 \in Introductions
      /\ ~ (res[r].m4 = NoMessage /\ u.m4 # NoMessage)
  BY <1>3, <1>7
<1>9. \A h \in Hosts : /\ sessions[h] \subseteq sessions'[h]
                       /\ \A x \in sessions'[h] \ sessions[h] : Persists => Recorded(x)'
  OBVIOUS
<1> QED
  BY <1>3, <1>4, <1>5, <1>6, <1>8, <1>9, ResponderKeeps

\* accept, past the limiter or not.
LEMMA AdmitStep ==
  ASSUME Inv, NEW r \in Acceptances, Admit(r) \/ RateLimited(r)
  PROVE  Inv'
<1>1. HostOf[r] \in Hosts
  BY ExchangesAssumption DEF Exchanges
<1>2. BucketInv'
  BY <1>1, BucketSteps DEF Admit, RateLimited, Inv
<1>3. PICK s \in {"WAIT_HELLO", "FAILED"} : res' = [res EXCEPT ![r].st = s]
  BY DEF Admit, RateLimited
<1>4. res[r].st = "NEW" /\ UNCHANGED <<ini, pins, halfOpen, sessions>>
  BY DEF Admit, RateLimited
<1>5. s \in ResponderStates /\ s # "SENT_REPLY" /\ s \notin Counted
      /\ res[r].st \notin Counted /\ res[r].st \in Awaiting1
  BY <1>3, <1>4 DEF ResponderStates, Counted, Awaiting1
<1> QED
  BY <1>2, <1>3, <1>4, <1>5, StateKeeps

\* Every way in which an exchange ends.
LEMMA ResponderEndsStep ==
  ASSUME Inv, NEW r \in Acceptances, AcceptSent(r) \/ ResponderGivesUp(r)
  PROVE  Inv'
<1>1. BucketInv' /\ UNCHANGED <<ini, pins, sessions>>
  BY BucketSteps
  DEF AcceptSent, ResponderGivesUp, HelloFails, ReplyUnanswered, AcceptFails, RejectDone, Inv
<1>2. PICK s \in {"CONFIRMED", "FAILED"} : res' = [res EXCEPT ![r].st = s]
  BY DEF AcceptSent, ResponderGivesUp, HelloFails, ReplyUnanswered, AcceptFails, RejectDone
<1>3. s \in ResponderStates /\ s \notin Counted /\ s \notin Awaiting1 /\ s \notin Awaiting3
      /\ s # "SENT_REPLY"
  BY <1>2 DEF ResponderStates, Counted, Awaiting1, Awaiting3
<1>4. \/ res[r].st \notin Counted /\ halfOpen' = halfOpen
      \/ res[r].st \in Counted /\ halfOpen' = EndHalfOpen(HostOf[r])
  BY DEF AcceptSent, ResponderGivesUp, HelloFails, ReplyUnanswered, AcceptFails, RejectDone, Counted
<1> QED
  BY <1>1, <1>2, <1>3, <1>4, StateKeeps

\* A message 1 that arrives is an introduction.
LEMMA HelloDelivered ==
  ASSUME NEW m1 \in HellosArriving, m1 # Malformed
  PROVE  m1 \in Introductions
<1>1. PICK i \in Initiations : m1 \in Changed(Hello(i))
  BY DEF HellosArriving
<1>2. Hello(i) \in Introductions
  BY IntroductionNames DEF Hello, Exchanges
<1> QED
  BY <1>1, <1>2 DEF Changed, Introductions

LEMMA HelloArrivesStep ==
  ASSUME Inv, NEW r \in Acceptances, NEW m1 \in HellosArriving, HelloArrives(r, m1)
  PROVE  Inv'
<1>1. m1 \in Introductions
  BY HelloDelivered DEF HelloArrives
<1>2. PICK u : u = [res[r] EXCEPT !.st = "SENT_REPLY", !.m1 = m1]
  OBVIOUS
<1>3. res[r] \in ResponderRecords /\ res[r].st = "WAIT_HELLO" /\ res[r].m4 = NoMessage
  BY DEF HelloArrives, Inv, Types, Stages, Awaiting3
<1>4. u \in ResponderRecords /\ u.st = "SENT_REPLY" /\ u.m1 = m1 /\ u.m4 = NoMessage
      /\ u.m1 \in Introductions
  BY <1>1, <1>2, <1>3 DEF ResponderRecords, ResponderStates
<1>5. res' = [res EXCEPT ![r] = u]
  BY <1>2 DEF HelloArrives, Inv, Types
<1>6. halfOpen' \in [Hosts -> Nat] /\ HalfOpenExact'
  <2>1. res[r].st \notin Counted /\ u.st \in Counted
    BY <1>3, <1>4 DEF Counted
  <2>2. halfOpen' = [halfOpen EXCEPT ![HostOf[r]] = @ + 1] /\ RoomForHalfOpen(HostOf[r])
    BY DEF HelloArrives
  <2> QED
    BY <1>5, <2>1, <2>2, CountKeeps
<1>7. UNCHANGED <<ini, pins, sessions, limiterVars>>
  BY DEF HelloArrives
<1>8. /\ pins' \in [Hosts -> [Ids -> Keys \union {NoKey}]] /\ PinsAuthentic'
      /\ DOMAIN sessions' = Hosts
  BY <1>7 DEF Inv, Types, PinsAuthentic
<1>9. BucketInv'
  BY <1>7, BucketSteps DEF Inv
<1> QED
  BY <1>3, <1>4, <1>5, <1>6, <1>7, <1>8, <1>9, ResponderKeeps DEF Awaiting1, Awaiting3

\* A message 3 that arrives was written by an exchange that had read the reply
\* of a responder.
LEMMA ConfirmDelivered ==
  ASSUME Inv, NEW m3 \in ConfirmsArriving, m3 # Malformed
  PROVE  /\ m3 \in Confirms
         /\ \E i \in Initiations, q \in Acceptances :
              /\ m3 = Confirm(i, ini[i].m2) /\ ini[i].m2 = Reply(q, Hello(i))
              /\ ini[i].st \notin Awaiting2
<1>1. PICK i \in Initiations : m3 = Confirm(i, ini[i].m2) /\ ini[i].m2 # NoMessage
  BY DEF ConfirmsArriving
<1>2. PICK q \in Acceptances : ini[i].m2 = Reply(q, Hello(i))
  BY <1>1 DEF Inv, Knowledge, InitiatorKnows, Answered
<1>3. ini[i].m2 \in Replies
  BY <1>2 DEF Replies
<1>4. ini[i].st \notin Awaiting2
  BY <1>1 DEF Inv, Stages
<1> QED
  BY <1>1, <1>2, <1>3, <1>4 DEF Confirms

\* Either form of message 4, or none, is a reject or an accept of r.
LEMMA WrittenTypes ==
  ASSUME NEW r \in Acceptances, res[r].m1 \in Introductions, NEW m3
  PROVE  /\ AcceptWritten(r, m3) = {NoMessage, AcceptOf(r, res[r].m1, m3)}
         /\ RejectWritten(r, m3) = {NoMessage, RejectOf(r, res[r].m1, m3)}
         /\ m3 \in Confirms => AcceptOf(r, res[r].m1, m3) \in Finals
         /\ m3 \in Confirms \union {Malformed} => RejectOf(r, res[r].m1, m3) \in Finals
<1>1. /\ AcceptWritten(r, m3) = {NoMessage, AcceptOf(r, res[r].m1, m3)}
      /\ RejectWritten(r, m3) = {NoMessage, RejectOf(r, res[r].m1, m3)}
  BY DEF AcceptWritten, RejectWritten, AcceptOf, RejectOf
<1>2. m3 \in Confirms => AcceptOf(r, res[r].m1, m3) \in Finals
  BY DEF Finals
<1>3. m3 \in Confirms \union {Malformed} => RejectOf(r, res[r].m1, m3) \in Finals
  BY DEF Finals
<1> QED
  BY <1>1, <1>2, <1>3

\* Message 3 is read and message 4 perhaps written.
Answering(t, s, m3, m4, trust) == [t EXCEPT !.st = s, !.m3 = m3, !.m4 = m4, !.trust = trust]

LEMMA AnswerKeeps ==
  ASSUME Inv, NEW r \in Acceptances, res[r].st = "SENT_REPLY",
         NEW s \in {"ACCEPTING", "REJECTING"}, NEW trust \in {"untouched", "pinned"},
         NEW m3 \in Confirms \union {Malformed}, NEW m4 \in Finals \union {NoMessage},
         res' = [res EXCEPT ![r] = Answering(res[r], s, m3, m4, trust)],
         UNCHANGED <<ini, halfOpen, limiterVars>>,
         pins' \in [Hosts -> [Ids -> Keys \union {NoKey}]], PinsAuthentic',
         DOMAIN sessions' = Hosts,
         \A h \in Hosts : /\ sessions[h] \subseteq sessions'[h]
                          /\ \A x \in sessions'[h] \ sessions[h] : Persists => Recorded(x)',
         m4 # NoMessage =>
           \/ m4 = RejectOf(r, res[r].m1, m3)
           \/ m4 = AcceptOf(r, res[r].m1, m3) /\ RecordOf(r) \in sessions'[HostOf[r]]
  PROVE  Inv'
<1>1. PICK u : u = Answering(res[r], s, m3, m4, trust)
  OBVIOUS
<1>2. res[r] \in ResponderRecords
  BY DEF Inv, Types
<1>3. /\ u \in ResponderRecords /\ u.st = s /\ u.m1 = res[r].m1 /\ u.m3 = m3 /\ u.m4 = m4
  BY <1>1, <1>2 DEF Answering, ResponderRecords, ResponderStates
<1>4. res' = [res EXCEPT ![r] = u] /\ res'[r] = u
  BY <1>1 DEF Inv, Types
<1>5. halfOpen' \in [Hosts -> Nat] /\ HalfOpenExact'
  <2>1. res[r].st \in Counted /\ u.st \in Counted
    BY <1>3 DEF Counted
  <2> QED
    BY <1>4, <2>1, CountKeeps
<1>6. BucketInv'
  BY BucketSteps DEF Inv
<1>7. res[r].m4 = NoMessage
  BY DEF Inv, Stages, Awaiting3
<1>8. ResponderWrote(r)'
  <2>1. RecordOf(r)' = RecordOf(r)
    BY <1>3, <1>4 DEF RecordOf
  <2> QED
    BY <1>3, <1>4, <2>1 DEF ResponderWrote
<1>9. s \notin Awaiting1 /\ s \notin Awaiting3 /\ s # "SENT_REPLY"
  BY DEF Awaiting1, Awaiting3
<1> QED
  BY <1>3, <1>4, <1>5, <1>6, <1>7, <1>8, <1>9, ResponderKeeps

\* _verify_message_3 passes: the pin is authentic, and so is a record.
LEMMA ConfirmVerified ==
  ASSUME Inv, NEW r \in Acceptances, NEW m3 \in ConfirmsArriving, res[r].st = "SENT_REPLY",
         ConfirmAcceptable(r, m3), Trust(r, res[r].m1)
  PROVE  /\ m3 \in Confirms
         /\ pins' \in [Hosts -> [Ids -> Keys \union {NoKey}]] /\ PinsAuthentic'
         /\ Persists => Recorded(RecordOf(r))'
<1>1. m3 # Malformed
  BY DEF ConfirmAcceptable
<1>2. m3 \in Confirms
  BY <1>1, ConfirmDelivered
<1>3. PICK i \in Initiations, q \in Acceptances :
        /\ m3 = Confirm(i, ini[i].m2) /\ ini[i].m2 = Reply(q, Hello(i))
        /\ ini[i].st \notin Awaiting2
  BY <1>1, ConfirmDelivered
<1>4. res[r].m1 = Hello(i) /\ q = r /\ Holds(HostOf[i])
  BY <1>3, ConfirmGenuine
<1>5. pins' \in [Hosts -> [Ids -> Keys \union {NoKey}]] /\ PinsAuthentic'
  BY <1>4, TrustAuthentic DEF Hello, Exchanges
<1>6. Confirmed(r, i)
  BY <1>3, <1>4 DEF Confirmed, Awaiting1
<1>7. ASSUME Persists
      PROVE  Recorded(RecordOf(r))'
  <2>1. Confirmed(r, i)'
    BY <1>6, <1>7, FactsStay
  <2> QED
    BY <2>1 DEF Recorded
<1> QED
  BY <1>2, <1>5, <1>7

LEMMA ConfirmArrivesStep ==
  ASSUME Inv, NEW r \in Acceptances, NEW m3 \in ConfirmsArriving, ConfirmArrives(r, m3)
  PROVE  Inv'
<1>1. /\ res[r].st = "SENT_REPLY" /\ ConfirmAcceptable(r, m3) /\ Trust(r, res[r].m1)
      /\ UNCHANGED <<ini, halfOpen, limiterVars>>
  BY DEF ConfirmArrives
<1>2. /\ m3 \in Confirms
      /\ pins' \in [Hosts -> [Ids -> Keys \union {NoKey}]] /\ PinsAuthentic'
      /\ Persists => Recorded(RecordOf(r))'
  BY <1>1, ConfirmVerified
<1>3. res[r].m1 \in Introductions
  BY <1>1 DEF Inv, Stages
<1>4. PICK m4 \in AcceptWritten(r, m3) :
        res' = [res EXCEPT ![r].st = "ACCEPTING", ![r].m3 = m3, ![r].m4 = m4, ![r].trust = "pinned"]
  BY DEF ConfirmArrives
<1>5. /\ m4 \in {NoMessage, AcceptOf(r, res[r].m1, m3)}
      /\ m4 \in Finals \union {NoMessage}
  BY <1>2, <1>3, <1>4, WrittenTypes
<1>6. res' = [res EXCEPT ![r] = Answering(res[r], "ACCEPTING", m3, m4, "pinned")]
  BY <1>4 DEF Inv, Types, Answering
<1>7. HostOf[r] \in Hosts
  BY ExchangesAssumption DEF Exchanges
<1>8. PICK x : x = RecordOf(r)
  OBVIOUS
<1>9. sessions' = [sessions EXCEPT ![HostOf[r]] = @ \union {x}]
  BY <1>8 DEF ConfirmArrives, RecordOf
<1>10. DOMAIN sessions' = Hosts /\ x \in sessions'[HostOf[r]]
       /\ \A h \in Hosts : /\ sessions[h] \subseteq sessions'[h]
                           /\ sessions'[h] \ sessions[h] \subseteq {x}
  BY <1>7, <1>9 DEF Inv, Types
<1>11. RecordOf(r)' = x
  <2>1. res'[r].m1 = res[r].m1
    <3>1. res[r] \in ResponderRecords
      BY DEF Inv, Types
    <3>2. PICK u : u = Answering(res[r], "ACCEPTING", m3, m4, "pinned")
      OBVIOUS
    <3>3. u.m1 = res[r].m1
      BY <3>1, <3>2 DEF Answering, ResponderRecords
    <3>4. res'[r] = u
      BY <1>6, <3>2 DEF Inv, Types
    <3> QED
      BY <3>3, <3>4
  <2> QED
    BY <1>8, <2>1 DEF RecordOf
<1>12. \A y \in {x} : Persists => Recorded(y)'
  <2>1. Persists => Recorded(x)'
    BY <1>2, <1>11 DEF Recorded
  <2> QED
    BY <2>1
<1> QED
  <2>1. \A h \in Hosts : /\ sessions[h] \subseteq sessions'[h]
                         /\ \A y \in sessions'[h] \ sessions[h] : Persists => Recorded(y)'
    BY <1>10, <1>12
  <2>2. m4 # NoMessage =>
          m4 = AcceptOf(r, res[r].m1, m3) /\ RecordOf(r) \in sessions'[HostOf[r]]
    BY <1>5, <1>8, <1>10
  <2> QED
    BY <1>1, <1>2, <1>5, <1>6, <1>10, <2>1, <2>2, AnswerKeeps

\* on_confirmed raises, message 3 does not verify, or it cannot be pinned.
LEMMA RejectStep ==
  ASSUME Inv, NEW r \in Acceptances, NEW m3 \in ConfirmsArriving,
         RecordingFails(r, m3) \/ ConfirmRefused(r, m3)
  PROVE  Inv'
<1>1. res[r].st = "SENT_REPLY" /\ UNCHANGED <<ini, halfOpen, sessions, limiterVars>>
  BY DEF RecordingFails, ConfirmRefused
<1>2. m3 \in Confirms \union {Malformed}
  BY ConfirmDelivered
<1>3. pins' \in [Hosts -> [Ids -> Keys \union {NoKey}]] /\ PinsAuthentic'
  <2>1. CASE RecordingFails(r, m3)
    BY <1>1, <2>1, ConfirmVerified DEF RecordingFails
  <2>2. CASE ConfirmRefused(r, m3)
    <3>1. pins' = pins
      BY <2>2 DEF ConfirmRefused
    <3>2. PinsAuthentic'
      BY <3>1 DEF Inv, PinsAuthentic
    <3> QED
      BY <3>1, <3>2 DEF Inv, Types
  <2> QED
    BY <2>1, <2>2
<1>4. res[r].m1 \in Introductions /\ res[r] \in ResponderRecords
  BY <1>1 DEF Inv, Stages, Types
<1>5. PICK m4 \in RejectWritten(r, m3), trust \in {"untouched", "pinned"} :
        res' = [res EXCEPT ![r] = Answering(res[r], "REJECTING", m3, m4, trust)]
  <2>1. CASE RecordingFails(r, m3)
    <3>1. PICK m4 \in RejectWritten(r, m3) :
            res' = [res EXCEPT ![r].st = "REJECTING", ![r].m3 = m3, ![r].m4 = m4,
                               ![r].trust = "pinned"]
      BY <2>1 DEF RecordingFails
    <3>2. res' = [res EXCEPT ![r] = Answering(res[r], "REJECTING", m3, m4, "pinned")]
      BY <3>1 DEF Inv, Types, Answering
    <3> QED
      BY <3>2
  <2>2. CASE ConfirmRefused(r, m3)
    <3>1. PICK m4 \in RejectWritten(r, m3) :
            res' = [res EXCEPT ![r].st = "REJECTING", ![r].m3 = m3, ![r].m4 = m4]
      BY <2>2 DEF ConfirmRefused
    <3>2. PICK t \in {"untouched", "pinned"} : t = res[r].trust
      BY <1>4 DEF ResponderRecords
    <3>3. PICK u : u = [res[r] EXCEPT !.st = "REJECTING", !.m3 = m3, !.m4 = m4]
      OBVIOUS
    <3>4. u = Answering(res[r], "REJECTING", m3, m4, t)
      BY <1>4, <3>2, <3>3 DEF ResponderRecords, Answering
    <3>5. res' = [res EXCEPT ![r] = u]
      BY <3>1, <3>3 DEF Inv, Types
    <3> QED
      BY <3>1, <3>2, <3>4, <3>5
  <2> QED
    BY <2>1, <2>2
<1>6. m4 \in {NoMessage, RejectOf(r, res[r].m1, m3)} /\ m4 \in Finals \union {NoMessage}
  BY <1>2, <1>4, <1>5, WrittenTypes
<1>7. DOMAIN sessions' = Hosts
  BY <1>1 DEF Inv, Types
<1> QED
  BY <1>1, <1>2, <1>3, <1>5, <1>6, <1>7, AnswerKeeps

----------------------------------------------------------------------------
(* The theorems *)

LEMMA InitInv == Init => Inv
<1> SUFFICES ASSUME Init
             PROVE  Inv
  OBVIOUS
<1>1. Types
  BY DEF Init, Types, InitiatorRecords, InitiatorStates, Outcomes, ResponderRecords, ResponderStates
<1>2. /\ \A i \in Initiations : ini[i].st = "IDLE" /\ ini[i].m2 = NoMessage /\ ini[i].outcome = "none"
      /\ \A r \in Acceptances : res[r].st = "NEW" /\ res[r].m1 = NoMessage /\ res[r].m4 = NoMessage
      /\ \A h \in Hosts : sessions[h] = {} /\ halfOpen[h] = 0
      /\ \A h \in Hosts : \A d \in Ids : pins[h][d] = NoKey
  BY DEF Init
<1>3. Stages
  BY <1>2 DEF Stages
<1>4. Knowledge
  BY <1>2 DEF Knowledge, InitiatorKnows, ResponderWrote
<1>5. PinsAuthentic
  BY <1>2 DEF PinsAuthentic
<1>6. HalfOpenExact
  <2>1. \A h \in Hosts : Open(h) = {}
    BY <1>2 DEF Open, Counted
  <2>2. \A h \in Hosts : halfOpen[h] = Cardinality(Open(h)) /\ halfOpen[h] <= MaxHalfOpen
    <3>1. Cardinality({}) = 0
      BY FS_EmptySet
    <3>2. 0 <= MaxHalfOpen
      BY MaxHalfOpenAssumption
    <3> QED
      BY <1>2, <2>1, <3>1, <3>2
  <2> QED
    BY <2>2 DEF HalfOpenExact, Open
<1>7. BucketInv
  BY BucketInitial DEF Init
<1> QED
  BY <1>1, <1>3, <1>4, <1>5, <1>6, <1>7 DEF Inv

\* A step that leaves the exchanges and the stores alone.
LEMMA IdleSteps ==
  ASSUME Inv, UNCHANGED <<ini, res, pins, halfOpen, sessions>>, Tick \/ UNCHANGED limiterVars
  PROVE  Inv'
<1>1. BucketInv'
  BY BucketSteps DEF Inv
<1>2. /\ Types'
      /\ Stages'
      /\ PinsAuthentic'
  BY DEF Inv, Types, Stages, PinsAuthentic
<1>3. Persists
  BY DEF Persists
<1>4. Knowledge'
  BY <1>3, InitiatorStays, ResponderStays, FactsStay DEF Inv, Knowledge
<1>5. HalfOpenExact'
  BY DEF Inv, HalfOpenExact
<1> QED
  BY <1>1, <1>2, <1>4, <1>5 DEF Inv

LEMMA NextInv == Inv /\ [Next]_vars => Inv'
<1> SUFFICES ASSUME Inv, [Next]_vars
             PROVE  Inv'
  OBVIOUS
<1>1. CASE UNCHANGED vars
  BY <1>1, IdleSteps DEF vars
<1>2. ASSUME NEW i \in Initiations, InitiatorStep(i)
      PROVE  Inv'
  BY <1>2, InitiateStep, ReplyArrivesStep, AcceptArrivesStep, InitiatorFailsStep DEF InitiatorStep
<1>3. ASSUME NEW r \in Acceptances, ResponderStep(r)
      PROVE  Inv'
  BY <1>3, AdmitStep, HelloArrivesStep, ConfirmArrivesStep, RejectStep, ResponderEndsStep
  DEF ResponderStep
<1>4. CASE Tick /\ UNCHANGED <<ini, res, pins, halfOpen, sessions>>
  BY <1>4, IdleSteps
<1> QED
  BY <1>1, <1>2, <1>3, <1>4 DEF Next

\* A record of a responder is that of one exchange only: the secrets name it.
LEMMA KnowledgeAgrees == Types /\ Knowledge => Agreement
<1> SUFFICES ASSUME Types, Knowledge
             PROVE  Agreement
  OBVIOUS
<1>1. InitiatorAgreement
  BY DEF Knowledge, InitiatorKnows, Answered, Holds, InitiatorAgreement
<1>2. RejectionAuthentic
  BY DEF Knowledge, InitiatorKnows, Rejected, RejectionAuthentic
<1>3. ResponderAgreement
  <2> SUFFICES ASSUME NEW r \in Acceptances, RecordOf(r) \in sessions[HostOf[r]]
               PROVE  \E i \in Initiations : /\ res[r].m1 = Hello(i)
                                             /\ ini[i].m2 = Reply(r, Hello(i))
                                             /\ PublicOf[HostOf[i]] = PrivateOf[HostOf[i]]
    BY DEF ResponderAgreement, RecordOf
  <2>1. HostOf[r] \in Hosts
    BY ExchangesAssumption DEF Exchanges
  <2>2. RecordOf(r).role = "responder"
    BY DEF RecordOf, Result
  <2>3. PICK q \in Acceptances, i \in Initiations : Confirmed(q, i) /\ RecordOf(r) = RecordOf(q)
    BY <2>1, <2>2 DEF Knowledge, Recorded
  <2>4. ResponderSecrets(r, res[r].m1) = ResponderSecrets(q, res[q].m1)
    BY <2>3 DEF RecordOf, Result
  <2>5. TranscriptT2(res[r].m1, Introduction(r)) = TranscriptT2(res[q].m1, Introduction(q))
    BY <2>4 DEF ResponderSecrets, Secrets
  <2>6. Introduction(r) = Introduction(q)
    BY <2>5 DEF TranscriptT2
  <2>7. r = q
    BY <2>6, IntroductionNames DEF Exchanges
  <2> QED
    BY <2>3, <2>7 DEF Confirmed, Holds
<1> QED
  BY <1>1, <1>2, <1>3 DEF Agreement

\* In every behaviour of handshake_v3.py the inductive invariant holds.
THEOREM V3Invariant == Spec => []Inv
BY InitInv, NextInv, PTL DEF Spec

\* Whatever connections mix up, repeat, change or lose: an initiator that is
\* confirmed, a session that a responder has recorded and an authenticated
\* rejection each have one exchange of the other end that agrees with them on
\* both introductions, on message 2 and on the secrets, and that holds the key
\* it shows.
THEOREM V3Agreement == Spec => []Agreement
<1>1. Inv => Agreement
  BY KnowledgeAgrees DEF Inv
<1> QED
  BY <1>1, V3Invariant, PTL

\* Neither end ever pins a key for an id unless a host goes by that id and
\* holds that key.
THEOREM V3PinsAuthentic == Spec => []PinsAuthentic
<1>1. Inv => PinsAuthentic
  BY DEF Inv
<1> QED
  BY <1>1, V3Invariant, PTL

\* On every path through an exchange the half-open counter of a host is the
\* number of its exchanges between message 2 and message 4, and at most the cap.
THEOREM V3HalfOpen == Spec => []HalfOpenInv
<1>1. Inv => HalfOpenInv
  <2> SUFFICES ASSUME Inv
               PROVE  TypeOK /\ HalfOpenExact
    BY DEF HalfOpenInv
  <2>1. \A i \in Initiations : ini[i].st \in InitiatorStates /\ ini[i].outcome \in Outcomes
    BY DEF Inv, Types, InitiatorRecords
  <2>2. \A r \in Acceptances : res[r].st \in ResponderStates
    BY DEF Inv, Types, ResponderRecords
  <2> QED
    BY <2>1, <2>2 DEF Inv, Types, BucketInv, TypeOK
<1> QED
  BY <1>1, V3Invariant, PTL

\* From any moment on the token bucket lets no more handshakes through than
\* the burst and the rate since then account for (handshake_rate_limit.py).
THEOREM V3BurstAndRate == Spec => []BurstAndRate
<1>1. Inv => BurstAndRate
  BY BucketRate DEF Inv
<1> QED
  BY <1>1, V3Invariant, PTL
=============================================================================
