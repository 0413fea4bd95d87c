------------------------ MODULE SecureChannelProofs ------------------------
(***************************************************************************)
(* Proofs about SecureChannel, for any number of devices and sessions and  *)
(* any window, counter and inbox size: ChannelInv is inductive, and the    *)
(* properties of the channel follow from it.                               *)
(***************************************************************************)
EXTENDS SecureChannel, SequenceTheorems, TLAPS

\* The frame seal makes is a frame, of the sender's direction.
LEMMA NextFrameType ==
  ASSUME TypeOK, NEW d \in Devices, NEW s \in Sids, NEW k \in Kinds,
         sent[d][s] < MaxMessages[d], d \in {Initiator[s], Responder[s]}
  PROVE  /\ NextFrame(d, s, k) \in Frames
         /\ Sender(NextFrame(d, s, k)) = d
         /\ NextFrame(d, s, k).sid = s
         /\ NextFrame(d, s, k).ctr = sent[d][s] + 1
         /\ NextFrame(d, s, k).dir = Outgoing(d, s)
         /\ NextFrame(d, s, k).body = "sealed"
<1>1. sent[d][s] \in 0 .. MaxCounter /\ MaxMessages[d] \in 0 .. MaxCounter
  BY BoundsAssumption DEF TypeOK
<1>2. sent[d][s] + 1 \in Counters
  BY <1>1, BoundsAssumption DEF Counters
<1>3. Outgoing(d, s) \in Directions
  BY DEF Outgoing, Directions
<1>4. Sender(NextFrame(d, s, k)) = d
  BY RolesAssumption DEF Sender, NextFrame, Outgoing
<1> QED
  BY <1>2, <1>3, <1>4 DEF NextFrame, Frames

\* The receive window after accept() is a window, one counter on.
LEMMA AdmittedType ==
  ASSUME NEW w \in [highest : 0 .. MaxCounter, admitted : [Counters -> 0 .. 1]],
         NEW c \in Counters
  PROVE  /\ Admitted(w, c) \in [highest : 0 .. MaxCounter, admitted : [Counters -> 0 .. 1]]
         /\ Admitted(w, c).admitted[c] = 1
         /\ \A x \in Counters : w.admitted[x] <= Admitted(w, c).admitted[x]
         /\ Admitted(w, c).highest \in {w.highest, c}
<1>1. c \in 0 .. MaxCounter
  BY BoundsAssumption DEF Counters
<1>2. [w.admitted EXCEPT ![c] = 1] \in [Counters -> 0 .. 1]
  OBVIOUS
<1>3. \A x \in Counters : w.admitted[x] <= [w.admitted EXCEPT ![c] = 1][x]
  OBVIOUS
<1> QED
  BY <1>1, <1>2, <1>3 DEF Admitted

\* What a call of seal does to the invariant, whoever makes it.
LEMMA SealStep ==
  ASSUME ChannelInv, NEW d \in Devices, NEW s \in Sids, NEW k \in Kinds,
         Seal(d, s, k), d \in {Initiator[s], Responder[s]},
         d = Responder[s] => sent[Initiator[s]][s] > 0,
         UNCHANGED <<end, window, delivered>>
  PROVE  /\ sent' \in [Devices -> [Sids -> 0 .. MaxCounter]]
         /\ sealed' \subseteq Frames
         /\ sealed \subseteq sealed'
         /\ SealedUpToSent'
         /\ NonceUnique'
         /\ ResponderWaitsForProof'
         /\ WindowBehindSender'
<1> DEFINE n == NextFrame(d, s, k)
<1>1. /\ TypeOK /\ SealedUpToSent /\ NonceUnique
      /\ ResponderWaitsForProof /\ WindowBehindSender
  BY DEF ChannelInv
<1>2. /\ sent[d][s] < MaxMessages[d]
      /\ sent' = [sent EXCEPT ![d][s] = @ + 1]
      /\ sealed' = sealed \union {n}
  BY DEF Seal
<1>3. /\ n \in Frames /\ Sender(n) = d /\ n.sid = s /\ n.ctr = sent[d][s] + 1
      /\ n.dir = Outgoing(d, s) /\ n.body = "sealed"
  BY <1>1, <1>2, NextFrameType
<1>4. sent \in [Devices -> [Sids -> 0 .. MaxCounter]]
  BY <1>1 DEF TypeOK
<1>5. sent[d][s] + 1 \in 0 .. MaxCounter
  BY <1>2, <1>4, BoundsAssumption
<1>6. sent' \in [Devices -> [Sids -> 0 .. MaxCounter]]
  BY <1>2, <1>4, <1>5
<1>7. sealed' \subseteq Frames /\ sealed \subseteq sealed'
  BY <1>1, <1>2, <1>3 DEF TypeOK
<1>8. \A e \in Devices, t \in Sids : sent[e][t] <= sent'[e][t]
  BY <1>2, <1>4
<1>9. sent'[d][s] = sent[d][s] + 1
  BY <1>2, <1>4
<1>10. \A f \in Frames : Sender(f) \in Devices /\ f.sid \in Sids /\ f.ctr \in Nat \ {0}
  BY RolesAssumption, BoundsAssumption DEF Sender, Frames, Counters
<1>11. SealedUpToSent'
  <2> SUFFICES ASSUME NEW f \in sealed'
               PROVE  f.body = "sealed" /\ f.ctr <= sent'[Sender(f)][f.sid]
    BY DEF SealedUpToSent, Sender
  <2>1. CASE f \in sealed
    <3>1. f \in Frames
      BY <2>1, <1>1 DEF TypeOK
    <3>2. f.body = "sealed" /\ f.ctr <= sent[Sender(f)][f.sid]
      BY <2>1, <1>1 DEF SealedUpToSent
    <3>3. sent[Sender(f)][f.sid] \in Nat /\ sent'[Sender(f)][f.sid] \in Nat
      BY <3>1, <1>10, <1>4, <1>6
    <3> QED
      BY <3>1, <3>2, <3>3, <1>8, <1>10
  <2>2. CASE f = n
    <3>1. sent'[d][s] \in Nat
      BY <1>6
    <3> HIDE DEF n
    <3> QED
      BY <3>1, <2>2, <1>3, <1>9
  <2> QED
    BY <2>1, <2>2, <1>2
<1>12. NonceUnique'
  <2>1. \A f \in sealed : ~(f.sid = n.sid /\ f.dir = n.dir /\ f.ctr = n.ctr)
    <3> SUFFICES ASSUME NEW f \in sealed, f.sid = n.sid, f.dir = n.dir, f.ctr = n.ctr
                 PROVE  FALSE
      OBVIOUS
    <3>1. Sender(f) = Sender(n)
      BY DEF Sender
    <3>2. f.ctr <= sent[Sender(f)][f.sid]
      BY <1>1 DEF SealedUpToSent
    <3>3. sent[d][s] \in Nat
      BY <1>4
    <3> HIDE DEF n
    <3> QED
      BY <3>1, <3>2, <3>3, <1>3
  <2> HIDE DEF n
  <2> QED
    BY <2>1, <1>1, <1>2 DEF NonceUnique
<1>13. ResponderWaitsForProof'
  <2> SUFFICES ASSUME NEW t \in Sids,
                      end[Responder[t]][t] = "confirmed" \/ sent'[Responder[t]][t] > 0
               PROVE  sent'[Initiator[t]][t] > 0
    BY DEF ResponderWaitsForProof
  <2>1. Initiator[t] \in Devices /\ Responder[t] \in Devices /\ Initiator[t] # Responder[t]
    BY RolesAssumption
  <2>2. sent[Initiator[t]][t] \in Nat /\ sent'[Initiator[t]][t] \in Nat
    BY <2>1, <1>4, <1>6
  <2>3. CASE d = Responder[t] /\ s = t
    BY <2>1, <2>2, <2>3, <1>8
  <2>4. CASE ~(d = Responder[t] /\ s = t)
    <3>1. sent'[Responder[t]][t] = sent[Responder[t]][t]
      BY <2>1, <2>4, <1>2, <1>4
    <3>2. sent[Initiator[t]][t] > 0
      BY <3>1, <1>1 DEF ResponderWaitsForProof
    <3> QED
      BY <3>2, <2>1, <2>2, <1>8
  <2> QED
    BY <2>3, <2>4
<1>14. WindowBehindSender'
  <2> SUFFICES ASSUME NEW t \in Sids
               PROVE  /\ window[Responder[t]][t].highest <= sent'[Initiator[t]][t]
                      /\ window[Initiator[t]][t].highest <= sent'[Responder[t]][t]
    BY DEF WindowBehindSender
  <2>1. Initiator[t] \in Devices /\ Responder[t] \in Devices
    BY RolesAssumption
  <2>2. \A e \in Devices : sent[e][t] \in Nat /\ sent'[e][t] \in Nat
                             /\ window[e][t].highest \in Nat
    BY <1>1, <1>4, <1>6 DEF TypeOK
  <2> QED
    BY <2>1, <2>2, <1>1, <1>8 DEF WindowBehindSender
<1> QED
  BY <1>6, <1>7, <1>11, <1>12, <1>13, <1>14

\* What a successful call of open does to the invariant, whichever task
\* makes it.
LEMMA OpenStep ==
  ASSUME ChannelInv, NEW d \in Devices, NEW f \in Frames, Open(d, f),
         UNCHANGED <<sent, sealed>>
  PROVE  /\ end' \in [Devices -> [Sids -> EndStates]]
         /\ window' \in [Devices ->
              [Sids -> [highest : 0 .. MaxCounter, admitted : [Counters -> 0 .. 1]]]]
         /\ delivered' \in [Devices -> [Frames -> Nat]]
         /\ f \in sealed /\ d = Receiver(f)
         /\ OnlyEnds'
         /\ DeliveredAdmitted'
         /\ DeliveredFromPeer'
         /\ ResponderWaitsForProof'
         /\ WindowBehindSender'
<1> DEFINE Win == [highest : 0 .. MaxCounter, admitted : [Counters -> 0 .. 1]]
<1> DEFINE s == f.sid
<1> DEFINE c == f.ctr
<1> DEFINE w == window[d][s]
<1>1. /\ TypeOK /\ SealedUpToSent /\ OnlyEnds /\ DeliveredAdmitted
      /\ DeliveredFromPeer /\ ResponderWaitsForProof /\ WindowBehindSender
  BY DEF ChannelInv
<1>2. s \in Sids /\ c \in Counters /\ f.dir \in Directions
  BY DEF Frames
<1>3. /\ end \in [Devices -> [Sids -> EndStates]]
      /\ window \in [Devices -> [Sids -> Win]]
      /\ delivered \in [Devices -> [Frames -> Nat]]
      /\ sent \in [Devices -> [Sids -> 0 .. MaxCounter]]
  BY <1>1 DEF TypeOK
<1>4. /\ end[d][s] \in {"unconfirmed", "confirmed"}
      /\ f.dir = Incoming(d, s)
      /\ w.admitted[c] = 0
      /\ f \in sealed
  BY DEF Open, Acceptable, Recorded, Authentic, Replay!Admissible
<1>5. /\ window' = [window EXCEPT ![d][s] = Admitted(w, c)]
      /\ end' = [end EXCEPT ![d][s] =
                   IF d = Responder[s] THEN "confirmed" ELSE end[d][s]]
      /\ delivered' = [delivered EXCEPT ![d][f] = delivered[d][f] + 1]
  BY DEF Open
<1>6. w \in Win /\ Admitted(w, c) \in Win
  <2>1. w \in Win
    BY <1>2, <1>3
  <2> HIDE DEF w, c
  <2> QED
    BY <2>1, <1>2, AdmittedType
<1>7. /\ Admitted(w, c).admitted[c] = 1
      /\ \A x \in Counters : w.admitted[x] <= Admitted(w, c).admitted[x]
      /\ Admitted(w, c).highest \in {w.highest, c}
  BY <1>2, <1>6, AdmittedType
<1>8. d \in {Initiator[s], Responder[s]}
  BY <1>1, <1>2, <1>4 DEF OnlyEnds
<1>9. Initiator[s] \in Devices /\ Responder[s] \in Devices /\ Initiator[s] # Responder[s]
  BY <1>2, RolesAssumption
<1>10. d = Receiver(f)
  BY <1>4, <1>8, <1>9 DEF Receiver, Incoming
<1>11. end' \in [Devices -> [Sids -> EndStates]]
  BY <1>2, <1>3, <1>5 DEF EndStates
<1>12. window' \in [Devices -> [Sids -> Win]]
  <2> HIDE DEF w, s, c, Win
  <2> QED
    BY <1>2, <1>3, <1>5, <1>6
<1>13. delivered' \in [Devices -> [Frames -> Nat]]
  BY <1>3, <1>5
<1>14. OnlyEnds'
  <2> HIDE DEF s
  <2> QED
    BY <1>1, <1>2, <1>3, <1>5, <1>8 DEF OnlyEnds
<1>15. \A e \in Devices, t \in Sids :
         \/ e = d /\ t = s /\ window'[e][t] = Admitted(w, c)
         \/ ~(e = d /\ t = s) /\ window'[e][t] = window[e][t]
  <2> HIDE DEF w, s, c, Win
  <2> QED
    BY <1>2, <1>3, <1>5
<1>16. \A e \in Devices, g \in Frames :
         \/ e = d /\ g = f /\ delivered'[e][g] = delivered[d][f] + 1
         \/ ~(e = d /\ g = f) /\ delivered'[e][g] = delivered[e][g]
  BY <1>3, <1>5
<1>17. DeliveredAdmitted'
  <2> SUFFICES ASSUME NEW e \in Devices, NEW g \in Frames
               PROVE  delivered'[e][g] <= window'[e][g.sid].admitted[g.ctr]
    BY DEF DeliveredAdmitted
  <2>1. g.sid \in Sids /\ g.ctr \in Counters
    BY DEF Frames
  <2>2. window[e][g.sid] \in Win /\ window'[e][g.sid] \in Win
    BY <2>1, <1>3, <1>12
  <2>3. /\ window[e][g.sid].admitted[g.ctr] \in 0 .. 1
        /\ window'[e][g.sid].admitted[g.ctr] \in 0 .. 1
    BY <2>1, <2>2
  <2>4. window[e][g.sid].admitted[g.ctr] <= window'[e][g.sid].admitted[g.ctr]
    <3> HIDE DEF Win
    <3> QED
      BY <2>1, <2>3, <1>7, <1>15
  <2>5. delivered[e][g] \in Nat /\ delivered[d][f] \in Nat
    BY <1>3
  <2>6. delivered[e][g] <= window[e][g.sid].admitted[g.ctr]
    BY <1>1 DEF DeliveredAdmitted
  <2>7. CASE e = d /\ g = f
    <3>1. delivered[d][f] = 0
      BY <2>5, <2>6, <2>7, <1>4
    <3>2. delivered'[e][g] = 1
      BY <3>1, <2>7, <1>16
    <3>3. window'[e][g.sid].admitted[g.ctr] = 1
      BY <2>1, <2>7, <1>7, <1>15
    <3> QED
      BY <3>2, <3>3
  <2>8. CASE ~(e = d /\ g = f)
    <3>1. delivered'[e][g] = delivered[e][g]
      BY <2>8, <1>16
    <3> QED
      BY <3>1, <2>3, <2>4, <2>5, <2>6
  <2> QED
    BY <2>7, <2>8
<1>18. DeliveredFromPeer'
  BY <1>1, <1>4, <1>10, <1>16 DEF DeliveredFromPeer, Receiver
<1>19. Sender(f) \in Devices /\ 0 < c /\ c <= sent[Sender(f)][s] /\ sent[Sender(f)][s] \in Nat
  <2>1. Sender(f) \in Devices
    BY <1>9 DEF Sender
  <2>2. c \in Nat /\ 0 < c
    BY <1>2, BoundsAssumption DEF Counters
  <2>3. c <= sent[Sender(f)][s]
    BY <1>1, <1>4 DEF SealedUpToSent
  <2>4. sent[Sender(f)][s] \in Nat
    BY <2>1, <1>2, <1>3
  <2> QED
    BY <2>1, <2>2, <2>3, <2>4
<1>20. /\ d = Responder[s] => Sender(f) = Initiator[s]
       /\ d = Initiator[s] => Sender(f) = Responder[s]
  BY <1>9, <1>10 DEF Sender, Receiver
<1>21. ResponderWaitsForProof'
  <2> SUFFICES ASSUME NEW t \in Sids,
                      end'[Responder[t]][t] = "confirmed" \/ sent[Responder[t]][t] > 0
               PROVE  sent[Initiator[t]][t] > 0
    BY DEF ResponderWaitsForProof
  <2>1. CASE d = Responder[t] /\ t = s
    <3> HIDE DEF s, c
    <3> QED
      BY <2>1, <1>2, <1>19, <1>20, BoundsAssumption DEF Counters
  <2>2. CASE ~(d = Responder[t] /\ t = s)
    <3>1. Responder[t] \in Devices
      BY RolesAssumption
    <3>2. end'[Responder[t]][t] = end[Responder[t]][t]
      BY <3>1, <2>2, <1>2, <1>3, <1>5
    <3> QED
      BY <3>2, <1>1 DEF ResponderWaitsForProof
  <2> QED
    BY <2>1, <2>2
<1>22. WindowBehindSender'
  <2> SUFFICES ASSUME NEW t \in Sids
               PROVE  /\ window'[Responder[t]][t].highest <= sent[Initiator[t]][t]
                      /\ window'[Initiator[t]][t].highest <= sent[Responder[t]][t]
    BY DEF WindowBehindSender
  <2>1. Initiator[t] \in Devices /\ Responder[t] \in Devices
    BY RolesAssumption
  <2>2. /\ window[Responder[t]][t].highest <= sent[Initiator[t]][t]
        /\ window[Initiator[t]][t].highest <= sent[Responder[t]][t]
    BY <1>1 DEF WindowBehindSender
  <2> HIDE DEF w, s, c, Win
  <2>3. window'[Responder[t]][t].highest <= sent[Initiator[t]][t]
    <3>1. CASE Responder[t] = d /\ t = s
      <4>1. /\ window'[Responder[t]][t] = Admitted(w, c)
            /\ sent[Initiator[t]][t] = sent[Sender(f)][s]
        BY <3>1, <2>1, <1>15, <1>20
      <4>2. w.highest <= sent[Sender(f)][s]
        BY <3>1, <2>2, <1>20 DEF w
      <4> QED
        BY <4>1, <4>2, <1>7, <1>19
    <3>2. CASE ~(Responder[t] = d /\ t = s)
      BY <3>2, <2>1, <2>2, <1>15
    <3> QED
      BY <3>1, <3>2
  <2>4. window'[Initiator[t]][t].highest <= sent[Responder[t]][t]
    <3>1. CASE Initiator[t] = d /\ t = s
      <4>1. /\ window'[Initiator[t]][t] = Admitted(w, c)
            /\ sent[Responder[t]][t] = sent[Sender(f)][s]
        BY <3>1, <2>1, <1>15, <1>20
      <4>2. w.highest <= sent[Sender(f)][s]
        BY <3>1, <2>2, <1>20 DEF w
      <4> QED
        BY <4>1, <4>2, <1>7, <1>19
    <3>2. CASE ~(Initiator[t] = d /\ t = s)
      BY <3>2, <2>1, <2>2, <1>15
    <3> QED
      BY <3>1, <3>2
  <2> QED
    BY <2>3, <2>4
<1> QED
  BY <1>4, <1>10, <1>11, <1>12, <1>13, <1>14, <1>17, <1>18, <1>21, <1>22

\* ChannelInv holds initially.
LEMMA InitChannelInv == Init => ChannelInv
<1> SUFFICES ASSUME Init PROVE ChannelInv
  OBVIOUS
<1>1. NewWindow \in [highest : 0 .. MaxCounter, admitted : [Counters -> 0 .. 1]]
  BY BoundsAssumption DEF NewWindow
<1>2. <<>> \in Seq(Frames) /\ Len(<<>>) = 0
  OBVIOUS
<1>3. /\ end \in [Devices -> [Sids -> EndStates]]
      /\ sent \in [Devices -> [Sids -> 0 .. MaxCounter]]
      /\ delivered \in [Devices -> [Frames -> Nat]]
      /\ sealed \subseteq Frames
      /\ awaiting \in [Devices -> SUBSET Frames]
      /\ serving \in [Devices -> SUBSET Frames]
  BY BoundsAssumption DEF Init, EndStates
<1>4. window \in [Devices -> [Sids ->
         [highest : 0 .. MaxCounter, admitted : [Counters -> 0 .. 1]]]]
  BY <1>1 DEF Init
<1>5. /\ inbox \in [Devices -> Seq(Frames)]
      /\ \A d \in Devices : Len(inbox[d]) <= InboxMaxSize
  BY <1>2, BoundsAssumption DEF Init
<1>6. TypeOK
  BY <1>3, <1>4, <1>5 DEF TypeOK
<1>7. SealedUpToSent /\ ServingFromPeer /\ NonceUnique
  BY DEF Init, SealedUpToSent, ServingFromPeer, NonceUnique
<1>8. OnlyEnds
  BY DEF Init, OnlyEnds
<1>9. DeliveredFromPeer
  BY DEF Init, DeliveredFromPeer
<1>10. DeliveredAdmitted
  BY DEF Init, DeliveredAdmitted, NewWindow, Frames
<1>11. ResponderWaitsForProof /\ WindowBehindSender
  BY RolesAssumption DEF Init, ResponderWaitsForProof, WindowBehindSender, NewWindow
<1> QED
  BY <1>6, <1>7, <1>8, <1>9, <1>10, <1>11 DEF ChannelInv

\* A step that only changes what a device holds of a session, other than to
\* confirm a responder's end, keeps the invariant.
LEMMA EndStep ==
  ASSUME ChannelInv,
         end' \in [Devices -> [Sids -> EndStates]],
         \A d \in Devices, s \in Sids :
           end'[d][s] # "none" => d \in {Initiator[s], Responder[s]},
         \A s \in Sids :
           end'[Responder[s]][s] = "confirmed" => end[Responder[s]][s] = "confirmed",
         UNCHANGED <<sent, window, sealed, delivered>>,
         inbox' \in [Devices -> Seq(Frames)],
         \A d \in Devices : Len(inbox'[d]) <= InboxMaxSize,
         awaiting' \in [Devices -> SUBSET Frames],
         serving' \in [Devices -> SUBSET Frames],
         \A d \in Devices : serving'[d] \subseteq serving[d]
  PROVE  ChannelInv'
<1>1. TypeOK'
  BY DEF ChannelInv, TypeOK
<1>2. SealedUpToSent' /\ NonceUnique' /\ DeliveredAdmitted' /\ DeliveredFromPeer'
        /\ WindowBehindSender'
  BY DEF ChannelInv, SealedUpToSent, NonceUnique, DeliveredAdmitted,
         DeliveredFromPeer, WindowBehindSender, Sender, Receiver
<1>3. OnlyEnds'
  BY DEF OnlyEnds
<1>4. ServingFromPeer'
  BY DEF ChannelInv, ServingFromPeer, Receiver
<1>5. ResponderWaitsForProof'
  BY DEF ChannelInv, ResponderWaitsForProof
<1> QED
  BY <1>1, <1>2, <1>3, <1>4, <1>5 DEF ChannelInv

\* A step that seals one frame and answers or drops requests keeps it.
LEMMA SealPreserves ==
  ASSUME ChannelInv, NEW d \in Devices, NEW s \in Sids, NEW k \in Kinds,
         Seal(d, s, k), d \in {Initiator[s], Responder[s]},
         d = Responder[s] => sent[Initiator[s]][s] > 0,
         UNCHANGED <<end, window, delivered, inbox>>,
         awaiting' \in [Devices -> SUBSET Frames],
         serving' \in [Devices -> SUBSET Frames],
         \A e \in Devices : serving'[e] \subseteq serving[e]
  PROVE  ChannelInv'
<1>1. /\ sent' \in [Devices -> [Sids -> 0 .. MaxCounter]]
      /\ sealed' \subseteq Frames
      /\ sealed \subseteq sealed'
      /\ SealedUpToSent' /\ NonceUnique'
      /\ ResponderWaitsForProof' /\ WindowBehindSender'
  BY SealStep
<1>2. TypeOK'
  BY <1>1 DEF ChannelInv, TypeOK
<1>3. OnlyEnds' /\ DeliveredAdmitted'
  BY DEF ChannelInv, OnlyEnds, DeliveredAdmitted
<1>4. ServingFromPeer'
  BY <1>1 DEF ChannelInv, ServingFromPeer, Receiver
<1>5. DeliveredFromPeer'
  BY <1>1 DEF ChannelInv, DeliveredFromPeer, Receiver
<1> QED
  BY <1>1, <1>2, <1>3, <1>4, <1>5 DEF ChannelInv

\* A step that opens one frame and may start serving it keeps it.
LEMMA OpenPreserves ==
  ASSUME ChannelInv, NEW d \in Devices, NEW f \in Frames, Open(d, f),
         UNCHANGED <<sent, sealed>>,
         inbox' \in [Devices -> Seq(Frames)],
         \A e \in Devices : Len(inbox'[e]) <= InboxMaxSize,
         awaiting' \in [Devices -> SUBSET Frames],
         serving' \in [Devices -> SUBSET Frames],
         \A e \in Devices : \A q \in serving'[e] : q \in serving[e] \/ (e = d /\ q = f)
  PROVE  ChannelInv'
<1>1. /\ end' \in [Devices -> [Sids -> EndStates]]
      /\ window' \in [Devices ->
           [Sids -> [highest : 0 .. MaxCounter, admitted : [Counters -> 0 .. 1]]]]
      /\ delivered' \in [Devices -> [Frames -> Nat]]
      /\ f \in sealed /\ d = Receiver(f)
      /\ OnlyEnds' /\ DeliveredAdmitted' /\ DeliveredFromPeer'
      /\ ResponderWaitsForProof' /\ WindowBehindSender'
  BY OpenStep
<1>2. TypeOK'
  BY <1>1 DEF ChannelInv, TypeOK
<1>3. SealedUpToSent' /\ NonceUnique'
  BY DEF ChannelInv, SealedUpToSent, NonceUnique, Sender
<1>4. ServingFromPeer'
  BY <1>1 DEF ChannelInv, ServingFromPeer, Receiver
<1> QED
  BY <1>1, <1>2, <1>3, <1>4 DEF ChannelInv

\* Every step preserves ChannelInv: one case per action.
LEMMA NextChannelInv == ChannelInv /\ [Next]_vars => ChannelInv'
<1> SUFFICES ASSUME ChannelInv, [Next]_vars PROVE ChannelInv'
  OBVIOUS
<1>1. /\ TypeOK /\ OnlyEnds /\ ServingFromPeer /\ SealedUpToSent
      /\ DeliveredAdmitted /\ DeliveredFromPeer /\ ResponderWaitsForProof
  BY DEF ChannelInv
<1>2. /\ end \in [Devices -> [Sids -> EndStates]]
      /\ inbox \in [Devices -> Seq(Frames)]
      /\ \A d \in Devices : Len(inbox[d]) <= InboxMaxSize
      /\ awaiting \in [Devices -> SUBSET Frames]
      /\ serving \in [Devices -> SUBSET Frames]
      /\ sealed \subseteq Frames
  BY <1>1 DEF TypeOK
<1>3. \A s \in Sids : /\ Initiator[s] \in Devices /\ Responder[s] \in Devices
                      /\ Initiator[s] # Responder[s]
  BY RolesAssumption
<1>4. OnTheWire \subseteq Frames
  BY <1>2 DEF OnTheWire, Altered
<1>5. ASSUME NEW s \in Sids, Accept(s) PROVE ChannelInv'
  <2>1. PICK e \in {"pending", "gone"} :
          end' = [end EXCEPT ![Responder[s]][s] = "pending", ![Initiator[s]][s] = e]
    BY <1>5 DEF Accept
  <2>2. end' \in [Devices -> [Sids -> EndStates]]
    BY <2>1, <1>2, <1>3 DEF EndStates
  <2>3. \A d \in Devices, t \in Sids :
          end'[d][t] # "none" => d \in {Initiator[t], Responder[t]}
    BY <2>1, <1>1, <1>2, <1>3 DEF OnlyEnds
  <2>4. \A t \in Sids : end'[Responder[t]][t] = "confirmed" =>
                          end[Responder[t]][t] = "confirmed"
    BY <2>1, <1>2, <1>3
  <2> QED
    BY <2>2, <2>3, <2>4, <1>2, <1>5, EndStep DEF Accept
<1>6. ASSUME NEW s \in Sids, RecordInitiator(s) PROVE ChannelInv'
  <2>1. end' = [end EXCEPT ![Initiator[s]][s] = "confirmed"]
    BY <1>6 DEF RecordInitiator
  <2>2. end' \in [Devices -> [Sids -> EndStates]]
    BY <2>1, <1>2, <1>3 DEF EndStates
  <2>3. \A d \in Devices, t \in Sids :
          end'[d][t] # "none" => d \in {Initiator[t], Responder[t]}
    BY <2>1, <1>1, <1>2, <1>3 DEF OnlyEnds
  <2>4. \A t \in Sids : end'[Responder[t]][t] = "confirmed" =>
                          end[Responder[t]][t] = "confirmed"
    BY <2>1, <1>2, <1>3
  <2> QED
    BY <2>2, <2>3, <2>4, <1>2, <1>6, EndStep DEF RecordInitiator
<1>7. ASSUME NEW s \in Sids, RecordResponder(s) PROVE ChannelInv'
  <2>1. end' = [end EXCEPT ![Responder[s]][s] = "unconfirmed"]
    BY <1>7 DEF RecordResponder
  <2>2. end' \in [Devices -> [Sids -> EndStates]]
    BY <2>1, <1>2, <1>3 DEF EndStates
  <2>3. \A d \in Devices, t \in Sids :
          end'[d][t] # "none" => d \in {Initiator[t], Responder[t]}
    BY <2>1, <1>1, <1>2, <1>3 DEF OnlyEnds
  <2>4. \A t \in Sids : end'[Responder[t]][t] = "confirmed" =>
                          end[Responder[t]][t] = "confirmed"
    BY <2>1, <1>2, <1>3
  <2> QED
    BY <2>2, <2>3, <2>4, <1>2, <1>7, EndStep DEF RecordResponder
<1>8. ASSUME NEW d \in Devices, NEW s \in Sids, Forget(d, s) PROVE ChannelInv'
  <2>1. end' = [end EXCEPT ![d][s] = "gone"] /\ end[d][s] # "none"
    BY <1>8 DEF Forget, Recorded
  <2>2. end' \in [Devices -> [Sids -> EndStates]]
    BY <2>1, <1>2 DEF EndStates
  <2>3. \A e \in Devices, t \in Sids :
          end'[e][t] # "none" => e \in {Initiator[t], Responder[t]}
    BY <2>1, <1>1, <1>2 DEF OnlyEnds
  <2>4. \A t \in Sids : end'[Responder[t]][t] = "confirmed" =>
                          end[Responder[t]][t] = "confirmed"
    BY <2>1, <1>2, <1>3
  <2> QED
    BY <2>2, <2>3, <2>4, <1>2, <1>8, EndStep DEF Forget
<1>9. ASSUME NEW d \in Devices, Restart(d) PROVE ChannelInv'
  <2>1. /\ end' = [end EXCEPT ![d] = [s \in Sids |->
                     IF end[d][s] = "none" THEN "none" ELSE "gone"]]
        /\ inbox' = [inbox EXCEPT ![d] = <<>>]
        /\ awaiting' = [awaiting EXCEPT ![d] = {}]
        /\ serving' = [serving EXCEPT ![d] = {}]
        /\ UNCHANGED <<sent, window, sealed, delivered>>
    BY <1>9 DEF Restart
  <2>2. end' \in [Devices -> [Sids -> EndStates]]
    BY <2>1, <1>2 DEF EndStates
  <2>3. \A e \in Devices, t \in Sids :
          end'[e][t] # "none" => e \in {Initiator[t], Responder[t]}
    BY <2>1, <1>1, <1>2 DEF OnlyEnds
  <2>4. \A t \in Sids : end'[Responder[t]][t] = "confirmed" =>
                          end[Responder[t]][t] = "confirmed"
    BY <2>1, <1>2, <1>3
  <2>5. inbox' \in [Devices -> Seq(Frames)]
    BY <2>1, <1>2
  <2>6. \A e \in Devices : Len(inbox'[e]) <= InboxMaxSize
    BY <2>1, <1>2, BoundsAssumption
  <2>7. /\ awaiting' \in [Devices -> SUBSET Frames]
        /\ serving' \in [Devices -> SUBSET Frames]
        /\ \A e \in Devices : serving'[e] \subseteq serving[e]
    BY <2>1, <1>2
  <2> QED
    BY <2>1, <2>2, <2>3, <2>4, <2>5, <2>6, <2>7, EndStep
<1>10. /\ \A e \in Devices, t \in Sids :
            end[e][t] # "none" => e \in {Initiator[t], Responder[t]}
       /\ \A e \in Devices : serving[e] \subseteq serving[e]
  BY <1>1 DEF OnlyEnds
<1>11. ASSUME NEW d \in Devices, NEW s \in Sids, end[d][s] = "confirmed"
       PROVE  /\ d \in {Initiator[s], Responder[s]}
              /\ d = Responder[s] => sent[Initiator[s]][s] > 0
  BY <1>1, <1>11 DEF OnlyEnds, ResponderWaitsForProof
<1>12. ASSUME NEW d \in Devices, NEW s \in Sids, SendChunk(d, s) PROVE ChannelInv'
  <2>1. "chunk" \in Kinds
    BY DEF Kinds
  <2> QED
    BY <2>1, <1>2, <1>10, <1>11, <1>12, SealPreserves DEF SendChunk
<1>13. ASSUME NEW d \in Devices, NEW f \in OnTheWire, ChunkArrives(d, f) PROVE ChannelInv'
  <2>1. /\ inbox' = [inbox EXCEPT ![d] = Append(inbox[d], f)]
        /\ Len(inbox[d]) < InboxMaxSize
        /\ UNCHANGED <<end, sent, window, sealed, awaiting, serving, delivered>>
    BY <1>13 DEF ChunkArrives
  <2>2. /\ inbox[d] \in Seq(Frames) /\ Append(inbox[d], f) \in Seq(Frames)
        /\ Len(Append(inbox[d], f)) = Len(inbox[d]) + 1
        /\ Len(inbox[d]) \in Nat
    BY <1>2, <1>4
  <2>3. inbox' \in [Devices -> Seq(Frames)]
    BY <2>1, <2>2, <1>2
  <2>4. \A e \in Devices : Len(inbox'[e]) <= InboxMaxSize
    BY <2>1, <2>2, <1>2, BoundsAssumption
  <2> QED
    BY <2>1, <2>3, <2>4, <1>2, <1>10, EndStep
<1>14. ASSUME NEW d \in Devices, ReceivePush(d) PROVE ChannelInv'
  <2>1. /\ inbox[d] # <<>>
        /\ inbox' = [inbox EXCEPT ![d] = Tail(inbox[d])]
        /\ Open(d, Head(inbox[d])) \/ Reject
        /\ UNCHANGED <<sent, sealed, awaiting, serving>>
    BY <1>14 DEF ReceivePush
  <2>2. /\ Head(inbox[d]) \in Frames
        /\ Tail(inbox[d]) \in Seq(Frames)
        /\ Len(Tail(inbox[d])) = Len(inbox[d]) - 1
        /\ Len(inbox[d]) \in Nat
    BY <2>1, <1>2, HeadTailProperties
  <2>3. inbox' \in [Devices -> Seq(Frames)]
    BY <2>1, <2>2, <1>2
  <2>4. \A e \in Devices : Len(inbox'[e]) <= InboxMaxSize
    BY <2>1, <2>2, <1>2, BoundsAssumption
  <2>5. CASE Open(d, Head(inbox[d]))
    BY <2>1, <2>2, <2>3, <2>4, <2>5, <1>2, OpenPreserves
  <2>6. CASE Reject
    BY <2>1, <2>3, <2>4, <2>6, <1>2, <1>10, EndStep DEF Reject
  <2> QED
    BY <2>1, <2>5, <2>6
<1>15. ASSUME NEW d \in Devices, NEW s \in Sids, SendRequest(d, s) PROVE ChannelInv'
  <2>1. /\ end[d][s] = "confirmed"
        /\ Seal(d, s, "request")
        /\ awaiting' = [awaiting EXCEPT ![d] = awaiting[d] \union {NextFrame(d, s, "request")}]
        /\ UNCHANGED <<end, window, inbox, serving, delivered>>
    BY <1>15 DEF SendRequest
  <2>2. "request" \in Kinds
    BY DEF Kinds
  <2>3. NextFrame(d, s, "request") \in Frames
    BY <2>1, <2>2, <1>1, <1>11, NextFrameType DEF Seal
  <2>4. awaiting' \in [Devices -> SUBSET Frames]
    BY <2>1, <2>3, <1>2
  <2> QED
    BY <2>1, <2>2, <2>4, <1>2, <1>10, <1>11, SealPreserves
<1>16. ASSUME NEW d \in Devices, NEW f \in OnTheWire, ServeRequest(d, f) PROVE ChannelInv'
  <2>1. /\ Open(d, f)
        /\ serving' = [serving EXCEPT ![d] = serving[d] \union {f}]
        /\ UNCHANGED <<sent, sealed, inbox, awaiting>>
    BY <1>16 DEF ServeRequest
  <2>2. serving' \in [Devices -> SUBSET Frames]
    BY <2>1, <1>2, <1>4
  <2>3. \A e \in Devices : \A q \in serving'[e] : q \in serving[e] \/ (e = d /\ q = f)
    BY <2>1, <1>2
  <2> QED
    BY <2>1, <2>2, <2>3, <1>2, <1>4, OpenPreserves
<1>17. ASSUME NEW d \in Devices, NEW q \in serving[d], Reply(d, q) PROVE ChannelInv'
  <2>1. /\ serving' = [serving EXCEPT ![d] = serving[d] \ {q}]
        /\ Seal(d, q.sid, "response")
        /\ UNCHANGED <<end, window, inbox, awaiting, delivered>>
    BY <1>17 DEF Reply
  <2>2. "response" \in Kinds
    BY DEF Kinds
  <2>3. q \in Frames /\ q.sid \in Sids /\ q.ctr \in Nat \ {0} /\ q.dir \in Directions
    BY <1>2, BoundsAssumption DEF Frames, Counters
  <2>4. q \in sealed /\ d = Receiver(q)
    BY <1>1 DEF ServingFromPeer
  <2>5. d \in {Initiator[q.sid], Responder[q.sid]}
    BY <2>4 DEF Receiver
  <2>6. q.ctr <= sent[Sender(q)][q.sid]
    BY <2>4, <1>1 DEF SealedUpToSent
  <2>7. d = Responder[q.sid] => sent[Initiator[q.sid]][q.sid] > 0
    <3> SUFFICES ASSUME d = Responder[q.sid] PROVE sent[Initiator[q.sid]][q.sid] > 0
      OBVIOUS
    <3>1. Sender(q) = Initiator[q.sid]
      BY <2>3, <2>4, <1>3 DEF Receiver, Sender
    <3>2. sent[Initiator[q.sid]][q.sid] \in Nat
      BY <2>3, <1>1, <1>3 DEF TypeOK
    <3> QED
      BY <3>1, <3>2, <2>3, <2>6
  <2>8. /\ serving' \in [Devices -> SUBSET Frames]
        /\ \A e \in Devices : serving'[e] \subseteq serving[e]
    BY <2>1, <1>2
  <2> QED
    BY <2>1, <2>2, <2>3, <2>5, <2>7, <2>8, <1>2, SealPreserves
<1>18. ASSUME NEW d \in Devices, NEW q \in serving[d], ReplyFails(d, q) PROVE ChannelInv'
  <2>1. /\ serving' = [serving EXCEPT ![d] = serving[d] \ {q}]
        /\ UNCHANGED <<end, sent, window, sealed, inbox, awaiting, delivered>>
    BY <1>18 DEF ReplyFails
  <2>2. /\ serving' \in [Devices -> SUBSET Frames]
        /\ \A e \in Devices : serving'[e] \subseteq serving[e]
    BY <2>1, <1>2
  <2> QED
    BY <2>1, <2>2, <1>2, <1>10, EndStep
<1>19. ASSUME NEW d \in Devices, NEW f \in OnTheWire, NEW q \in awaiting[d],
              ReceiveResponse(d, q, f)
       PROVE  ChannelInv'
  <2>1. /\ awaiting' = [awaiting EXCEPT ![d] = awaiting[d] \ {q}]
        /\ Open(d, f) \/ Reject
        /\ UNCHANGED <<sent, sealed, inbox, serving>>
    BY <1>19 DEF ReceiveResponse
  <2>2. awaiting' \in [Devices -> SUBSET Frames]
    BY <2>1, <1>2
  <2>3. CASE Open(d, f)
    BY <2>1, <2>2, <2>3, <1>2, <1>4, OpenPreserves
  <2>4. CASE Reject
    BY <2>1, <2>2, <2>4, <1>2, <1>10, EndStep DEF Reject
  <2> QED
    BY <2>1, <2>3, <2>4
<1>20. ASSUME NEW d \in Devices, NEW q \in awaiting[d], RequestFails(d, q) PROVE ChannelInv'
  <2>1. /\ awaiting' = [awaiting EXCEPT ![d] = awaiting[d] \ {q}]
        /\ UNCHANGED <<end, sent, window, sealed, inbox, serving, delivered>>
    BY <1>20 DEF RequestFails
  <2>2. awaiting' \in [Devices -> SUBSET Frames]
    BY <2>1, <1>2
  <2> QED
    BY <2>1, <2>2, <1>2, <1>10, EndStep
<1>21. CASE UNCHANGED vars
  BY <1>21, <1>2, <1>10, EndStep DEF vars
<1> QED
  BY <1>5, <1>6, <1>7, <1>8, <1>9, <1>12, <1>13, <1>14, <1>15, <1>16, <1>17,
     <1>18, <1>19, <1>20, <1>21 DEF Next

\* ChannelInv is an invariant of the channel.
THEOREM ChannelInvariant == Spec => []ChannelInv
BY InitChannelInv, NextChannelInv, PTL DEF Spec

\* The fields of the channel keep their types; no inbox exceeds its limit.
THEOREM ChannelTypeCorrect == Spec => []TypeOK
<1>1. ChannelInv => TypeOK
  BY DEF ChannelInv
<1> QED
  BY <1>1, ChannelInvariant, PTL

\* seal never uses a nonce twice in a session, for any number of tasks,
\* failed sends and sessions.
THEOREM ChannelNonceUnique == Spec => []NonceUnique
<1>1. ChannelInv => NonceUnique
  BY DEF ChannelInv
<1> QED
  BY <1>1, ChannelInvariant, PTL

\* open hands a frame to the application at most once, whatever the network
\* repeats and however often devices restart.
THEOREM ChannelDeliversAtMostOnce == Spec => []DeliveredAtMostOnce
<1>1. ChannelInv => DeliveredAtMostOnce
  <2> SUFFICES ASSUME ChannelInv, NEW d \in Devices, NEW f \in Frames
               PROVE  delivered[d][f] <= 1
    BY DEF DeliveredAtMostOnce
  <2>1. f.sid \in Sids /\ f.ctr \in Counters
    BY DEF Frames
  <2>2. window[d][f.sid].admitted[f.ctr] \in 0 .. 1
    BY <2>1 DEF ChannelInv, TypeOK
  <2>3. delivered[d][f] \in Nat
    BY DEF ChannelInv, TypeOK
  <2>4. delivered[d][f] <= window[d][f.sid].admitted[f.ctr]
    BY DEF ChannelInv, DeliveredAdmitted
  <2> QED
    BY <2>2, <2>3, <2>4
<1> QED
  BY <1>1, ChannelInvariant, PTL

\* What open returns was sealed by the other end of the session.
THEOREM ChannelDeliversFromPeer == Spec => []DeliveredFromPeer
<1>1. ChannelInv => DeliveredFromPeer
  BY DEF ChannelInv
<1> QED
  BY <1>1, ChannelInvariant, PTL

\* A responder sends only in sessions whose initiator has proved, with a
\* frame, that it holds the keys.
THEOREM ChannelResponderWaits == Spec => []ResponderWaitsForProof
<1>1. ChannelInv => ResponderWaitsForProof
  BY DEF ChannelInv
<1> QED
  BY <1>1, ChannelInvariant, PTL

\* No receive window runs ahead of the sender, whatever altered frames show.
THEOREM ChannelWindowBehindSender == Spec => []WindowBehindSender
<1>1. ChannelInv => WindowBehindSender
  BY DEF ChannelInv
<1> QED
  BY <1>1, ChannelInvariant, PTL
=============================================================================
