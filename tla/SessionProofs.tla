---------------------------- MODULE SessionProofs ----------------------------
(***************************************************************************)
(* Proofs about what a device keeps of its sessions: the AntiReplayWindow  *)
(* of each PeerSession, for every window size and every set of counters,   *)
(* and the SessionStore that holds them, for every number of peers and     *)
(* sessions and every choice of caps and timeouts.                         *)
(***************************************************************************)
EXTENDS AntiReplayWindow, SessionStore, FiniteSetTheorems, TLAPS

----------------------------------------------------------------------------
(* AntiReplayWindow: the bitmask is an exact memory of the accepted        *)
(* counters still in the band, and the class implements ReplayGuard.       *)

\* Under the inductive invariant the bitmask test of would_accept is the
\* abstract freshness test of ReplayGuard.
LEMMA WouldAcceptExact ==
  ASSUME WindowInv, NEW c \in Counters
  PROVE  WouldAccept(c) <=> Guard!Admissible(c)
<1> c \in Int
  BY CountersAssumption
<1> USE WindowAssumption DEF WindowInv, WindowTypeOK, BaseAnchored
<1>1. ASSUME c >= base
      PROVE  Slot(c) \in bits <=> c \in Seen
  <2>1. c \in Seen => Slot(c) \in bits
    BY <1>1 DEF MaskExact, Slot
  <2>2. ASSUME Slot(c) \in bits
        PROVE  c \in Seen
    <3>1. PICK d \in Seen : c - base = d - base
      BY <2>2 DEF MaskExact, Slot
    <3>2. d \in Int
      BY CountersAssumption DEF Seen
    <3>3. c = d
      BY <3>1, <3>2
    <3> QED
      BY <3>3
  <2> QED
    BY <2>1, <2>2
<1>2. accepts[c] \in Nat
  OBVIOUS
<1>3. c \in Seen <=> accepts[c] # 0
  BY <1>2 DEF Seen
<1>4. c \in (highest - Window + 1) .. (highest + Window) => Slot(c) \in SlotSet
  BY DEF Slot, SlotSet, Slots
<1>5. WouldAccept(c) => Guard!Admissible(c)
  BY <1>1, <1>3 DEF WouldAccept, Guard!Admissible
<1>6. Guard!Admissible(c) => WouldAccept(c)
  BY <1>1, <1>3, <1>4 DEF WouldAccept, Guard!Admissible
<1> QED
  BY <1>5, <1>6

\* accept() preserves the inductive invariant: a slide moves every remembered
\* counter to its new slot and drops exactly those below the new base.
LEMMA AcceptPreservesWindowInv ==
  ASSUME WindowInv, NEW c \in Counters, Accept(c)
  PROVE  WindowInv'
<1> c \in Int
  BY CountersAssumption
<1> USE WindowAssumption
<1> DEFINE newBase == IF c > highest THEN c - Window + 1 ELSE base
           slid    == IF c > highest THEN Slide(newBase) ELSE bits
<1>1. /\ highest \in Nat /\ base \in Int /\ bits \subseteq SlotSet
      /\ accepts \in [Counters -> Nat]
      /\ base = highest - Window + 1
  BY DEF WindowInv, WindowTypeOK, BaseAnchored
<1>2. /\ c > 0 /\ accepts[c] = 0
      /\ c \in (highest - Window + 1) .. (highest + Window)
  BY WouldAcceptExact DEF Accept, Guard!Admissible
<1>3. /\ base' = newBase
      /\ bits' = slid \union {c - newBase}
      /\ highest' = IF c > highest THEN c ELSE highest
      /\ accepts' = [accepts EXCEPT ![c] = @ + 1]
  BY DEF Accept
<1>4. newBase \in Int /\ newBase >= base /\ c - newBase \in SlotSet
  BY <1>1, <1>2 DEF SlotSet, Slots
<1>5. Seen' = Seen \union {c}
  <2>1. accepts'[c] = 1 /\ \A d \in Counters : d # c => accepts'[d] = accepts[d]
    BY <1>1, <1>2, <1>3
  <2>2. c \in Seen'
    BY <2>1 DEF Seen
  <2>3. ASSUME NEW d, d # c
        PROVE  d \in Seen' <=> d \in Seen
    BY <2>1, <2>3 DEF Seen
  <2> QED
    BY <2>2, <2>3
<1>6. Seen \subseteq 1 .. highest /\ Seen \subseteq Int
  BY CountersAssumption DEF WindowInv, SeenBelowHighest, Seen
<1>7. slid = {d - newBase : d \in {e \in Seen : e >= newBase}}
  <2>0. bits = {d - base : d \in {e \in Seen : e >= base}}
    BY DEF WindowInv, MaskExact
  <2>1. CASE c > highest
    <3>1. newBase - base > 0 /\ newBase = c - Window + 1
      BY <1>1, <1>2, <2>1
    <3>2. slid = {i - (newBase - base) : i \in bits} \intersect SlotSet
      BY <1>1, <1>4, <2>1, <3>1 DEF Slide
    <3>3. ASSUME NEW j \in slid
          PROVE  j \in {d - newBase : d \in {e \in Seen : e >= newBase}}
      <4>1. PICK i \in bits : j = i - (newBase - base) /\ j \in SlotSet
        BY <3>2, <3>3
      <4>2. PICK d \in Seen : d >= base /\ i = d - base
        BY <2>0
      <4>3. j = d - newBase /\ d >= newBase
        BY <1>1, <1>4, <1>6, <4>1, <4>2 DEF SlotSet, Slots
      <4> QED
        BY <4>3
    <3>4. ASSUME NEW d \in Seen, d >= newBase
          PROVE  d - newBase \in slid
      <4>1. d \in Int /\ d <= highest
        BY <1>1, <1>6
      <4>2. d - base \in bits
        BY <1>1, <1>4, <2>0, <3>4, <4>1
      <4>3. d - newBase = (d - base) - (newBase - base)
        BY <1>1, <1>4, <4>1
      <4>4. d - newBase \in SlotSet
        BY <1>1, <1>4, <2>1, <3>1, <3>4, <4>1 DEF SlotSet, Slots
      <4> QED
        BY <3>2, <4>2, <4>3, <4>4
    <3> QED
      BY <3>3, <3>4
  <2>2. CASE ~(c > highest)
    BY <2>0, <2>2
  <2> QED
    BY <2>1, <2>2
<1>8. WindowTypeOK'
  <2>1. highest' \in Nat /\ base' \in Int /\ accepts' \in [Counters -> Nat]
    BY <1>1, <1>2, <1>3, <1>4
  <2>2. slid \subseteq SlotSet
    BY <1>1 DEF Slide
  <2>3. bits' \subseteq SlotSet
    BY <1>3, <1>4, <2>2
  <2> QED
    BY <2>1, <2>3 DEF WindowTypeOK, SlotSet, Slots
<1>9. BaseAnchored'
  BY <1>1, <1>3 DEF BaseAnchored
<1>10. SeenBelowHighest'
  BY <1>1, <1>2, <1>3, <1>5, <1>6 DEF SeenBelowHighest
<1>11. MaskExact'
  <2>1. c >= newBase
    BY <1>1, <1>2
  <2>2. {e \in Seen' : e >= newBase} = {e \in Seen : e >= newBase} \union {c}
    BY <1>5, <2>1
  <2> QED
    BY <1>3, <1>7, <2>2 DEF MaskExact
<1>12. AcceptedAtMostOnce'
  BY <1>1, <1>2, <1>3 DEF WindowInv, AcceptedAtMostOnce
<1> QED
  BY <1>8, <1>9, <1>10, <1>11, <1>12 DEF WindowInv

\* WindowInv is an invariant of the class: it holds of a new window, and every
\* call of accept() preserves it.
THEOREM WindowInvariant == WindowSpec => []WindowInv
<1>1. WindowInit => WindowInv
  <2> SUFFICES ASSUME WindowInit PROVE WindowInv
    OBVIOUS
  <2>1. Seen = {}
    BY DEF WindowInit, Seen
  <2> QED
    BY <2>1, WindowAssumption DEF WindowInit, WindowInv, WindowTypeOK,
         BaseAnchored, SeenBelowHighest, MaskExact, AcceptedAtMostOnce
<1>2. WindowInv /\ [WindowNext]_windowVars => WindowInv'
  <2> SUFFICES ASSUME WindowInv, [WindowNext]_windowVars PROVE WindowInv'
    OBVIOUS
  <2>1. CASE UNCHANGED windowVars
    BY <2>1 DEF windowVars, WindowInv, WindowTypeOK, BaseAnchored,
         SeenBelowHighest, MaskExact, AcceptedAtMostOnce, Seen, SlotSet, Slots
  <2>2. CASE WindowNext
    BY <2>2, AcceptPreservesWindowInv DEF WindowNext
  <2> QED
    BY <2>1, <2>2
<1> QED
  BY <1>1, <1>2, PTL DEF WindowSpec

\* For every window size the fields keep their types: in particular the mask
\* never holds a bit outside its 2 * window + 1 slots.
THEOREM WindowTypeCorrect == WindowSpec => []WindowTypeOK
<1>1. WindowInv => WindowTypeOK
  BY DEF WindowInv
<1> QED
  BY <1>1, WindowInvariant, PTL

\* For every window size accept() returns True at most once per counter.
THEOREM AtMostOnce == WindowSpec => []AcceptedAtMostOnce
<1>1. WindowInv => AcceptedAtMostOnce
  BY DEF WindowInv
<1> QED
  BY <1>1, WindowInvariant, PTL

\* For every window size a fresh counter in the documented band is accepted.
THEOREM NoFalseRejection == WindowSpec => []FreshInBandAccepted
<1>1. WindowInv => FreshInBandAccepted
  <2> SUFFICES ASSUME WindowInv, NEW c \in Counters, c > 0, c \notin Seen,
                      c \in (highest - Window + 1) .. (highest + Window)
               PROVE  WouldAccept(c)
    BY DEF FreshInBandAccepted
  <2>1. accepts[c] = 0
    BY DEF Seen, WindowInv, WindowTypeOK
  <2> QED
    BY <2>1, WouldAcceptExact DEF Guard!Admissible
<1> QED
  BY <1>1, WindowInvariant, PTL

\* The bitmask implementation implements the abstract guard: every accept()
\* is an Admit of ReplayGuard.
THEOREM WindowImplementsGuard == WindowSpec => ImplementsGuard
<1>1. WindowInit => Guard!GuardInit
  BY DEF WindowInit, Guard!GuardInit
<1>2. WindowInv /\ [WindowNext]_windowVars => [Guard!GuardNext]_(Guard!guardVars)
  <2> SUFFICES ASSUME WindowInv, [WindowNext]_windowVars
               PROVE  [Guard!GuardNext]_(Guard!guardVars)
    OBVIOUS
  <2>1. CASE UNCHANGED windowVars
    BY <2>1 DEF windowVars, Guard!guardVars
  <2>2. ASSUME NEW c \in Counters, Accept(c)
        PROVE  Guard!Admit(c)
    <3>1. Guard!Admissible(c)
      BY <2>2, WouldAcceptExact DEF Accept
    <3>2. accepts' = [accepts EXCEPT ![c] = 1]
      BY <2>2, <3>1 DEF Accept, Guard!Admissible, WindowInv, WindowTypeOK
    <3> QED
      BY <2>2, <3>1, <3>2 DEF Accept, Guard!Admit
  <2> QED
    BY <2>1, <2>2 DEF WindowNext, Guard!GuardNext
<1> QED
  BY <1>1, <1>2, WindowInvariant, PTL DEF WindowSpec, ImplementsGuard, Guard!GuardSpec

----------------------------------------------------------------------------
(* SessionStore: types, the agreement of the two indexes, the caps, that a *)
(* recorded session is never reset, and that a confirmed one is evicted    *)
(* only as a last resort.                                                  *)

\* What every operation of the store relies on; CapsHold needs it to be
\* inductive, since put counts the sessions it finds through the index.
Inv == TypeOK /\ IndexConsistent

\* A PeerSession with its defaults is well typed.
LEMMA NewSessionType ==
  ASSUME NEW p \in Peers \union {NoPeer}, NEW r \in Roles, NEW c \in Statuses
  PROVE  NewSession(p, r, c) \in Session
BY TimesAssumption, MaxMessagesAssumption DEF NewSession, Session, Ages

\* So is the value at an id nothing is recorded under.
LEMMA BlankType == Blank \in Session
BY NewSessionType DEF Blank, Roles, Statuses

\* Confirming a session and resetting its idle time keeps its type.
LEMMA TouchedType ==
  ASSUME NEW x \in Session, NEW c \in Statuses, NEW a \in Ages
  PROVE  [x EXCEPT !.status = c, !.idle = a] \in Session
BY DEF Session

\* put keeps types and index in agreement, whatever it evicts.
LEMMA PutPreservesInv ==
  ASSUME Inv, NEW p \in Peers, NEW s \in Sids, NEW r \in Roles,
         NEW c \in Statuses, Put(p, s, r, c), dialing' \in Peers \union {NoPeer}
  PROVE  Inv'
<1>1. PICK gone :
        /\ recorded' = (recorded \ gone) \union {s}
        /\ sess' = [t \in Sids |->
                      IF t = s THEN NewSession(p, r, c)
                      ELSE IF t \in gone THEN Blank ELSE sess[t]]
        /\ byPeer' = [Forget(gone) EXCEPT ![p] = @ \union {s}]
  BY DEF Put
<1>2. s \notin recorded
  BY DEF Put, Fresh
<1>3. /\ recorded \subseteq Sids /\ sess \in [Sids -> Session]
      /\ byPeer \in [Peers -> SUBSET Sids]
      /\ \A q \in Peers : byPeer[q] = {t \in recorded : sess[t].peer = q}
      /\ \A t \in recorded : sess[t].peer \in Peers
  BY DEF Inv, TypeOK, IndexConsistent
<1>4. recorded' \subseteq Sids
  BY <1>1, <1>3
<1>5. sess' \in [Sids -> Session]
  BY <1>1, <1>3, NewSessionType, BlankType
<1>6. /\ byPeer' \in [Peers -> SUBSET Sids]
      /\ byPeer'[p] = (byPeer[p] \ {v \in gone : sess[v].peer = p}) \union {s}
      /\ \A q \in Peers \ {p} :
           byPeer'[q] = byPeer[q] \ {v \in gone : sess[v].peer = q}
  BY <1>1, <1>3 DEF Forget
<1>7. /\ sess'[s].peer = p
      /\ \A t \in recorded' \ {s} : sess'[t] = sess[t]
  BY <1>1, <1>3 DEF NewSession
<1>8. \A q \in Peers : byPeer'[q] = {t \in recorded' : sess'[t].peer = q}
  <2> SUFFICES ASSUME NEW q \in Peers, NEW t
               PROVE  t \in byPeer'[q] <=> t \in recorded' /\ sess'[t].peer = q
    OBVIOUS
  <2>1. CASE t = s
    BY <2>1, <1>1, <1>2, <1>3, <1>6, <1>7
  <2>2. CASE t # s
    <3>1. t \in byPeer'[q] <=> t \in byPeer[q] /\ t \notin gone
      BY <2>2, <1>3, <1>6
    <3>2. t \in recorded' <=> t \in recorded /\ t \notin gone
      BY <2>2, <1>1
    <3> QED
      BY <2>2, <3>1, <3>2, <1>3, <1>7
  <2> QED
    BY <2>1, <2>2
<1>9. \A t \in recorded' : sess'[t].peer \in Peers
  BY <1>1, <1>3, <1>7
<1> QED
  BY <1>4, <1>5, <1>6, <1>8, <1>9 DEF Inv, TypeOK, IndexConsistent

\* seal keeps the send counter within its limit.
LEMMA SealPreservesInv ==
  ASSUME Inv, NEW s \in recorded, Seal(s)
  PROVE  Inv'
<1>1. /\ s \in Sids /\ sess \in [Sids -> Session] /\ sess[s] \in Session
      /\ sess' = [sess EXCEPT ![s].sent = @ + 1, ![s].idle = 0]
      /\ ~(sess[s].sent >= MaxMessages)
      /\ UNCHANGED <<recorded, byPeer, dialing>>
  BY DEF Inv, TypeOK, Seal, Exhausted
<1>2. sess[s].sent + 1 \in 0 .. MaxMessages /\ 0 \in Ages
  BY <1>1, TimesAssumption, MaxMessagesAssumption DEF Session, Ages
<1>3. sess' \in [Sids -> Session]
  BY <1>1, <1>2 DEF Session
<1>4. \A t \in Sids : sess'[t].peer = sess[t].peer
  BY <1>1 DEF Session
<1> QED
  BY <1>1, <1>3, <1>4 DEF Inv, TypeOK, IndexConsistent

\* Every step of the store preserves types and index agreement.
LEMMA NextPreservesInv == Inv /\ [Next]_vars => Inv'
<1> SUFFICES ASSUME Inv, [Next]_vars PROVE Inv'
  OBVIOUS
<1>1. ASSUME NEW p \in Peers, EnsureSession(p) PROVE Inv'
  BY <1>1 DEF EnsureSession, Inv, TypeOK, IndexConsistent
<1>2. ASSUME NEW p \in Peers, NEW s \in Sids, DialDone(p, s) PROVE Inv'
  BY <1>2, PutPreservesInv DEF DialDone, Roles, Statuses
<1>3. ASSUME DialFailed PROVE Inv'
  BY <1>3 DEF DialFailed, Inv, TypeOK, IndexConsistent
<1>4. ASSUME NEW p \in Peers, NEW s \in Sids, InboundHandshake(p, s) PROVE Inv'
  <2>1. dialing' \in Peers \union {NoPeer}
    BY <1>4 DEF InboundHandshake, Inv, TypeOK
  <2> QED
    BY <1>4, <2>1, PutPreservesInv DEF InboundHandshake, Roles, Statuses
<1>5. ASSUME NEW p \in Peers, Send(p) PROVE Inv'
  BY <1>5, SealPreservesInv DEF Send, SendSessions, SessionsForPeer
<1>6. ASSUME NEW s \in Sids, Reply(s) PROVE Inv'
  BY <1>6, SealPreservesInv DEF Reply
<1>7. ASSUME NEW s \in Sids, Open(s) PROVE Inv'
  <2>1. /\ sess \in [Sids -> Session] /\ sess[s] \in Session
        /\ sess' = [sess EXCEPT
             ![s].status = IF sess[s].role = "responder" THEN "confirmed" ELSE @,
             ![s].idle = 0]
        /\ UNCHANGED <<recorded, byPeer, dialing>>
    BY <1>7 DEF Open, Inv, TypeOK
  <2> DEFINE x == IF sess[s].role = "responder" THEN "confirmed" ELSE sess[s].status
  <2>2. x \in Statuses /\ 0 \in Ages
    BY <2>1, TimesAssumption DEF Session, Ages, Statuses
  <2>3. sess' = [sess EXCEPT ![s].status = x, ![s].idle = 0]
    BY <2>1
  <2> HIDE DEF x
  <2>4. sess' \in [Sids -> Session]
    <3>1. [sess[s] EXCEPT !.status = x, !.idle = 0] \in Session
      BY <2>1, <2>2, TouchedType
    <3> QED
      BY <2>1, <2>3, <3>1
  <2>5. \A t \in Sids : sess'[t].peer = sess[t].peer
    BY <2>1, <2>3 DEF Session
  <2> QED
    BY <2>1, <2>4, <2>5 DEF Inv, TypeOK, IndexConsistent
<1>8. ASSUME NEW p \in Peers, RemoveByPeer(p) PROVE Inv'
  <2> DEFINE gone == SessionsForPeer(p)
  <2>1. /\ recorded' = recorded \ gone
        /\ sess' = [t \in Sids |-> IF t \in gone THEN Blank ELSE sess[t]]
        /\ byPeer' = Forget(gone) /\ UNCHANGED dialing
    BY <1>8 DEF RemoveByPeer
  <2> HIDE DEF gone
  <2>2. sess' \in [Sids -> Session]
    BY <2>1, BlankType DEF Inv, TypeOK
  <2>3. \A q \in Peers : byPeer'[q] = byPeer[q] \ {v \in gone : sess[v].peer = q}
    BY <2>1 DEF Forget
  <2>4. \A t \in recorded' : sess'[t] = sess[t]
    BY <2>1 DEF Inv, TypeOK
  <2> QED
    BY <2>1, <2>2, <2>3, <2>4 DEF Inv, TypeOK, IndexConsistent, Forget
<1>9. ASSUME Tick PROVE Inv'
  <2>1. \A a \in Ages : Older(a) \in Ages
    BY TimesAssumption DEF Ages, Older
  <2>2. ASSUME NEW t \in Sids
        PROVE  sess'[t] \in Session /\ sess'[t].peer = sess[t].peer
    BY <1>9, <2>1 DEF Tick, Inv, TypeOK, Session
  <2>3. sess' = [t \in Sids |-> sess'[t]]
    BY <1>9 DEF Tick
  <2>4. UNCHANGED <<recorded, byPeer, dialing>>
    BY <1>9 DEF Tick
  <2>5. TypeOK'
    BY <2>2, <2>3, <2>4 DEF Inv, TypeOK
  <2>6. IndexConsistent'
    BY <2>2, <2>4 DEF Inv, TypeOK, IndexConsistent
  <2> QED
    BY <2>5, <2>6 DEF Inv
<1>10. CASE UNCHANGED vars
  BY <1>10 DEF vars, Inv, TypeOK, IndexConsistent
<1> QED
  BY <1>1, <1>2, <1>3, <1>4, <1>5, <1>6, <1>7, <1>8, <1>9, <1>10 DEF Next

----------------------------------------------------------------------------
(* Caps *)

\* A finite set is as large as a subset of it and the rest.
LEMMA SplitCardinality ==
  ASSUME NEW S, IsFiniteSet(S), NEW A \in SUBSET S
  PROVE  /\ IsFiniteSet(A) /\ IsFiniteSet(S \ A)
         /\ Cardinality(S) \in Nat
         /\ Cardinality(A) \in Nat
         /\ Cardinality(S \ A) \in Nat
         /\ Cardinality(S) = Cardinality(A) + Cardinality(S \ A)
<1>1. IsFiniteSet(A) /\ IsFiniteSet(S \ A)
  BY FS_Subset
<1>2. Cardinality(S \ A) = Cardinality(S) - Cardinality(S \intersect A)
  BY FS_Difference
<1>3. S \intersect A = A
  OBVIOUS
<1>4. Cardinality(S) \in Nat /\ Cardinality(A) \in Nat /\ Cardinality(S \ A) \in Nat
  BY <1>1, FS_CardinalityType
<1>5. Cardinality(S \ A) = Cardinality(S) - Cardinality(A)
  BY <1>2, <1>3
<1> QED
  BY <1>1, <1>4, <1>5

\* With room for one more, one more may be added.
LEMMA AddOneCardinality ==
  ASSUME NEW S, IsFiniteSet(S), NEW x, NEW n \in Nat \ {0}, Cardinality(S) <= n - 1
  PROVE  IsFiniteSet(S \union {x}) /\ Cardinality(S \union {x}) <= n
<1>1. Cardinality(S) \in Nat
  BY FS_CardinalityType
<1>2. /\ IsFiniteSet(S \union {x})
      /\ Cardinality(S \union {x}) = IF x \in S THEN Cardinality(S) ELSE Cardinality(S) + 1
  BY FS_AddElement
<1> QED
  BY <1>1, <1>2

\* What is left of S after its n oldest unconfirmed sessions are evicted.
LEMMA OldestCreatedLeaves ==
  ASSUME NEW S, IsFiniteSet(S), NEW n \in Nat, NEW U \in OldestCreated(S, n)
  PROVE  /\ U \subseteq Unconfirmed(S) /\ IsFiniteSet(Unconfirmed(S))
         /\ Cardinality(U) \in Nat /\ Cardinality(Unconfirmed(S)) \in Nat
         /\ Cardinality(Unconfirmed(S) \ U) = Cardinality(Unconfirmed(S)) - Cardinality(U)
         /\ Cardinality(U) = Least(n, Unconfirmed(S))
<1>1. U \subseteq Unconfirmed(S) /\ Cardinality(U) = Least(n, Unconfirmed(S))
  BY DEF OldestCreated
<1>2. IsFiniteSet(Unconfirmed(S))
  BY FS_Subset DEF Unconfirmed
<1>3. /\ Cardinality(Unconfirmed(S)) = Cardinality(U) + Cardinality(Unconfirmed(S) \ U)
      /\ Cardinality(U) \in Nat /\ Cardinality(Unconfirmed(S) \ U) \in Nat
  BY <1>1, <1>2, SplitCardinality
<1> QED
  BY <1>1, <1>2, <1>3

\* The eviction loop ends below its cap.  It takes a confirmed session only
\* when no unconfirmed one is left, and then stops with one place free.
LEMMA EvictionsReachCap ==
  ASSUME NEW S, IsFiniteSet(S), NEW cap \in Nat \ {0},
         NEW V \in EvictionsToCap(S, cap)
  PROVE  /\ V \subseteq S /\ Cardinality(S \ V) <= cap - 1
         /\ \A t \in V : IsConfirmed(t) =>
              /\ Cardinality(S \ V) = cap - 1
              /\ \A u \in S \ V : IsConfirmed(u)
<1> DEFINE n == Excess(S, cap)
<1>0. Cardinality(S) \in Nat /\ n \in Nat /\ n <= Cardinality(S)
      /\ Cardinality(S) - n <= cap - 1
  BY FS_CardinalityType DEF Excess
<1> HIDE DEF n
<1>1. PICK U \in OldestCreated(S, n) :
        \E C \in LruConfirmed(S, n - Cardinality(U)) : V = U \union C
  BY DEF EvictionsToCap, n
<1>2. PICK C \in LruConfirmed(S, n - Cardinality(U)) : V = U \union C
  BY <1>1
<1>3. /\ U \subseteq Unconfirmed(S) /\ Cardinality(U) \in Nat
      /\ Cardinality(Unconfirmed(S)) \in Nat
      /\ Cardinality(U) = Least(n, Unconfirmed(S))
  BY <1>0, <1>1, OldestCreatedLeaves
<1>4. C \subseteq Confirmed(S) /\ Cardinality(C) = Least(n - Cardinality(U), Confirmed(S))
  BY <1>2 DEF LruConfirmed
<1>5. /\ Cardinality(S) = Cardinality(Unconfirmed(S)) + Cardinality(Confirmed(S))
      /\ Cardinality(Confirmed(S)) \in Nat
      /\ Unconfirmed(S) \subseteq S /\ Confirmed(S) \subseteq S
      /\ Unconfirmed(S) \intersect Confirmed(S) = {}
  <2>1. Confirmed(S) = S \ Unconfirmed(S) /\ Unconfirmed(S) \in SUBSET S
    BY DEF Unconfirmed, Confirmed
  <2> QED
    BY <2>1, SplitCardinality
<1>6. V \subseteq S
  BY <1>2, <1>3, <1>4, <1>5
<1>7. /\ Cardinality(V) = Cardinality(U) + Cardinality(C) /\ Cardinality(C) \in Nat
  <2>1. IsFiniteSet(V) /\ U \in SUBSET V /\ C = V \ U
    BY <1>2, <1>3, <1>4, <1>5, <1>6, FS_Subset
  <2> QED
    BY <2>1, SplitCardinality
<1>8. Cardinality(V) = n
  BY <1>0, <1>3, <1>4, <1>5, <1>7 DEF Least
<1>9. Cardinality(S) = Cardinality(V) + Cardinality(S \ V)
      /\ Cardinality(S \ V) \in Nat
  BY <1>6, SplitCardinality
<1>10. V \subseteq S /\ Cardinality(S \ V) <= cap - 1
  BY <1>0, <1>6, <1>8, <1>9
<1>11. ASSUME NEW t \in V, IsConfirmed(t)
       PROVE  /\ Cardinality(S \ V) = cap - 1
              /\ \A u \in S \ V : IsConfirmed(u)
  <2>1. t \in C
    BY <1>2, <1>3, <1>11 DEF Unconfirmed
  <2>2. Cardinality(C) # 0
    <3>1. IsFiniteSet(C)
      BY <1>4, <1>5, FS_Subset
    <3> QED
      BY <2>1, <3>1, FS_EmptySet
  <2>3. Cardinality(U) < n /\ Cardinality(U) = Cardinality(Unconfirmed(S))
    BY <1>0, <1>3, <1>4, <1>5, <1>7, <2>2 DEF Least
  <2>4. U = Unconfirmed(S)
    BY <1>0, <1>1, <1>3, <2>3, OldestCreatedLeaves, FS_Subset
  <2>5. Cardinality(S) - n = cap - 1
    BY <1>0, <1>3, <2>3 DEF n, Excess
  <2> QED
    BY <1>0, <1>2, <1>8, <1>9, <2>4, <2>5 DEF Unconfirmed
<1> QED
  BY <1>10, <1>11

\* Every recorded set is finite.
LEMMA RecordedFinite ==
  ASSUME TypeOK
  PROVE  IsFiniteSet(recorded) /\ \A p \in Peers : IsFiniteSet(byPeer[p])
BY SidsAssumption, FS_Subset DEF TypeOK

\* Operations that record nothing and unconfirm nothing keep the caps.
LEMMA ShrinkPreservesCaps ==
  ASSUME TypeOK, CapsHold, recorded' \subseteq recorded,
         \A p \in Peers : byPeer'[p] \subseteq byPeer[p],
         \A p \in Peers : \A t \in byPeer'[p] : IsConfirmed(t) => IsConfirmed(t)'
  PROVE  CapsHold'
<1>1. ASSUME NEW A, NEW B, IsFiniteSet(B), A \subseteq B, NEW n \in Nat,
             Cardinality(B) <= n
      PROVE  Cardinality(A) <= n
  BY <1>1, FS_Subset, FS_CardinalityType
<1>2. Cardinality(recorded') <= GlobalSessionCap
  BY <1>1, RecordedFinite, CapsAssumption DEF CapsHold
<1>3. ASSUME NEW p \in Peers
      PROVE  Cardinality(byPeer'[p]) <= MaxSessionsPerPeer
  BY <1>1, RecordedFinite, CapsAssumption DEF CapsHold
<1>4. ASSUME NEW p \in Peers
      PROVE  Cardinality(Unconfirmed(byPeer[p])') <= MaxUnconfirmedPerPeer
  <2>1. Unconfirmed(byPeer[p])' \subseteq Unconfirmed(byPeer[p])
    BY DEF Unconfirmed
  <2>2. IsFiniteSet(Unconfirmed(byPeer[p]))
    BY RecordedFinite, FS_Subset DEF Unconfirmed
  <2> QED
    BY <1>1, <2>1, <2>2, CapsAssumption DEF CapsHold
<1> QED
  BY <1>2, <1>3, <1>4 DEF CapsHold

\* put makes room before it records, under all three caps.
LEMMA PutPreservesCaps ==
  ASSUME Inv, CapsHold, NEW p \in Peers, NEW s \in Sids, NEW r \in Roles,
         NEW c \in Statuses, Put(p, s, r, c)
  PROVE  CapsHold'
<1> DEFINE expired == {t \in recorded : IsExpired(t)}
           kept    == recorded \ expired
           P       == byPeer[p] \ expired
<1>0. PICK V \in PeerEvictions(P) :
        \E G \in EvictionsToCap(kept \ V, GlobalSessionCap) :
          /\ recorded' = (recorded \ (expired \union V \union G)) \union {s}
          /\ sess' = [t \in Sids |->
                        IF t = s THEN NewSession(p, r, c)
                        ELSE IF t \in expired \union V \union G THEN Blank ELSE sess[t]]
          /\ byPeer' = [Forget(expired \union V \union G) EXCEPT ![p] = @ \union {s}]
  BY DEF Put
<1>1. PICK G \in EvictionsToCap(kept \ V, GlobalSessionCap) :
        /\ recorded' = (recorded \ (expired \union V \union G)) \union {s}
        /\ sess' = [t \in Sids |->
                      IF t = s THEN NewSession(p, r, c)
                      ELSE IF t \in expired \union V \union G THEN Blank ELSE sess[t]]
        /\ byPeer' = [Forget(expired \union V \union G) EXCEPT ![p] = @ \union {s}]
  BY <1>0
<1> DEFINE gone == expired \union V \union G
<1>2. PICK U \in OldestCreated(P, Excess(Unconfirmed(P), MaxUnconfirmedPerPeer)) :
        \E W \in EvictionsToCap(P \ U, MaxSessionsPerPeer) : V = U \union W
  BY DEF PeerEvictions
<1>3. PICK W \in EvictionsToCap(P \ U, MaxSessionsPerPeer) : V = U \union W
  BY <1>2
<1>4. /\ recorded \subseteq Sids /\ sess \in [Sids -> Session]
      /\ byPeer \in [Peers -> SUBSET Sids]
      /\ \A q \in Peers : byPeer[q] = {t \in recorded : sess[t].peer = q}
      /\ TypeOK
  BY DEF Inv, TypeOK, IndexConsistent
<1>5. IsFiniteSet(recorded) /\ \A q \in Peers : IsFiniteSet(byPeer[q])
  BY <1>4, RecordedFinite
<1>6. /\ IsFiniteSet(kept \ V) /\ IsFiniteSet(P) /\ IsFiniteSet(P \ U)
  BY <1>5, FS_Subset
<1> HIDE DEF expired, kept, P
<1>7. /\ byPeer'[p] = (byPeer[p] \ gone) \union {s}
      /\ \A q \in Peers \ {p} : byPeer'[q] = byPeer[q] \ gone
  BY <1>1, <1>4 DEF Forget
<1>8. \A t \in Sids \ {s} : t \notin gone => sess'[t] = sess[t]
  BY <1>1
<1>9. Cardinality(recorded') <= GlobalSessionCap
  <2>1. recorded \ gone = (kept \ V) \ G
    BY DEF kept
  <2>2. Cardinality(recorded \ gone) <= GlobalSessionCap - 1
    BY <1>6, <2>1, CapsAssumption, EvictionsReachCap
  <2>3. IsFiniteSet(recorded \ gone)
    BY <1>5, FS_Subset
  <2> QED
    BY <1>1, <2>2, <2>3, CapsAssumption, AddOneCardinality
<1>10. Cardinality(byPeer'[p]) <= MaxSessionsPerPeer
  <2>1. Cardinality((P \ U) \ W) <= MaxSessionsPerPeer - 1
    BY <1>3, <1>6, CapsAssumption, EvictionsReachCap
  <2>2. byPeer[p] \ gone \subseteq (P \ U) \ W
    BY <1>3 DEF P
  <2>3. IsFiniteSet((P \ U) \ W)
    BY <1>6, FS_Subset
  <2>4. /\ IsFiniteSet(byPeer[p] \ gone)
        /\ Cardinality(byPeer[p] \ gone) <= Cardinality((P \ U) \ W)
    BY <2>2, <2>3, FS_Subset
  <2>5. Cardinality(byPeer[p] \ gone) <= MaxSessionsPerPeer - 1
    BY <2>1, <2>3, <2>4, CapsAssumption, FS_CardinalityType
  <2> QED
    BY <1>7, <2>4, <2>5, CapsAssumption, AddOneCardinality
<1>11. Cardinality(Unconfirmed(byPeer[p])') <= MaxUnconfirmedPerPeer
  <2>1. /\ IsFiniteSet(Unconfirmed(P)) /\ Cardinality(Unconfirmed(P)) \in Nat
    BY <1>6, FS_Subset, FS_CardinalityType DEF Unconfirmed
  <2>2. Excess(Unconfirmed(P), MaxUnconfirmedPerPeer) \in Nat
    BY <2>1, CapsAssumption DEF Excess
  <2>3. Cardinality(Unconfirmed(P) \ U) <= MaxUnconfirmedPerPeer - 1
    BY <1>3, <1>6, <2>1, <2>2, CapsAssumption, OldestCreatedLeaves DEF Excess, Least
  <2>4. Unconfirmed(byPeer[p])' \subseteq (Unconfirmed(P) \ U) \union {s}
    <3> SUFFICES ASSUME NEW t \in byPeer'[p], ~IsConfirmed(t)', t # s
                 PROVE  t \in Unconfirmed(P) \ U
      BY DEF Unconfirmed
    <3>1. t \in byPeer[p] /\ t \notin gone /\ t \in Sids
      BY <1>4, <1>7
    <3>2. sess'[t] = sess[t]
      BY <1>8, <3>1
    <3> QED
      BY <1>3, <3>1, <3>2 DEF Unconfirmed, IsConfirmed, P
  <2>5. IsFiniteSet(Unconfirmed(P) \ U)
    BY <2>1, FS_Subset
  <2>6. /\ IsFiniteSet((Unconfirmed(P) \ U) \union {s})
        /\ Cardinality((Unconfirmed(P) \ U) \union {s}) <= MaxUnconfirmedPerPeer
    BY <2>3, <2>5, CapsAssumption, AddOneCardinality
  <2> QED
    BY <2>4, <2>6, CapsAssumption, FS_Subset, FS_CardinalityType
<1>12. ASSUME NEW q \in Peers \ {p}
       PROVE  /\ Cardinality(byPeer'[q]) <= MaxSessionsPerPeer
              /\ Cardinality(Unconfirmed(byPeer[q])') <= MaxUnconfirmedPerPeer
  <2>1. s \notin byPeer[q]
    BY <1>4 DEF Put, Fresh
  <2>2. byPeer'[q] \subseteq byPeer[q]
    BY <1>7
  <2>3. Unconfirmed(byPeer[q])' \subseteq Unconfirmed(byPeer[q])
    <3> SUFFICES ASSUME NEW t \in byPeer'[q], ~IsConfirmed(t)'
                 PROVE  t \in Unconfirmed(byPeer[q])
      BY DEF Unconfirmed
    <3>1. sess'[t] = sess[t]
      BY <1>4, <1>7, <1>8, <2>1
    <3> QED
      BY <2>2, <3>1 DEF Unconfirmed, IsConfirmed
  <2>4. IsFiniteSet(byPeer[q]) /\ IsFiniteSet(Unconfirmed(byPeer[q]))
    BY <1>5, FS_Subset DEF Unconfirmed
  <2>5. /\ Cardinality(byPeer[q]) \in Nat /\ Cardinality(byPeer'[q]) \in Nat
        /\ Cardinality(byPeer'[q]) <= Cardinality(byPeer[q])
    BY <2>2, <2>4, FS_Subset, FS_CardinalityType
  <2>6. /\ Cardinality(Unconfirmed(byPeer[q])) \in Nat
        /\ Cardinality(Unconfirmed(byPeer[q])') \in Nat
        /\ Cardinality(Unconfirmed(byPeer[q])') <= Cardinality(Unconfirmed(byPeer[q]))
    BY <2>3, <2>4, FS_Subset, FS_CardinalityType
  <2> QED
    BY <2>5, <2>6, CapsAssumption DEF CapsHold
<1> QED
  BY <1>9, <1>10, <1>11, <1>12 DEF CapsHold

\* Every step of the store keeps the caps.
LEMMA NextPreservesCaps == Inv /\ CapsHold /\ [Next]_vars => CapsHold'
<1> SUFFICES ASSUME Inv, CapsHold, [Next]_vars PROVE CapsHold'
  OBVIOUS
<1>1. TypeOK /\ sess \in [Sids -> Session] /\ \A p \in Peers : byPeer[p] \subseteq Sids
  BY DEF Inv, TypeOK
<1>2. ASSUME NEW p \in Peers, EnsureSession(p) PROVE CapsHold'
  BY <1>2 DEF EnsureSession, CapsHold, Unconfirmed, IsConfirmed
<1>3. ASSUME NEW p \in Peers, NEW s \in Sids, DialDone(p, s) PROVE CapsHold'
  BY <1>3, PutPreservesCaps DEF DialDone, Roles, Statuses
<1>4. ASSUME DialFailed PROVE CapsHold'
  BY <1>4 DEF DialFailed, CapsHold, Unconfirmed, IsConfirmed
<1>5. ASSUME NEW p \in Peers, NEW s \in Sids, InboundHandshake(p, s) PROVE CapsHold'
  BY <1>5, PutPreservesCaps DEF InboundHandshake, Roles, Statuses
<1>6. ASSUME NEW s \in Sids, Seal(s) PROVE CapsHold'
  <2>1. \A t \in Sids : sess'[t].status = sess[t].status
    BY <1>1, <1>6 DEF Seal, Session
  <2> QED
    BY <1>1, <1>6, <2>1, ShrinkPreservesCaps DEF Seal, IsConfirmed
<1>7. ASSUME NEW p \in Peers, Send(p) PROVE CapsHold'
  BY <1>1, <1>6, <1>7 DEF Send, SendSessions, SessionsForPeer
<1>8. ASSUME NEW s \in Sids, Reply(s) PROVE CapsHold'
  BY <1>6, <1>8 DEF Reply
<1>9. ASSUME NEW s \in Sids, Open(s) PROVE CapsHold'
  <2>1. \A t \in Sids : IsConfirmed(t) => IsConfirmed(t)'
    BY <1>1, <1>9 DEF Open, Session, IsConfirmed
  <2> QED
    BY <1>1, <1>9, <2>1, ShrinkPreservesCaps DEF Open
<1>10. ASSUME NEW p \in Peers, RemoveByPeer(p) PROVE CapsHold'
  <2> DEFINE gone == SessionsForPeer(p)
  <2>1. /\ recorded' = recorded \ gone
        /\ sess' = [t \in Sids |-> IF t \in gone THEN Blank ELSE sess[t]]
        /\ \A q \in Peers : byPeer'[q] = byPeer[q] \ {v \in gone : sess[v].peer = q}
    BY <1>10 DEF RemoveByPeer, Forget
  <2> HIDE DEF gone
  <2>2. \A q \in Peers : \A t \in byPeer'[q] : t \in Sids /\ t \notin gone
    BY <1>1, <2>1 DEF Inv, IndexConsistent
  <2>3. \A q \in Peers : \A t \in byPeer'[q] : sess'[t] = sess[t]
    BY <2>1, <2>2
  <2> QED
    BY <1>1, <2>1, <2>3, ShrinkPreservesCaps DEF IsConfirmed
<1>11. ASSUME Tick PROVE CapsHold'
  <2>1. \A t \in Sids : sess'[t].status = sess[t].status
    BY <1>1, <1>11 DEF Tick, Session
  <2> QED
    BY <1>1, <1>11, <2>1, ShrinkPreservesCaps DEF Tick, IsConfirmed
<1>12. CASE UNCHANGED vars
  BY <1>12 DEF vars, CapsHold, Unconfirmed, IsConfirmed
<1> QED
  BY <1>2, <1>3, <1>4, <1>5, <1>7, <1>8, <1>9, <1>10, <1>11, <1>12 DEF Next

----------------------------------------------------------------------------
(* Theorems *)

\* The inductive invariant: types, index agreement and caps.
THEOREM StoreInvariant == Spec => [](Inv /\ CapsHold)
<1>1. Init => Inv /\ CapsHold
  <2> SUFFICES ASSUME Init PROVE Inv /\ CapsHold
    OBVIOUS
  <2>1. Inv
    BY BlankType DEF Init, Inv, TypeOK, IndexConsistent
  <2>2. \A p \in Peers : byPeer[p] = {} /\ Unconfirmed(byPeer[p]) = {}
    BY DEF Init, Unconfirmed
  <2>3. Cardinality({}) = 0
    BY FS_EmptySet
  <2>4. CapsHold
    BY <2>2, <2>3, CapsAssumption DEF Init, CapsHold
  <2> QED
    BY <2>1, <2>4
<1>2. (Inv /\ CapsHold) /\ [Next]_vars => (Inv /\ CapsHold)'
  BY NextPreservesInv, NextPreservesCaps
<1> QED
  BY <1>1, <1>2, PTL DEF Spec

\* The store's fields keep their types; no key seals more than MaxMessages
\* frames.
THEOREM StoreTypeCorrect == Spec => []TypeOK
<1>1. Inv /\ CapsHold => TypeOK
  BY DEF Inv
<1> QED
  BY <1>1, StoreInvariant, PTL

\* _by_peer and _by_session_id agree in every reachable state.
THEOREM StoreIndexConsistent == Spec => []IndexConsistent
<1>1. Inv /\ CapsHold => IndexConsistent
  BY DEF Inv
<1> QED
  BY <1>1, StoreInvariant, PTL

\* The per-peer, unconfirmed and global caps hold in every reachable state.
THEOREM StoreCapsHold == Spec => []CapsHold
<1>1. Inv /\ CapsHold => CapsHold
  OBVIOUS
<1> QED
  BY <1>1, StoreInvariant, PTL

\* No step resets, re-assigns or downgrades a session that stays recorded.
THEOREM StoreNeverReset == Spec => NeverReset
<1> DEFINE Kept == \A s \in recorded \intersect recorded' :
                     /\ sess'[s].peer = sess[s].peer
                     /\ sess'[s].role = sess[s].role
                     /\ IsConfirmed(s) => IsConfirmed(s)'
                     /\ sess'[s].sent >= sess[s].sent
<1>1. Inv /\ CapsHold /\ [Next]_vars => [Kept]_vars
  <2> SUFFICES ASSUME Inv, [Next]_vars, NEW s \in recorded, s \in recorded'
               PROVE  /\ sess'[s].peer = sess[s].peer
                      /\ sess'[s].role = sess[s].role
                      /\ IsConfirmed(s) => IsConfirmed(s)'
                      /\ sess'[s].sent >= sess[s].sent
    OBVIOUS
  <2>1. s \in Sids /\ sess \in [Sids -> Session] /\ sess[s] \in Session
        /\ sess[s].sent \in Int
    BY DEF Inv, TypeOK, Session
  <2>2. CASE sess'[s] = sess[s]
    BY <2>1, <2>2 DEF IsConfirmed
  <2>3. ASSUME NEW p \in Peers, NEW t \in Sids, NEW r, NEW c, Put(p, t, r, c)
        PROVE  sess'[s] = sess[s]
    <3>1. t \notin recorded
      BY <2>3 DEF Put, Fresh
    <3> QED
      BY <2>1, <2>3, <3>1 DEF Put
  <2>4. ASSUME NEW t \in Sids, Seal(t)
        PROVE  /\ sess'[s].peer = sess[s].peer
               /\ sess'[s].role = sess[s].role
               /\ IsConfirmed(s) => IsConfirmed(s)'
               /\ sess'[s].sent >= sess[s].sent
    BY <2>1, <2>4 DEF Seal, Session, IsConfirmed
  <2>5. CASE \E p \in Peers : EnsureSession(p)
    BY <2>2, <2>5 DEF EnsureSession
  <2>6. CASE \E p \in Peers, t \in Sids : DialDone(p, t)
    BY <2>2, <2>3, <2>6 DEF DialDone
  <2>7. CASE DialFailed
    BY <2>2, <2>7 DEF DialFailed
  <2>8. CASE \E p \in Peers, t \in Sids : InboundHandshake(p, t)
    BY <2>2, <2>3, <2>8 DEF InboundHandshake
  <2>9. CASE \E p \in Peers : Send(p)
    BY <2>4, <2>9 DEF Send, SendSessions, SessionsForPeer, Inv, TypeOK
  <2>10. CASE \E t \in Sids : Reply(t)
    BY <2>4, <2>10 DEF Reply
  <2>11. CASE \E t \in Sids : Open(t)
    BY <2>1, <2>11 DEF Open, Session, IsConfirmed
  <2>12. CASE \E p \in Peers : RemoveByPeer(p)
    BY <2>1, <2>2, <2>12 DEF RemoveByPeer
  <2>13. CASE Tick
    <3>1. sess'[s] = [sess[s] EXCEPT !.age = Older(@), !.idle = Older(@)]
      BY <2>1, <2>13 DEF Tick
    <3> QED
      BY <2>1, <3>1 DEF Session, IsConfirmed
  <2>14. CASE UNCHANGED vars
    BY <2>2, <2>14 DEF vars
  <2> QED
    BY <2>5, <2>6, <2>7, <2>8, <2>9, <2>10, <2>11, <2>12, <2>13, <2>14 DEF Next
<1> QED
  BY <1>1, StoreInvariant, PTL DEF Spec, NeverReset


\* put evicts a confirmed session that has not expired only when the peer it
\* belongs to, or the store, ends up full of confirmed sessions.
LEMMA PutTakesConfirmedLast ==
  ASSUME Inv, NEW p \in Peers, NEW s \in Sids, NEW r, NEW c, Put(p, s, r, c),
         NEW t \in recorded \ recorded', IsConfirmed(t), ~IsExpired(t)
  PROVE  \/ /\ Cardinality(byPeer'[sess[t].peer]) = MaxSessionsPerPeer
            /\ \A u \in byPeer'[sess[t].peer] \intersect recorded : IsConfirmed(u)
         \/ /\ Cardinality(recorded') = GlobalSessionCap
            /\ \A u \in recorded' \intersect recorded : IsConfirmed(u)
<1> DEFINE expired == {x \in recorded : IsExpired(x)}
           kept    == recorded \ expired
           P       == byPeer[p] \ expired
<1>0. PICK V \in PeerEvictions(P) :
        \E G \in EvictionsToCap(kept \ V, GlobalSessionCap) :
          /\ recorded' = (recorded \ (expired \union V \union G)) \union {s}
          /\ byPeer' = [Forget(expired \union V \union G) EXCEPT ![p] = @ \union {s}]
  BY DEF Put
<1>1. PICK G \in EvictionsToCap(kept \ V, GlobalSessionCap) :
        /\ recorded' = (recorded \ (expired \union V \union G)) \union {s}
        /\ byPeer' = [Forget(expired \union V \union G) EXCEPT ![p] = @ \union {s}]
  BY <1>0
<1>2. PICK U \in OldestCreated(P, Excess(Unconfirmed(P), MaxUnconfirmedPerPeer)) :
        \E W \in EvictionsToCap(P \ U, MaxSessionsPerPeer) : V = U \union W
  BY DEF PeerEvictions
<1>3. PICK W \in EvictionsToCap(P \ U, MaxSessionsPerPeer) : V = U \union W
  BY <1>2
<1>4. /\ byPeer \in [Peers -> SUBSET Sids]
      /\ \A q \in Peers : byPeer[q] = {x \in recorded : sess[x].peer = q}
      /\ TypeOK /\ s \notin recorded
  BY DEF Inv, TypeOK, IndexConsistent, Put, Fresh
<1>5. IsFiniteSet(recorded) /\ IsFiniteSet(kept \ V) /\ IsFiniteSet(P \ U)
  BY <1>4, RecordedFinite, FS_Subset
<1>6. \A x \in U : ~IsConfirmed(x)
  BY DEF OldestCreated, Unconfirmed
<1>7. t \in V \union G /\ t \notin U /\ t \notin expired
  BY <1>1, <1>6
<1>8. byPeer'[p] = (byPeer[p] \ (expired \union V \union G)) \union {s}
  BY <1>1, <1>4 DEF Forget
<1>9. byPeer[p] \ (expired \union V) = (P \ U) \ W
  BY <1>3
<1>10. recorded \ (expired \union V \union G) = (kept \ V) \ G
  OBVIOUS
<1> HIDE DEF expired, kept, P
<1>11. ASSUME NEW S, IsFiniteSet(S), NEW n \in Nat \ {0}, Cardinality(S) = n - 1, s \notin S
       PROVE  Cardinality(S \union {s}) = n
  <2>1. Cardinality(S \union {s}) = Cardinality(S) + 1
    BY <1>11, FS_AddElement, Zenon
  <2> QED
    BY <1>11, <2>1
<1>12. ASSUME NEW g \in G, IsConfirmed(g)
       PROVE  /\ Cardinality(recorded') = GlobalSessionCap
              /\ \A u \in recorded' \intersect recorded : IsConfirmed(u)
  <2> DEFINE K == kept \ V
  <2>1. /\ IsFiniteSet(K) /\ GlobalSessionCap \in Nat \ {0}
        /\ G \in EvictionsToCap(K, GlobalSessionCap)
    BY <1>5, CapsAssumption
  <2>2. IsFiniteSet(K \ G) /\ s \notin K \ G
    BY <1>4, <1>5, <1>10, FS_Subset
  <2>3. recorded' = (K \ G) \union {s}
    BY <1>1, <1>10
  <2> HIDE DEF K
  <2>4. /\ Cardinality(K \ G) = GlobalSessionCap - 1
        /\ \A u \in K \ G : IsConfirmed(u)
    BY <1>12, <2>1, EvictionsReachCap
  <2> QED
    BY <1>4, <1>11, <2>1, <2>2, <2>3, <2>4
<1>13. CASE t \in G
  BY <1>12, <1>13
<1>14. CASE t \in W
  <2>1. /\ Cardinality((P \ U) \ W) = MaxSessionsPerPeer - 1
        /\ \A u \in (P \ U) \ W : IsConfirmed(u)
        /\ W \subseteq P \ U
    BY <1>5, <1>14, CapsAssumption, EvictionsReachCap
  <2>2. sess[t].peer = p
    BY <1>4, <1>14, <2>1 DEF P
  <2>3. CASE G \intersect ((P \ U) \ W) = {}
    <3>1. byPeer'[p] = ((P \ U) \ W) \union {s}
      BY <1>8, <1>9, <2>3
    <3>2. IsFiniteSet((P \ U) \ W) /\ s \notin (P \ U) \ W
      BY <1>4, <1>5, FS_Subset DEF P
    <3> QED
      BY <1>4, <1>11, <2>1, <2>2, <3>1, <3>2, CapsAssumption
  <2>4. CASE G \intersect ((P \ U) \ W) # {}
    BY <1>12, <2>1, <2>4
  <2> QED
    BY <2>3, <2>4
<1> QED
  BY <1>3, <1>7, <1>13, <1>14

\* Confirmed sessions are given up only as a last resort, in every step of
\* every behaviour.
THEOREM StoreConfirmedLastResort == Spec => ConfirmedLastResort
<1> DEFINE LastResort ==
      \A t \in recorded \ recorded' :
        (IsConfirmed(t) /\ ~IsExpired(t) /\ ~(recorded' \subseteq recorded)) =>
          \/ /\ Cardinality(byPeer'[sess[t].peer]) = MaxSessionsPerPeer
             /\ \A u \in byPeer'[sess[t].peer] \intersect recorded : IsConfirmed(u)
          \/ /\ Cardinality(recorded') = GlobalSessionCap
             /\ \A u \in recorded' \intersect recorded : IsConfirmed(u)
<1>1. Inv /\ CapsHold /\ [Next]_vars => [LastResort]_vars
  <2> SUFFICES ASSUME Inv, [Next]_vars, NEW t \in recorded \ recorded',
                      IsConfirmed(t), ~IsExpired(t), ~(recorded' \subseteq recorded)
               PROVE  \/ /\ Cardinality(byPeer'[sess[t].peer]) = MaxSessionsPerPeer
                         /\ \A u \in byPeer'[sess[t].peer] \intersect recorded : IsConfirmed(u)
                      \/ /\ Cardinality(recorded') = GlobalSessionCap
                         /\ \A u \in recorded' \intersect recorded : IsConfirmed(u)
    OBVIOUS
  <2>1. CASE \E p \in Peers, s \in Sids : DialDone(p, s)
    BY <2>1, PutTakesConfirmedLast DEF DialDone
  <2>2. CASE \E p \in Peers, s \in Sids : InboundHandshake(p, s)
    BY <2>2, PutTakesConfirmedLast DEF InboundHandshake
  <2>3. ASSUME NEW s, Seal(s) PROVE recorded' = recorded
    BY <2>3 DEF Seal
  <2>4. CASE \/ \E p \in Peers : EnsureSession(p) \/ Send(p) \/ RemoveByPeer(p)
             \/ DialFailed \/ Tick
             \/ \E s \in Sids : Reply(s) \/ Open(s)
             \/ UNCHANGED vars
    BY <2>3, <2>4, Zenon DEF EnsureSession, Send, RemoveByPeer, DialFailed, Tick, Reply, Open, vars
  <2> QED
    BY <2>1, <2>2, <2>4 DEF Next
<1> QED
  BY <1>1, StoreInvariant, PTL DEF Spec, ConfirmedLastResort
=============================================================================
