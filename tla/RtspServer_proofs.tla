-------------------------- MODULE RtspServer_proofs -------------------------
(***************************************************************************)
(* The RTSP server for any number of clients, of PLAY requests and of      *)
(* frames, with and without SETUP and the withdrawal of the stream.        *)
(***************************************************************************)
EXTENDS RtspServer, SequenceTheorems, TLAPS

Distinct(s) == \A i, j \in DOMAIN s : s[i] = s[j] => i = j

(* find and erase, in a list without repetitions: exactly one element goes *)
LEMMA WithoutProperties ==
  ASSUME NEW S, NEW s \in Seq(S), NEW e, Distinct(s)
  PROVE  /\ Without(s, e) \in Seq(S)
         /\ Distinct(Without(s, e))
         /\ ToSet(Without(s, e)) = ToSet(s) \ {e}
<1>0. Len(s) \in Nat /\ DOMAIN s = 1 .. Len(s) /\ \A i \in 1 .. Len(s) : s[i] \in S
  BY LenProperties, ElementOfSeq
<1>1. CASE e \notin ToSet(s)
  BY <1>1 DEF Without
<1>2. CASE e \in ToSet(s)
  <2> DEFINE k == CHOOSE j \in DOMAIN s : s[j] = e
             w == RemoveAt(s, k)
  <2>1. k \in 1 .. Len(s) /\ s[k] = e
    BY <1>0, <1>2 DEF ToSet
  <2>2. Without(s, e) = w
    BY <1>2 DEF Without
  <2> HIDE DEF k
  <2>3. /\ SubSeq(s, 1, k - 1) \in Seq(S) /\ Len(SubSeq(s, 1, k - 1)) = k - 1
        /\ \A i \in 1 .. k - 1 : SubSeq(s, 1, k - 1)[i] = s[i]
    <3>1. 1 \in Int /\ k - 1 \in Int /\ \A i \in 1 .. k - 1 : s[i] \in S
      BY <1>0, <2>1
    <3>2. /\ SubSeq(s, 1, k - 1) \in Seq(S)
          /\ Len(SubSeq(s, 1, k - 1)) = IF 1 <= k - 1 THEN (k - 1) - 1 + 1 ELSE 0
          /\ \A i \in 1 .. (k - 1) - 1 + 1 : SubSeq(s, 1, k - 1)[i] = s[1 + i - 1]
      BY <3>1, SubSeqProperties
    <3> QED BY <1>0, <2>1, <3>2
  <2>4. /\ SubSeq(s, k + 1, Len(s)) \in Seq(S) /\ Len(SubSeq(s, k + 1, Len(s))) = Len(s) - k
        /\ \A i \in 1 .. Len(s) - k : SubSeq(s, k + 1, Len(s))[i] = s[k + i]
    <3>0. k \in Nat /\ Len(s) \in Nat /\ 1 <= k /\ k <= Len(s)
      BY <1>0, <2>1
    <3>1. k + 1 \in Int /\ Len(s) \in Int
      BY <3>0
    <3>2. ASSUME NEW i \in k + 1 .. Len(s) PROVE s[i] \in S
      <4>1. i \in 1 .. Len(s)
        BY <3>0
      <4> QED BY <1>0, <4>1
    <3>3. /\ SubSeq(s, k + 1, Len(s)) \in Seq(S)
          /\ Len(SubSeq(s, k + 1, Len(s))) = IF k + 1 <= Len(s) THEN Len(s) - (k + 1) + 1 ELSE 0
          /\ \A i \in 1 .. Len(s) - (k + 1) + 1 : SubSeq(s, k + 1, Len(s))[i] = s[(k + 1) + i - 1]
      BY <3>1, <3>2, SubSeqProperties
    <3>4. Len(s) - (k + 1) + 1 = Len(s) - k /\ (~(k + 1 <= Len(s)) => Len(s) - k = 0)
      BY <3>0
    <3>5. ASSUME NEW i \in 1 .. Len(s) - k PROVE SubSeq(s, k + 1, Len(s))[i] = s[k + i]
      <4>1. (k + 1) + i - 1 = k + i
        BY <3>0
      <4> QED BY <3>3, <3>4, <4>1
    <3> QED BY <3>3, <3>4, <3>5
  <2>5. /\ w \in Seq(S) /\ Len(w) = Len(s) - 1
        /\ \A i \in 1 .. Len(s) - 1 : w[i] = IF i < k THEN s[i] ELSE s[i + 1]
    <3>1. /\ w \in Seq(S)
          /\ Len(w) = (k - 1) + (Len(s) - k)
          /\ \A i \in 1 .. (k - 1) + (Len(s) - k) :
               w[i] = IF i <= k - 1 THEN SubSeq(s, 1, k - 1)[i]
                                    ELSE SubSeq(s, k + 1, Len(s))[i - (k - 1)]
      <4> DEFINE u == SubSeq(s, 1, k - 1)
                 v == SubSeq(s, k + 1, Len(s))
      <4>1. u \in Seq(S) /\ v \in Seq(S) /\ Len(u) = k - 1 /\ Len(v) = Len(s) - k
        BY <2>3, <2>4
      <4>2. w = u \o v
        BY DEF RemoveAt
      <4> HIDE DEF u, v, w
      <4>3. /\ w \in Seq(S) /\ Len(w) = Len(u) + Len(v)
            /\ \A i \in 1 .. Len(u) + Len(v) : w[i] = IF i <= Len(u) THEN u[i] ELSE v[i - Len(u)]
        BY <4>1, <4>2, ConcatProperties
      <4> QED BY <4>1, <4>3 DEF u, v
    <3>2. ASSUME NEW i \in 1 .. Len(s) - 1 PROVE w[i] = IF i < k THEN s[i] ELSE s[i + 1]
      <4>1. CASE i <= k - 1
        BY <1>0, <2>1, <2>3, <3>1, <4>1
      <4>2. CASE ~(i <= k - 1)
        <5>0. k \in Nat /\ Len(s) \in Nat /\ 1 <= k /\ k <= Len(s) /\ i \in Nat
          BY <1>0, <2>1
        <5>1. i - (k - 1) \in 1 .. Len(s) - k /\ k + (i - (k - 1)) = i + 1
          BY <5>0, <4>2
        <5>2. SubSeq(s, k + 1, Len(s))[i - (k - 1)] = s[i + 1]
          BY <2>4, <5>1
        <5>3. i \in 1 .. (k - 1) + (Len(s) - k)
          BY <5>0
        <5>4. w[i] = SubSeq(s, k + 1, Len(s))[i - (k - 1)]
          BY <3>1, <5>3, <4>2
        <5>5. ~(i < k)
          BY <5>0, <4>2
        <5> QED BY <5>2, <5>4, <5>5
      <4> QED BY <4>1, <4>2
    <3> QED BY <1>0, <2>1, <3>1, <3>2
  <2> HIDE DEF w
  <2>6. DOMAIN w = 1 .. Len(s) - 1
    BY <2>5, LenProperties
  <2>7. Distinct(w)
    <3>1. ASSUME NEW i \in DOMAIN w
          PROVE  \E m \in DOMAIN s : w[i] = s[m] /\ m = IF i < k THEN i ELSE i + 1
      BY <1>0, <2>1, <2>5, <2>6
    <3>2. \A i, j \in DOMAIN w : i # j => (IF i < k THEN i ELSE i + 1) # (IF j < k THEN j ELSE j + 1)
      BY <1>0, <2>1, <2>6
    <3> QED BY <3>1, <3>2 DEF Distinct
  <2>8. \A i \in DOMAIN w : w[i] \in ToSet(s) \ {e}
    <3>1. ASSUME NEW i \in DOMAIN w PROVE \E m \in DOMAIN s : w[i] = s[m] /\ m # k
      <4>1. i \in Nat /\ k \in Nat /\ 1 <= i /\ i <= Len(s) - 1 /\ Len(s) \in Nat
        BY <1>0, <2>1, <2>6
      <4>2. CASE i < k
        BY <1>0, <2>5, <2>6, <4>1, <4>2
      <4>3. CASE ~(i < k)
        <5>1. i + 1 \in DOMAIN s /\ i + 1 # k
          BY <1>0, <4>1, <4>3
        <5>2. w[i] = s[i + 1]
          BY <2>5, <2>6, <4>3
        <5> QED BY <5>1, <5>2
      <4> QED BY <4>2, <4>3
    <3>2. \A m \in DOMAIN s : m # k => s[m] # e
      BY <1>0, <2>1 DEF Distinct
    <3> QED BY <3>1, <3>2 DEF ToSet
  <2>9. ASSUME NEW i \in DOMAIN s, s[i] # e PROVE \E j \in DOMAIN w : w[j] = s[i]
    <3>1. CASE i < k
      BY <1>0, <2>1, <2>5, <2>6, <2>9, <3>1
    <3>2. CASE i > k
      <4>1. i - 1 \in DOMAIN w /\ w[i - 1] = s[i]
        BY <1>0, <2>1, <2>5, <2>6, <3>2
      <4> QED BY <4>1
    <3> QED BY <1>0, <2>1, <2>9, <3>1, <3>2
  <2>10. ToSet(w) = ToSet(s) \ {e}
    BY <2>8, <2>9 DEF ToSet
  <2> QED BY <2>2, <2>5, <2>7, <2>10
<1> QED BY <1>1, <1>2

LEMMA AppendDistinct ==
  ASSUME NEW S, NEW s \in Seq(S), NEW e \in S, Distinct(s), e \notin ToSet(s)
  PROVE  /\ Append(s, e) \in Seq(S) /\ Distinct(Append(s, e))
         /\ ToSet(Append(s, e)) = ToSet(s) \union {e}
         /\ Len(Append(s, e)) = Len(s) + 1
         /\ \A i \in 1 .. Len(s) : Append(s, e)[i] = s[i]
         /\ Append(s, e)[Len(s) + 1] = e
<1>1. /\ Append(s, e) \in Seq(S) /\ Len(Append(s, e)) = Len(s) + 1
      /\ \A i \in 1 .. Len(s) : Append(s, e)[i] = s[i]
      /\ Append(s, e)[Len(s) + 1] = e
  BY AppendProperties
<1>2. DOMAIN Append(s, e) = 1 .. Len(s) + 1 /\ DOMAIN s = 1 .. Len(s) /\ Len(s) \in Nat
  BY <1>1, LenProperties
<1> QED BY <1>1, <1>2 DEF ToSet, Distinct

(* the handlers visit the list of tracks front to back *)
LEMMA TailProperties ==
  ASSUME NEW S, NEW s \in Seq(S), s # << >>, Distinct(s)
  PROVE  /\ Head(s) \in S /\ Tail(s) \in Seq(S)
         /\ Head(s) \in ToSet(s) /\ Distinct(Tail(s))
         /\ ToSet(Tail(s)) = ToSet(s) \ {Head(s)}
<1>1. /\ Tail(s) \in Seq(S) /\ Len(Tail(s)) = Len(s) - 1 /\ Head(s) \in S /\ Head(s) = s[1]
      /\ \A i \in 1 .. Len(Tail(s)) : Tail(s)[i] = s[i + 1]
  BY HeadTailProperties
<1>2. DOMAIN Tail(s) = 1 .. Len(s) - 1 /\ DOMAIN s = 1 .. Len(s) /\ Len(s) \in Nat /\ Len(s) >= 1
  BY <1>1, LenProperties, EmptySeq
<1>3. Head(s) \in ToSet(s)
  BY <1>1, <1>2 DEF ToSet
<1>4. Distinct(Tail(s))
  BY <1>1, <1>2 DEF Distinct
<1>5. ASSUME NEW i \in DOMAIN Tail(s) PROVE Tail(s)[i] \in ToSet(s) \ {Head(s)}
  BY <1>1, <1>2 DEF Distinct, ToSet
<1>6. ASSUME NEW i \in DOMAIN s, s[i] # Head(s) PROVE s[i] \in ToSet(Tail(s))
  <2>1. i - 1 \in DOMAIN Tail(s) /\ Tail(s)[i - 1] = s[i]
    BY <1>1, <1>2, <1>6
  <2> QED BY <2>1 DEF ToSet
<1>7. ToSet(Tail(s)) = ToSet(s) \ {Head(s)}
  BY <1>5, <1>6 DEF ToSet
<1> QED BY <1>1, <1>3, <1>4, <1>7

LEMMA EmptyProperties == Distinct(<< >>) /\ ToSet(<< >>) = {} /\ \A S : << >> \in Seq(S)
BY EmptySeq DEF Distinct, ToSet

LEMMA SingleProperties ==
  ASSUME NEW S, NEW e \in S
  PROVE  <<e>> \in Seq(S) /\ Distinct(<<e>>) /\ ToSet(<<e>>) = {e}
<1>1. <<e>> \in Seq(S) /\ DOMAIN <<e>> = 1 .. 1 /\ <<e>>[1] = e
  OBVIOUS
<1>2. Distinct(<<e>>)
  BY <1>1 DEF Distinct
<1>3. ToSet(<<e>>) = {e}
  BY <1>1 DEF ToSet
<1> QED BY <1>1, <1>2, <1>3

LEMMA SeqOfSubset ==
  ASSUME NEW S, NEW T, S \subseteq T, NEW s \in Seq(S)
  PROVE  s \in Seq(T)
<1>1. Len(s) \in Nat /\ s \in [1 .. Len(s) -> S]
  BY LenProperties
<1>2. s \in [1 .. Len(s) -> T]
  BY <1>1
<1> QED BY <1>1, <1>2, SeqDef

(* the tracks among two, in a fixed order *)
LEMMA OnlyProperties ==
  ASSUME NEW S, NEW a, NEW b, a # b, S \subseteq {a, b}
  PROVE  /\ Only(a, S) \o Only(b, S) \in Seq(S)
         /\ Distinct(Only(a, S) \o Only(b, S))
         /\ ToSet(Only(a, S) \o Only(b, S)) = S
<1>1. CASE a \in S /\ b \in S
  <2> DEFINE c == <<a>> \o <<b>>
  <2>1. Only(a, S) \o Only(b, S) = c
    BY <1>1 DEF Only
  <2>2. <<a>> \in Seq(S) /\ <<b>> \in Seq(S) /\ Len(<<a>>) = 1 /\ Len(<<b>>) = 1
        /\ <<a>>[1] = a /\ <<b>>[1] = b
    BY <1>1
  <2>3. /\ c \in Seq(S) /\ Len(c) = Len(<<a>>) + Len(<<b>>)
        /\ \A i \in 1 .. Len(<<a>>) + Len(<<b>>) :
             c[i] = IF i <= Len(<<a>>) THEN <<a>>[i] ELSE <<b>>[i - Len(<<a>>)]
    BY <2>2, ConcatProperties
  <2> HIDE DEF c
  <2>4. c[1] = a /\ c[2] = b /\ Len(c) = 2
    BY <2>2, <2>3
  <2>5. DOMAIN c = 1 .. 2
    BY <2>3, <2>4, LenProperties
  <2>6. Distinct(c)
    BY <2>4, <2>5 DEF Distinct
  <2>7. ToSet(c) = {a, b}
    BY <2>4, <2>5 DEF ToSet
  <2> QED BY <1>1, <2>1, <2>3, <2>6, <2>7
<1>2. CASE a \in S /\ b \notin S
  <2>1. Only(a, S) \o Only(b, S) = <<a>>
    BY <1>2, SingleProperties, ConcatEmptySeq DEF Only
  <2> QED BY <1>2, <2>1, SingleProperties
<1>3. CASE a \notin S /\ b \in S
  <2>1. Only(a, S) = << >> /\ Only(b, S) = <<b>> /\ S = {b}
    BY <1>3 DEF Only
  <2>2. <<b>> \in Seq(S) /\ Distinct(<<b>>) /\ ToSet(<<b>>) = {b}
    BY <1>3, SingleProperties
  <2>3. << >> \o <<b>> = <<b>>
    BY <2>2, ConcatEmptySeq
  <2> QED BY <2>1, <2>2, <2>3
<1>4. CASE a \notin S /\ b \notin S
  <2>1. Only(a, S) \o Only(b, S) = << >> /\ S = {}
    BY <1>4, EmptyProperties, ConcatEmptySeq DEF Only
  <2> QED BY <2>1, EmptyProperties
<1> QED BY <1>1, <1>2, <1>3, <1>4

-----------------------------------------------------------------------------
(* The inductive invariant for every number of PLAY requests.              *)

SavedMaps == UNION {[D -> Deliveries] : D \in SUBSET Tracks}

Types ==
  /\ pc \in [Sessions -> {"none", "read", "play", "teardown", "exit", "closed"}]
  /\ rtp \in [Sessions -> SUBSET Tracks]
  /\ plays \in [Sessions -> 0..MaxPlays]
  /\ todo \in [Sessions -> Seq(Tracks)]
  /\ saved \in [Sessions -> SavedMaps]
  /\ doomed \in [Sessions -> Deliveries \cup {NoDelivery}]
  /\ attached \in [Tracks -> Seq(Deliveries)]
  /\ alive \in SUBSET Deliveries
  /\ replaced \in SUBSET Deliveries
  /\ idx \in [Tracks -> Nat]
  /\ frame \in [Tracks -> 0..MaxFrames]
  /\ sent \in [Deliveries -> SUBSET (1..MaxFrames)]
  /\ removal \in {"none", "stopped", "untracked", "unlisted", "deleted"}
  /\ fault \in {"none", "noRtp", "gone", "freed"}

(* the loop of Deliver stays within the list, which it holds still *)
LoopBound ==
  \A t \in Tracks : /\ idx[t] <= Len(attached[t]) + 1
                    /\ idx[t] # 0 => frame[t] >= 1

(* what the handler of PLAY or the removal has still to visit *)
Visits ==
  \A s \in Sessions :
    /\ Distinct(todo[s])
    /\ pc[s] = "play" => plays[s] >= 1
    /\ pc[s] \in {"teardown", "exit"} => ToSet(todo[s]) \subseteq DOMAIN saved[s]

(* a delivery is on the list of its own track only, once, and saved under  *)
(* the name of its track by its own session                                *)
Placed ==
  /\ \A t \in Tracks : /\ Distinct(attached[t])
                       /\ \A d \in ToSet(attached[t]) : d[2] = t
  /\ \A s \in Sessions : \A t \in DOMAIN saved[s] :
       saved[s][t][1] = s /\ saved[s][t][2] = t

(* the deliveries allocated have the number of an earlier PLAY, or of this *)
(* one and a track already visited                                         *)
Numbered ==
  /\ \A d \in alive : d[3] <= plays[d[1]]
  /\ \A s \in Sessions : pc[s] = "play" =>
       \A t \in ToSet(todo[s]) : <<s, t, plays[s]>> \notin alive

(* the delivery about to be deleted is on no list any more *)
DoomedOut ==
  \A s \in Sessions : doomed[s] # NoDelivery =>
    /\ pc[s] \in {"teardown", "exit"} /\ todo[s] # << >>
    /\ doomed[s][1] = s
    /\ \A t \in Tracks : doomed[s] \notin ToSet(attached[t])

Inv == Types /\ LoopBound /\ Visits /\ Placed /\ Numbered /\ DoomedOut /\ AttachedAlive

LEMMA DeliveryFacts ==
  /\ \A s \in Sessions, t \in Tracks, p \in 1..MaxPlays : <<s, t, p>> \in Deliveries
  /\ \A d \in Deliveries : /\ d[1] \in Sessions /\ d[2] \in Tracks /\ d[3] \in 1..MaxPlays
                           /\ d = <<d[1], d[2], d[3]>> /\ d # NoDelivery
BY DEF Deliveries, NoDelivery

LEMMA SavedFacts ==
  ASSUME Types, NEW s \in Sessions
  PROVE  /\ DOMAIN saved[s] \subseteq Tracks
         /\ \A t \in DOMAIN saved[s] : saved[s][t] \in Deliveries
<1>1. saved[s] \in SavedMaps
  BY DEF Types
<1>2. PICK D \in SUBSET Tracks : saved[s] \in [D -> Deliveries]
  BY <1>1 DEF SavedMaps
<1> QED BY <1>2

LEMMA NothingSaved == << >> \in SavedMaps /\ DOMAIN << >> = {}
<1>1. DOMAIN << >> = {}
  OBVIOUS
<1>2. << >> \in [{} -> Deliveries]
  OBVIOUS
<1> QED BY <1>1, <1>2 DEF SavedMaps

LEMMA InvInit == Init => Inv
<1> SUFFICES ASSUME Init PROVE Inv
  OBVIOUS
<1> USE DEF Init
<1>1. Types
  BY ServerAssumption, NothingSaved, EmptyProperties DEF Types, NoDelivery
<1>2. LoopBound
  BY EmptySeq DEF LoopBound
<1>3. Visits
  BY EmptyProperties DEF Visits
<1>4. Placed
  BY EmptyProperties, NothingSaved DEF Placed
<1>5. Numbered
  BY DEF Numbered
<1>6. DoomedOut
  BY DEF DoomedOut
<1>7. AttachedAlive
  BY EmptyProperties DEF AttachedAlive
<1> QED BY <1>1, <1>2, <1>3, <1>4, <1>5, <1>6, <1>7 DEF Inv

LEMMA FailStep ==
  ASSUME Inv, NEW w \in {"noRtp", "gone"}, Fail(w) PROVE Inv'
BY DEF Inv, Types, LoopBound, Visits, Placed, Numbered, DoomedOut, AttachedAlive, Fail,
       session, media

(* steps of a session thread that neither touch a track nor a delivery *)
LEMMA ReadingStep ==
  ASSUME Inv, NEW s \in Sessions, NEW p \in {"read", "closed"},
         pc' = [pc EXCEPT ![s] = p], doomed[s] = NoDelivery,
         rtp' \in [Sessions -> SUBSET Tracks],
         UNCHANGED <<plays, todo, saved, replaced, doomed, media, removal, fault>>
  PROVE  Inv'
<1> USE DEF Inv, media
<1>1. Types'
  BY DEF Types
<1>2. \A r \in Sessions : pc'[r] = IF r = s THEN p ELSE pc[r]
  BY DEF Types
<1>3. LoopBound' /\ Placed' /\ AttachedAlive'
  BY DEF LoopBound, Placed, AttachedAlive
<1>4. Visits'
  BY <1>2 DEF Visits
<1>5. Numbered'
  BY <1>2 DEF Numbered
<1>6. DoomedOut'
  BY <1>2 DEF DoomedOut
<1> QED BY <1>1, <1>3, <1>4, <1>5, <1>6

LEMMA ConnectStep ==
  ASSUME Inv, NEW s \in Sessions, Connect(s) PROVE Inv'
<1>1. doomed[s] = NoDelivery
  BY DEF Inv, DoomedOut, Connect
<1>2. rtp' \in [Sessions -> SUBSET Tracks]
  BY DEF Inv, Types, Connect
<1> QED BY <1>1, <1>2, ReadingStep DEF Connect

LEMMA HandleSetupStep ==
  ASSUME Inv, NEW s \in Sessions, NEW t \in Tracks, HandleSetup(s, t) PROVE Inv'
<1>1. doomed[s] = NoDelivery
  BY DEF Inv, DoomedOut, HandleSetup
<1>2. rtp' \in [Sessions -> SUBSET Tracks]
  BY DEF Inv, Types, HandleSetup
<1>3. pc' = [pc EXCEPT ![s] = "read"]
  BY DEF Inv, Types, HandleSetup
<1> QED BY <1>1, <1>2, <1>3, ReadingStep DEF HandleSetup

LEMMA PlayReplyStep ==
  ASSUME Inv, NEW s \in Sessions, PlayReply(s) PROVE Inv'
<1>1. doomed[s] = NoDelivery
  BY DEF Inv, DoomedOut, PlayReply
<1>2. rtp' \in [Sessions -> SUBSET Tracks]
  BY DEF Inv, Types, PlayReply
<1> QED BY <1>1, <1>2, ReadingStep DEF PlayReply

LEMMA OrderFacts ==
  ASSUME NEW order \in {AllTracks} \cup {<<t>> : t \in Tracks}
  PROVE  order \in Seq(Tracks) /\ Distinct(order)
<1>1. AllTracks \in Seq(Tracks) /\ Distinct(AllTracks)
  BY ServerAssumption, OnlyProperties DEF AllTracks
<1>2. \A t \in Tracks : <<t>> \in Seq(Tracks) /\ Distinct(<<t>>)
  BY SingleProperties
<1> QED BY <1>1, <1>2

LEMMA HandlePlayStep ==
  ASSUME Inv, NEW s \in Sessions, NEW order \in {AllTracks} \cup {<<t>> : t \in Tracks},
         HandlePlay(s, order)
  PROVE  Inv'
<1>1. CASE Listed /\ \A t \in ToSet(order) : InAggregate(t)
  <2> USE <1>1 DEF Inv
  <2>1. /\ pc[s] = "read" /\ plays[s] < MaxPlays
        /\ pc' = [pc EXCEPT ![s] = "play"]
        /\ plays' = [plays EXCEPT ![s] = @ + 1]
        /\ todo' = [todo EXCEPT ![s] = order]
        /\ UNCHANGED <<rtp, saved, replaced, doomed, attached, alive, idx, frame, sent, removal, fault>>
    BY DEF HandlePlay, media
  <2>2. /\ \A r \in Sessions : pc'[r] = IF r = s THEN "play" ELSE pc[r]
        /\ \A r \in Sessions : plays'[r] = IF r = s THEN plays[r] + 1 ELSE plays[r]
        /\ \A r \in Sessions : todo'[r] = IF r = s THEN order ELSE todo[r]
    BY <2>1 DEF Types
  <2>3. plays[s] \in Nat /\ plays[s] + 1 \in 0..MaxPlays
    BY <2>1, ServerAssumption DEF Types
  <2>4. Types'
    BY <2>1, <2>3, OrderFacts DEF Types
  <2>5. LoopBound' /\ Placed' /\ AttachedAlive'
    BY <2>1 DEF LoopBound, Placed, AttachedAlive
  <2>6. Visits'
    BY <2>1, <2>2, <2>3, OrderFacts DEF Visits
  <2>7. \A d \in alive : d[1] \in Sessions /\ plays[d[1]] \in Nat /\ d[3] \in Nat
    BY DeliveryFacts DEF Types
  <2>8. \A d \in alive : d[3] <= plays'[d[1]]
    BY <2>2, <2>7 DEF Numbered
  <2>9. \A t : <<s, t, plays[s] + 1>> \notin alive
    BY <2>3 DEF Numbered
  <2>10. Numbered'
    BY <2>1, <2>2, <2>8, <2>9 DEF Numbered
  <2>11. DoomedOut'
    BY <2>1, <2>2 DEF DoomedOut
  <2> QED BY <2>4, <2>5, <2>6, <2>10, <2>11
<1>2. CASE ~(Listed /\ \A t \in ToSet(order) : InAggregate(t))
  BY <1>2, FailStep DEF HandlePlay
<1> QED BY <1>1, <1>2

LEMMA StartRemovingStep ==
  ASSUME Inv, NEW s \in Sessions, NEW how \in {"teardown", "exit"}, pc[s] = "read",
         StartRemoving(s, how)
  PROVE  Inv'
<1>1. CASE Listed \/ DOMAIN saved[s] = {}
  <2> USE <1>1 DEF Inv
  <2> DEFINE order == Only("audio", DOMAIN saved[s]) \o Only("video", DOMAIN saved[s])
  <2>1. /\ pc' = [pc EXCEPT ![s] = how]
        /\ todo' = [todo EXCEPT ![s] = order]
        /\ UNCHANGED <<rtp, plays, saved, replaced, doomed, attached, alive, idx, frame, sent, removal, fault>>
    BY DEF StartRemoving, media
  <2>2. DOMAIN saved[s] \subseteq Tracks
    BY SavedFacts
  <2>3. /\ order \in Seq(DOMAIN saved[s]) /\ Distinct(order) /\ ToSet(order) = DOMAIN saved[s]
    BY <2>2, ServerAssumption, OnlyProperties
  <2>4. order \in Seq(Tracks)
    BY <2>2, <2>3, SeqOfSubset
  <2> HIDE DEF order
  <2>5. /\ \A r \in Sessions : pc'[r] = IF r = s THEN how ELSE pc[r]
        /\ \A r \in Sessions : todo'[r] = IF r = s THEN order ELSE todo[r]
    BY <2>1 DEF Types
  <2>6. Types'
    BY <2>1, <2>4 DEF Types
  <2>7. LoopBound' /\ Placed' /\ AttachedAlive'
    BY <2>1 DEF LoopBound, Placed, AttachedAlive
  <2>8. Visits'
    BY <2>1, <2>3, <2>5 DEF Visits
  <2>9. Numbered'
    BY <2>1, <2>5 DEF Numbered
  <2>10. DoomedOut'
    BY <2>1, <2>5 DEF DoomedOut
  <2> QED BY <2>6, <2>7, <2>8, <2>9, <2>10
<1>2. CASE ~(Listed \/ DOMAIN saved[s] = {})
  BY <1>2, FailStep DEF StartRemoving
<1> QED BY <1>1, <1>2

LEMMA ClientStep ==
  ASSUME Inv, NEW s \in Sessions, Client(s) PROVE Inv'
<1>1. CASE Connect(s)
  BY <1>1, ConnectStep
<1>2. CASE \E t \in Tracks : HandleSetup(s, t)
  BY <1>2, HandleSetupStep
<1>3. CASE \E order \in {AllTracks} \cup {<<t>> : t \in Tracks} : HandlePlay(s, order)
  BY <1>3, HandlePlayStep
<1>4. CASE HandleTearDown(s)
  BY <1>4, StartRemovingStep DEF HandleTearDown
<1>5. CASE Disconnect(s)
  BY <1>5, StartRemovingStep DEF Disconnect
<1> QED BY <1>1, <1>2, <1>3, <1>4, <1>5 DEF Client

LEMMA PlayTrackStep ==
  ASSUME Inv, NEW s \in Sessions, PlayTrack(s) PROVE Inv'
<1> DEFINE t == Head(todo[s])
           d == <<s, t, plays[s]>>
<1> USE DEF Inv
<1>1. /\ pc[s] = "play" /\ todo[s] # << >> /\ idx[t] = 0
      /\ alive' = alive \cup {d}
      /\ attached' = [attached EXCEPT ![t] = Append(@, d)]
      /\ saved' = [saved EXCEPT ![s] =
                     [u \in DOMAIN @ \cup {t} |-> IF u = t THEN d ELSE @[u]]]
      /\ replaced' = replaced \cup {saved[s][u] : u \in DOMAIN saved[s] \cap {t}}
      /\ todo' = [todo EXCEPT ![s] = Tail(@)]
      /\ UNCHANGED <<pc, rtp, plays, doomed, idx, frame, sent, removal, fault>>
  BY DEF PlayTrack
<1>2. todo[s] \in Seq(Tracks) /\ Distinct(todo[s])
  BY DEF Types, Visits
<1>3. /\ t \in Tracks /\ t \in ToSet(todo[s]) /\ Tail(todo[s]) \in Seq(Tracks)
      /\ Distinct(Tail(todo[s])) /\ ToSet(Tail(todo[s])) = ToSet(todo[s]) \ {t}
  BY <1>1, <1>2, TailProperties
<1>4. plays[s] \in 1..MaxPlays
  BY <1>1, ServerAssumption DEF Types, Visits
<1>5. d \in Deliveries /\ d[1] = s /\ d[2] = t /\ d[3] = plays[s]
  BY <1>3, <1>4, DeliveryFacts
<1>6. d \notin alive
  BY <1>1, <1>3 DEF Numbered
<1>7. attached[t] \in Seq(Deliveries) /\ Distinct(attached[t]) /\ d \notin ToSet(attached[t])
  BY <1>3, <1>6 DEF Types, Placed, AttachedAlive
<1> DEFINE new == [u \in DOMAIN saved[s] \cup {t} |-> IF u = t THEN d ELSE saved[s][u]]
<1> HIDE DEF t, d
<1>8. /\ Append(attached[t], d) \in Seq(Deliveries) /\ Distinct(Append(attached[t], d))
      /\ ToSet(Append(attached[t], d)) = ToSet(attached[t]) \union {d}
      /\ Len(Append(attached[t], d)) = Len(attached[t]) + 1
  BY <1>5, <1>7, AppendDistinct
<1>9. new \in SavedMaps
  <2>1. DOMAIN saved[s] \cup {t} \in SUBSET Tracks
    BY <1>3, SavedFacts
  <2>2. new \in [DOMAIN saved[s] \cup {t} -> Deliveries]
    BY <1>5, SavedFacts
  <2> QED BY <2>1, <2>2 DEF SavedMaps
<1>10. /\ saved' = [saved EXCEPT ![s] = new]
       /\ DOMAIN new = DOMAIN saved[s] \cup {t}
       /\ \A u \in DOMAIN new : new[u] = IF u = t THEN d ELSE saved[s][u]
  BY <1>1 DEF Types
<1> HIDE DEF new
<1>11. /\ \A u \in Tracks : attached'[u] = IF u = t THEN Append(attached[t], d) ELSE attached[u]
       /\ \A r \in Sessions : todo'[r] = IF r = s THEN Tail(todo[s]) ELSE todo[r]
       /\ \A r \in Sessions : saved'[r] = IF r = s THEN new ELSE saved[r]
  BY <1>1, <1>3, <1>10 DEF Types
<1>12. Types'
  <2>1. todo' \in [Sessions -> Seq(Tracks)] /\ alive' \in SUBSET Deliveries
    BY <1>1, <1>3, <1>5 DEF Types
  <2>2. saved' \in [Sessions -> SavedMaps]
    BY <1>9, <1>10 DEF Types
  <2>3. attached' \in [Tracks -> Seq(Deliveries)]
    <3>1. attached' = [attached EXCEPT ![t] = Append(attached[t], d)]
      BY <1>1
    <3> QED BY <1>8, <3>1 DEF Types
  <2>4. replaced' \in SUBSET Deliveries
    BY <1>1, SavedFacts DEF Types
  <2> QED BY <2>1, <2>2, <2>3, <2>4, <1>1 DEF Types
<1>13. LoopBound'
  <2>1. \A u \in Tracks : Len(attached[u]) \in Nat
    BY LenProperties DEF Types
  <2>2. \A u \in Tracks : Len(attached'[u]) \in {Len(attached[u]), Len(attached[u]) + 1}
    BY <1>8, <1>11
  <2>3. \A u \in Tracks : idx[u] \in Nat /\ idx[u] <= Len(attached[u]) + 1
    BY DEF LoopBound, Types
  <2>4. idx' = idx /\ frame' = frame
    BY <1>1
  <2>5. \A n, l, m \in Nat : n <= l + 1 /\ m \in {l, l + 1} => n <= m + 1
    OBVIOUS
  <2>6. \A u \in Tracks : idx[u] <= Len(attached'[u]) + 1
    BY <2>1, <2>2, <2>3, <2>5
  <2> QED BY <2>4, <2>6 DEF LoopBound
<1>14. Visits'
  BY <1>1, <1>3, <1>11 DEF Visits
<1>15. Placed'
  BY <1>3, <1>5, <1>8, <1>10, <1>11 DEF Placed
<1>16. Numbered'
  <2>1. \A a \in alive' : a[3] <= plays'[a[1]]
    <3>1. plays[s] <= plays[s]
      BY <1>4
    <3> QED BY <1>1, <1>5, <3>1 DEF Numbered
  <2>2. ASSUME NEW r \in Sessions, pc'[r] = "play", NEW u \in ToSet(todo'[r])
        PROVE  <<r, u, plays'[r]>> \notin alive'
    <3>1. u \in ToSet(todo[r]) /\ <<r, u, plays[r]>> \notin alive
      BY <1>1, <1>3, <1>11, <2>2 DEF Numbered
    <3>2. <<r, u, plays[r]>> # d
      BY <1>3, <1>5, <1>11, <2>2
    <3> QED BY <1>1, <3>1, <3>2
  <2> QED BY <2>1, <2>2 DEF Numbered
<1>17. DoomedOut'
  <2>1. ASSUME NEW r \in Sessions, doomed[r] # NoDelivery PROVE r # s /\ doomed[r] # d
    BY <1>1, <1>5, <2>1 DEF DoomedOut
  <2> QED BY <1>1, <1>8, <1>11, <2>1 DEF DoomedOut
<1>18. AttachedAlive'
  BY <1>1, <1>8, <1>11 DEF AttachedAlive
<1> QED BY <1>12, <1>13, <1>14, <1>15, <1>16, <1>17, <1>18

LEMMA PlayTrackFailsStep ==
  ASSUME Inv, NEW s \in Sessions, PlayTrackFails(s) PROVE Inv'
BY FailStep DEF PlayTrackFails

(* what find and erase leaves of the list *)
LEMMA MediaAfterFacts ==
  ASSUME Inv, NEW t \in Tracks, NEW d
  PROVE  /\ MediaAfter(t, d) \in Seq(Deliveries) /\ Distinct(MediaAfter(t, d))
         /\ ToSet(MediaAfter(t, d)) = ToSet(attached[t]) \ {d}
BY WithoutProperties DEF Inv, Types, Placed, MediaAfter

LEMMA DeleteDeliveryStep ==
  ASSUME Inv, NEW s \in Sessions, DeleteDelivery(s) PROVE Inv'
<1> DEFINE t == Head(todo[s])
           d == saved[s][t]
<1> USE DEF Inv
<1>1. /\ pc[s] \in {"teardown", "exit"} /\ todo[s] # << >> /\ doomed[s] = NoDelivery /\ idx[t] = 0
      /\ attached' = [attached EXCEPT ![t] = MediaAfter(t, d)]
      /\ doomed' = [doomed EXCEPT ![s] = d]
      /\ UNCHANGED <<pc, rtp, plays, todo, saved, replaced, alive, idx, frame, sent, removal, fault>>
  BY DEF DeleteDelivery, MayDetach
<1>2. todo[s] \in Seq(Tracks) /\ Distinct(todo[s])
  BY DEF Types, Visits
<1>3. t \in Tracks /\ t \in ToSet(todo[s]) /\ t \in DOMAIN saved[s]
  BY <1>1, <1>2, TailProperties DEF Visits
<1>4. d \in Deliveries /\ d[1] = s /\ d[2] = t
  BY <1>3, SavedFacts DEF Placed
<1> HIDE DEF t, d
<1>5. /\ MediaAfter(t, d) \in Seq(Deliveries) /\ Distinct(MediaAfter(t, d))
      /\ ToSet(MediaAfter(t, d)) = ToSet(attached[t]) \ {d}
  BY <1>3, MediaAfterFacts
<1>6. /\ \A u \in Tracks : attached'[u] = IF u = t THEN MediaAfter(t, d) ELSE attached[u]
      /\ \A r \in Sessions : doomed'[r] = IF r = s THEN d ELSE doomed[r]
  BY <1>1 DEF Types
<1>7. Types'
  <2>1. /\ attached' \in [Tracks -> Seq(Deliveries)]
        /\ doomed' \in [Sessions -> Deliveries \cup {NoDelivery}]
    BY <1>1, <1>4, <1>5 DEF Types
  <2> QED BY <2>1, <1>1 DEF Types
<1>8. LoopBound'
  <2>1. \A u \in Tracks : Len(attached'[u]) \in Nat
    BY <1>7, LenProperties DEF Types
  <2> QED BY <1>1, <1>6, <2>1 DEF LoopBound
<1>9. Visits' /\ Numbered'
  BY <1>1 DEF Visits, Numbered
<1>10. Placed'
  BY <1>1, <1>5, <1>6 DEF Placed
<1>11. DoomedOut'
  <2>1. \A u \in Tracks : d \notin ToSet(attached'[u])
    BY <1>4, <1>5, <1>6 DEF Placed
  <2>2. \A r \in Sessions : \A u \in Tracks :
          doomed[r] \notin ToSet(attached[u]) => doomed[r] \notin ToSet(attached'[u])
    BY <1>5, <1>6
  <2> QED BY <1>1, <1>4, <1>6, <2>1, <2>2 DEF DoomedOut
<1>12. AttachedAlive'
  BY <1>1, <1>5, <1>6 DEF AttachedAlive
<1> QED BY <1>7, <1>8, <1>9, <1>10, <1>11, <1>12

LEMMA DeleteStep ==
  ASSUME Inv, NEW s \in Sessions, Delete(s) PROVE Inv'
<1> USE DEF Inv
<1>1. /\ doomed[s] # NoDelivery
      /\ alive' = alive \ {doomed[s]}
      /\ doomed' = [doomed EXCEPT ![s] = NoDelivery]
      /\ todo' = [todo EXCEPT ![s] = Tail(@)]
      /\ UNCHANGED <<pc, rtp, plays, saved, replaced, attached, idx, frame, sent, removal, fault>>
  BY DEF Delete, AliveAfter
<1>2. /\ pc[s] \in {"teardown", "exit"} /\ todo[s] # << >>
      /\ \A t \in Tracks : doomed[s] \notin ToSet(attached[t])
  BY <1>1 DEF DoomedOut
<1>3. /\ Tail(todo[s]) \in Seq(Tracks) /\ Distinct(Tail(todo[s]))
      /\ ToSet(Tail(todo[s])) \subseteq ToSet(todo[s])
  BY <1>2, TailProperties DEF Types, Visits
<1>4. /\ \A r \in Sessions : todo'[r] = IF r = s THEN Tail(todo[s]) ELSE todo[r]
      /\ \A r \in Sessions : doomed'[r] = IF r = s THEN NoDelivery ELSE doomed[r]
  BY <1>1 DEF Types
<1>5. Types'
  <2>1. /\ todo' \in [Sessions -> Seq(Tracks)]
        /\ doomed' \in [Sessions -> Deliveries \cup {NoDelivery}]
        /\ alive' \in SUBSET Deliveries
    BY <1>1, <1>3 DEF Types
  <2> QED BY <2>1, <1>1 DEF Types
<1>6. LoopBound' /\ Placed'
  BY <1>1 DEF LoopBound, Placed
<1>7. Visits'
  BY <1>1, <1>2, <1>3, <1>4 DEF Visits
<1>8. Numbered'
  BY <1>1, <1>2, <1>4 DEF Numbered
<1>9. DoomedOut'
  BY <1>1, <1>4 DEF DoomedOut
<1>10. AttachedAlive'
  BY <1>1, <1>2 DEF AttachedAlive
<1> QED BY <1>5, <1>6, <1>7, <1>8, <1>9, <1>10

LEMMA SkipDeliveryStep ==
  ASSUME Inv, NEW s \in Sessions, SkipDelivery(s) PROVE Inv'
<1>1. CASE removal = "deleted"
  BY <1>1, FailStep DEF SkipDelivery
<1>2. CASE removal # "deleted"
  <2> USE <1>2 DEF Inv
  <2>1. /\ pc[s] \in {"teardown", "exit"} /\ todo[s] # << >> /\ doomed[s] = NoDelivery
        /\ todo' = [todo EXCEPT ![s] = Tail(@)]
        /\ UNCHANGED <<pc, rtp, plays, saved, replaced, doomed, attached, alive, idx, frame, sent, removal, fault>>
    BY DEF SkipDelivery, media
  <2>2. /\ Tail(todo[s]) \in Seq(Tracks) /\ Distinct(Tail(todo[s]))
        /\ ToSet(Tail(todo[s])) \subseteq ToSet(todo[s])
    BY <2>1, TailProperties DEF Types, Visits
  <2>3. \A r \in Sessions : todo'[r] = IF r = s THEN Tail(todo[s]) ELSE todo[r]
    BY <2>1 DEF Types
  <2>4. Types'
    BY <2>1, <2>2 DEF Types
  <2>5. LoopBound' /\ Placed' /\ AttachedAlive'
    BY <2>1 DEF LoopBound, Placed, AttachedAlive
  <2>6. Visits'
    BY <2>1, <2>2, <2>3 DEF Visits
  <2>7. Numbered'
    BY <2>1, <2>3 DEF Numbered
  <2>8. DoomedOut'
    BY <2>1, <2>3 DEF DoomedOut
  <2> QED BY <2>4, <2>5, <2>6, <2>7, <2>8
<1> QED BY <1>1, <1>2

LEMMA FinishRemovingStep ==
  ASSUME Inv, NEW s \in Sessions, FinishRemoving(s) PROVE Inv'
<1> DEFINE p == IF pc[s] = "teardown" THEN "exit" ELSE "closed"
<1> USE DEF Inv
<1>1. /\ pc[s] \in {"teardown", "exit"} /\ todo[s] = << >> /\ doomed[s] = NoDelivery
      /\ saved' = [saved EXCEPT ![s] = << >>]
      /\ pc' = [pc EXCEPT ![s] = p]
      /\ UNCHANGED <<rtp, plays, todo, replaced, doomed, attached, alive, idx, frame, sent, removal, fault>>
  BY DEF FinishRemoving, media
<1>2. p \in {"exit", "closed"}
  OBVIOUS
<1> HIDE DEF p
<1>3. /\ \A r \in Sessions : saved'[r] = IF r = s THEN << >> ELSE saved[r]
      /\ \A r \in Sessions : pc'[r] = IF r = s THEN p ELSE pc[r]
  BY <1>1 DEF Types
<1>4. Types'
  <2>1. /\ saved' \in [Sessions -> SavedMaps]
        /\ pc' \in [Sessions -> {"none", "read", "play", "teardown", "exit", "closed"}]
    BY <1>1, <1>2, NothingSaved DEF Types
  <2> QED BY <2>1, <1>1 DEF Types
<1>5. LoopBound' /\ AttachedAlive'
  BY <1>1 DEF LoopBound, AttachedAlive
<1>6. Visits'
  BY <1>1, <1>2, <1>3, EmptyProperties DEF Visits
<1>7. Placed'
  BY <1>1, <1>3, NothingSaved DEF Placed
<1>8. Numbered'
  BY <1>1, <1>2, <1>3 DEF Numbered
<1>9. DoomedOut'
  BY <1>1, <1>3 DEF DoomedOut
<1> QED BY <1>4, <1>5, <1>6, <1>7, <1>8, <1>9

LEMMA SessionStep ==
  ASSUME Inv, NEW s \in Sessions, Session(s) PROVE Inv'
BY PlayTrackStep, PlayTrackFailsStep, PlayReplyStep, DeleteDeliveryStep, DeleteStep,
   SkipDeliveryStep, FinishRemovingStep DEF Session

LEMMA EncoderStep ==
  ASSUME Inv, NEW t \in Tracks, Encoder(t) PROVE Inv'
<1> USE DEF Inv
<1>0. Len(attached[t]) \in Nat /\ DOMAIN attached[t] = 1 .. Len(attached[t])
      /\ idx[t] \in Nat /\ frame[t] \in 0..MaxFrames /\ MaxFrames \in Nat
  BY LenProperties, ServerAssumption DEF Types
<1>1. CASE Fail("gone")
  BY <1>1, FailStep
<1>2. CASE Deliver(t) /\ ~TrackFreed(t)
  <2>1. /\ idx[t] = 0 /\ frame[t] < MaxFrames
        /\ idx' = [idx EXCEPT ![t] = 1]
        /\ frame' = [frame EXCEPT ![t] = @ + 1]
        /\ UNCHANGED <<pc, rtp, plays, todo, saved, replaced, doomed, attached, alive, sent, removal, fault>>
    BY <1>2 DEF Deliver, session
  <2>2. idx' \in [Tracks -> Nat] /\ frame' \in [Tracks -> 0..MaxFrames]
    BY <1>0, <2>1 DEF Types
  <2>3. Types'
    BY <2>1, <2>2 DEF Types
  <2>4. LoopBound'
    <3>1. \A u \in Tracks : idx'[u] = IF u = t THEN 1 ELSE idx[u]
      BY <2>1 DEF Types
    <3>2. \A u \in Tracks : frame'[u] = IF u = t THEN frame[t] + 1 ELSE frame[u]
      BY <2>1 DEF Types
    <3> QED BY <1>0, <2>1, <3>1, <3>2 DEF LoopBound
  <2> QED BY <2>1, <2>3, <2>4 DEF Visits, Placed, Numbered, DoomedOut, AttachedAlive
<1>3. CASE DeliverTo(t) /\ ~Fail("gone")
  <2> DEFINE d == attached[t][idx[t]]
  <2>1. idx[t] \in DOMAIN attached[t]
    BY <1>3 DEF DeliverTo
  <2>2. d \in Deliveries /\ d \in alive
    <3>1. d \in ToSet(attached[t])
      BY <2>1 DEF ToSet
    <3> QED BY <3>1 DEF AttachedAlive, Types
  <2>3. /\ idx' = [idx EXCEPT ![t] = @ + 1]
        /\ sent' = [sent EXCEPT ![d] = @ \cup {frame[t]}]
        /\ UNCHANGED <<pc, rtp, plays, todo, saved, replaced, doomed, attached, alive, frame, removal, fault>>
    BY <1>3, <2>2 DEF DeliverTo, session
  <2>4. frame[t] \in 1..MaxFrames
    BY <1>0, <2>1 DEF LoopBound
  <2> HIDE DEF d
  <2>5. idx' \in [Tracks -> Nat]
    BY <1>0, <2>3 DEF Types
  <2>6. sent' \in [Deliveries -> SUBSET (1..MaxFrames)]
    BY <2>2, <2>3, <2>4 DEF Types
  <2>7. Types'
    BY <2>3, <2>5, <2>6 DEF Types
  <2>8. LoopBound'
    <3>1. \A u \in Tracks : idx'[u] = IF u = t THEN idx[t] + 1 ELSE idx[u]
      BY <2>3 DEF Types
    <3> QED BY <1>0, <2>1, <2>3, <2>4, <3>1 DEF LoopBound
  <2> QED BY <2>3, <2>7, <2>8 DEF Visits, Placed, Numbered, DoomedOut, AttachedAlive
<1>4. CASE Delivered(t) /\ ~TrackFreed(t)
  <2>1. /\ idx' = [idx EXCEPT ![t] = 0]
        /\ UNCHANGED <<pc, rtp, plays, todo, saved, replaced, doomed, attached, alive, frame, sent, removal, fault>>
    BY <1>4 DEF Delivered, session
  <2>2. Types'
    BY <2>1 DEF Types
  <2>3. LoopBound'
    <3>1. \A u \in Tracks : idx'[u] = IF u = t THEN 0 ELSE idx[u]
      BY <2>1 DEF Types
    <3> QED BY <1>0, <2>1, <3>1 DEF LoopBound
  <2> QED BY <2>1, <2>2, <2>3 DEF Visits, Placed, Numbered, DoomedOut, AttachedAlive
<1> QED BY <1>1, <1>2, <1>3, <1>4 DEF Encoder, Deliver, Delivered

LEMMA RemovalStep ==
  ASSUME Inv, RemoveMediaDelivery PROVE Inv'
<1>1. /\ removal \in {"none", "stopped", "untracked", "unlisted"}
      /\ UNCHANGED <<pc, rtp, plays, todo, saved, replaced, doomed, attached, alive, idx, frame, sent, fault>>
  BY DEF Inv, Types, RemoveMediaDelivery, session, media
<1>2. removal' \in {"stopped", "untracked", "unlisted", "deleted"}
  BY <1>1 DEF RemoveMediaDelivery
<1> QED BY <1>1, <1>2 DEF Inv, Types, LoopBound, Visits, Placed, Numbered, DoomedOut, AttachedAlive

LEMMA InvStep == Inv /\ [Next]_vars => Inv'
<1> SUFFICES ASSUME Inv, [Next]_vars PROVE Inv'
  OBVIOUS
<1>1. CASE Next
  BY <1>1, ClientStep, SessionStep, EncoderStep, RemovalStep DEF Next
<1>2. CASE UNCHANGED vars
  BY <1>2 DEF vars, session, media, Inv, Types, LoopBound, Visits, Placed, Numbered, DoomedOut,
              AttachedAlive
<1> QED BY <1>1, <1>2

LEMMA InvHolds == Spec => []Inv
<1> QED BY InvInit, InvStep, PTL DEF Spec

(* Every variable keeps its type, and the loop of Deliver never stands     *)
(* beyond the end of the list: nothing changes the list under it.          *)
THEOREM ServerTypes == Spec => []TypeOK
<1>1. Inv => TypeOK
  <2> SUFFICES ASSUME Inv PROVE TypeOK
    OBVIOUS
  <2>1. \A s \in Sessions : DOMAIN saved[s] \subseteq Tracks /\ doomed[s] \in Deliveries \cup {NoDelivery}
    BY SavedFacts DEF Inv, Types
  <2>2. \A t \in Tracks : idx[t] \in 0..(Len(attached[t]) + 1)
    <3>1. \A t \in Tracks : Len(attached[t]) \in Nat /\ idx[t] \in Nat
      BY LenProperties DEF Inv, Types
    <3> QED BY <3>1 DEF Inv, LoopBound
  <2> QED BY <2>1, <2>2 DEF Inv, Types, TypeOK
<1> QED BY <1>1, InvHolds, PTL

(* However many clients play, tear down and disconnect while the encoders  *)
(* run: what is on a list has not been deleted.                            *)
THEOREM ReachableDeliveriesLive == Spec => []AttachedAlive
<1>1. Inv => AttachedAlive
  BY DEF Inv
<1> QED BY <1>1, InvHolds, PTL

-----------------------------------------------------------------------------
(* What a player has been sent is an interval of frames.  While it is on   *)
(* the list the interval ends with the newest frame or, where the loop has *)
(* not come to it yet, with the one before.                                *)

Newest(t, i) == IF idx[t] = 0 \/ i < idx[t] THEN frame[t] ELSE frame[t] - 1

EndsAt(S, g) == S = {} \/ \E f \in Nat : f <= g /\ S = f..g

Runs ==
  /\ \A d \in Deliveries : \E g \in Int : EndsAt(sent[d], g)
  /\ \A t \in Tracks : \A i \in DOMAIN attached[t] : EndsAt(sent[attached[t][i]], Newest(t, i))

(* nothing was sent by a delivery that is not made yet *)
NotYet ==
  /\ \A d \in Deliveries : d[3] > plays[d[1]] => sent[d] = {}
  /\ \A s \in Sessions : pc[s] = "play" =>
       \A t \in ToSet(todo[s]) : sent[<<s, t, plays[s]>>] = {}

LEMMA RunsInit == Init => Runs /\ NotYet
BY EmptyProperties DEF Init, Runs, NotYet, EndsAt

(* what a session does to its own state *)
LEMMA NotYetStep ==
  ASSUME Inv, NotYet, [Next]_vars, UNCHANGED sent PROVE NotYet'
<1> USE DEF Inv
<1>1. ASSUME NEW s \in Sessions, NEW p, p # "play" \/ p = pc[s],
             UNCHANGED <<plays, todo>>, pc' = [pc EXCEPT ![s] = p]
      PROVE  NotYet'
  BY <1>1 DEF NotYet, Types
<1>2. ASSUME NEW s \in Sessions, UNCHANGED <<plays, pc>>, todo[s] # << >>,
             todo' = [todo EXCEPT ![s] = Tail(@)]
      PROVE  NotYet'
  <2>1. ToSet(Tail(todo[s])) \subseteq ToSet(todo[s])
    BY <1>2, TailProperties DEF Types, Visits
  <2>2. \A r \in Sessions : todo'[r] = IF r = s THEN Tail(todo[s]) ELSE todo[r]
    BY <1>2 DEF Types
  <2> QED BY <1>2, <2>1, <2>2 DEF NotYet
<1>3. ASSUME UNCHANGED <<plays, pc, todo>> PROVE NotYet'
  BY <1>3 DEF NotYet
<1>4. ASSUME NEW s \in Sessions, Client(s) PROVE NotYet'
  <2>1. CASE Connect(s) \/ \E t \in Tracks : HandleSetup(s, t)
    BY <1>1, <1>3, <2>1 DEF Connect, HandleSetup
  <2>2. ASSUME NEW how \in {"teardown", "exit"}, StartRemoving(s, how) PROVE NotYet'
    <3>1. CASE UNCHANGED <<plays, pc, todo>>
      BY <1>3, <3>1
    <3>2. CASE ~UNCHANGED <<plays, pc, todo>>
      <4>1. /\ plays' = plays /\ pc' = [pc EXCEPT ![s] = how]
            /\ \A r \in Sessions : r # s => todo'[r] = todo[r]
        BY <2>2, <3>2 DEF StartRemoving, Fail, session, Types
      <4> QED BY <4>1 DEF NotYet, Types
    <3> QED BY <3>1, <3>2
  <2>3. ASSUME NEW order \in {AllTracks} \cup {<<t>> : t \in Tracks}, HandlePlay(s, order)
        PROVE NotYet'
    <3>1. CASE UNCHANGED <<plays, pc, todo>>
      BY <1>3, <3>1
    <3>2. CASE ~UNCHANGED <<plays, pc, todo>>
      <4>1. /\ pc' = [pc EXCEPT ![s] = "play"]
            /\ plays' = [plays EXCEPT ![s] = @ + 1]
            /\ todo' = [todo EXCEPT ![s] = order]
            /\ plays[s] < MaxPlays
        BY <2>3, <3>2 DEF HandlePlay, Fail, session
      <4>2. /\ \A r \in Sessions : pc'[r] = IF r = s THEN "play" ELSE pc[r]
            /\ \A r \in Sessions : plays'[r] = IF r = s THEN plays[r] + 1 ELSE plays[r]
            /\ \A r \in Sessions : todo'[r] = IF r = s THEN order ELSE todo[r]
        BY <4>1 DEF Types
      <4>3. plays[s] \in Nat /\ plays[s] + 1 \in 1..MaxPlays
        BY <4>1, ServerAssumption DEF Types
      <4>4. \A d \in Deliveries : d[1] \in Sessions /\ plays[d[1]] \in Nat /\ d[3] \in Nat
        BY DeliveryFacts DEF Types
      <4>5. ASSUME NEW d \in Deliveries, d[3] > plays'[d[1]] PROVE sent'[d] = {}
        BY <4>2, <4>4, <4>5 DEF NotYet
      <4>6. ASSUME NEW t \in Tracks PROVE sent'[<<s, t, plays[s] + 1>>] = {}
        <5>1. <<s, t, plays[s] + 1>> \in Deliveries
          BY <4>3, DeliveryFacts
        <5>2. plays[s] + 1 > plays[s]
          BY <4>3
        <5> QED BY <5>1, <5>2 DEF NotYet
      <4>7. ToSet(order) \subseteq Tracks
        BY OrderFacts, ElementOfSeq, LenProperties DEF ToSet
      <4> QED BY <4>2, <4>5, <4>6, <4>7 DEF NotYet
    <3> QED BY <3>1, <3>2
  <2> QED BY <1>4, <2>1, <2>2, <2>3 DEF Client, HandleTearDown, Disconnect
<1>5. ASSUME NEW s \in Sessions, Session(s) PROVE NotYet'
  <2>1. CASE PlayTrack(s)
    BY <1>2, <2>1 DEF PlayTrack
  <2>2. CASE PlayReply(s)
    BY <1>1, <2>2 DEF PlayReply
  <2>3. CASE Delete(s)
    BY <1>2, <2>3 DEF Delete, DoomedOut
  <2>4. CASE SkipDelivery(s)
    BY <1>2, <1>3, <2>4 DEF SkipDelivery, Fail, session
  <2>5. CASE FinishRemoving(s)
    BY <1>1, <2>5 DEF FinishRemoving
  <2>6. CASE PlayTrackFails(s) \/ DeleteDelivery(s)
    BY <1>3, <2>6 DEF PlayTrackFails, DeleteDelivery, Fail, session
  <2> QED BY <1>5, <2>1, <2>2, <2>3, <2>4, <2>5, <2>6 DEF Session
<1>6. CASE \E t \in Tracks : Encoder(t)
  BY <1>3, <1>6 DEF Encoder, Deliver, DeliverTo, Delivered, Fail, session
<1>7. CASE RemoveMediaDelivery \/ UNCHANGED vars
  BY <1>3, <1>7 DEF RemoveMediaDelivery, vars, session
<1> QED BY <1>4, <1>5, <1>6, <1>7 DEF Next

LEMMA RunsQuiet ==
  ASSUME Runs, UNCHANGED <<attached, idx, frame, sent>> PROVE Runs'
BY DEF Runs, EndsAt, Newest

LEMMA RunsPlayTrack ==
  ASSUME Inv, Runs, NotYet, NEW s \in Sessions, PlayTrack(s) PROVE Runs'
<1> DEFINE t == Head(todo[s])
           d == <<s, t, plays[s]>>
<1> USE DEF Inv
<1>1. /\ pc[s] = "play" /\ todo[s] # << >>
      /\ attached' = [attached EXCEPT ![t] = Append(@, d)]
      /\ UNCHANGED <<idx, frame, sent>>
  BY DEF PlayTrack
<1>2. t \in Tracks /\ t \in ToSet(todo[s])
  BY <1>1, TailProperties DEF Types, Visits
<1>3. plays[s] \in 1..MaxPlays /\ d \in Deliveries
  BY <1>1, <1>2, ServerAssumption, DeliveryFacts DEF Types, Visits
<1>4. sent[d] = {}
  BY <1>1, <1>2 DEF NotYet
<1> HIDE DEF t, d
<1> DEFINE a == Append(attached[t], d)
<1>5. /\ Len(a) = Len(attached[t]) + 1 /\ Len(attached[t]) \in Nat
      /\ DOMAIN a = 1 .. Len(attached[t]) + 1 /\ DOMAIN attached[t] = 1 .. Len(attached[t])
      /\ \A i \in 1 .. Len(attached[t]) : a[i] = attached[t][i]
      /\ a[Len(attached[t]) + 1] = d
  <2>1. attached[t] \in Seq(Deliveries)
    BY <1>2 DEF Types
  <2>2. a \in Seq(Deliveries)
    BY <1>3, <2>1, AppendProperties
  <2> QED BY <1>3, <2>1, <2>2, AppendProperties, LenProperties
<1> HIDE DEF a
<1>6. \A u \in Tracks : attached'[u] = IF u = t THEN a ELSE attached[u]
  BY <1>1 DEF Types, a
<1>7. ASSUME NEW u \in Tracks, NEW i \in DOMAIN attached'[u]
      PROVE  EndsAt(sent'[attached'[u][i]], Newest(u, i)')
  <2>1. CASE u = t /\ i = Len(attached[t]) + 1
    BY <1>1, <1>2, <1>4, <1>5, <1>6, <2>1 DEF EndsAt
  <2>2. CASE ~(u = t /\ i = Len(attached[t]) + 1)
    <3>1. i \in DOMAIN attached[u] /\ attached'[u][i] = attached[u][i]
      BY <1>5, <1>6, <1>7, <2>2
    <3>2. EndsAt(sent[attached[u][i]], Newest(u, i))
      BY <3>1 DEF Runs
    <3> QED BY <1>1, <3>1, <3>2 DEF EndsAt, Newest
  <2> QED BY <2>1, <2>2
<1> QED BY <1>1, <1>7 DEF Runs, EndsAt

LEMMA RunsDeleteDelivery ==
  ASSUME Inv, Runs, NEW s \in Sessions, DeleteDelivery(s) PROVE Runs'
<1> DEFINE t == Head(todo[s])
           d == saved[s][t]
<1> USE DEF Inv
<1>1. /\ todo[s] # << >> /\ idx[t] = 0
      /\ attached' = [attached EXCEPT ![t] = MediaAfter(t, d)]
      /\ UNCHANGED <<idx, frame, sent>>
  BY DEF DeleteDelivery, MayDetach
<1>2. t \in Tracks
  BY <1>1, TailProperties DEF Types, Visits
<1> HIDE DEF t, d
<1>3. \A u \in Tracks : attached'[u] = IF u = t THEN MediaAfter(t, d) ELSE attached[u]
  BY <1>1 DEF Types
<1>4. ToSet(MediaAfter(t, d)) \subseteq ToSet(attached[t])
  BY <1>2, MediaAfterFacts
<1>5. ASSUME NEW u \in Tracks, NEW i \in DOMAIN attached'[u]
      PROVE  EndsAt(sent'[attached'[u][i]], Newest(u, i)')
  <2>1. CASE u = t
    <3>1. PICK j \in DOMAIN attached[t] : attached'[u][i] = attached[t][j]
      BY <1>3, <1>4, <1>5, <2>1 DEF ToSet
    <3>2. EndsAt(sent[attached[t][j]], Newest(t, j))
      BY <1>2, <3>1 DEF Runs
    <3>3. Newest(t, j) = frame[t] /\ Newest(u, i)' = frame[t]
      BY <1>1, <2>1 DEF Newest
    <3> QED BY <1>1, <3>1, <3>2, <3>3 DEF EndsAt
  <2>2. CASE u # t
    <3>1. i \in DOMAIN attached[u] /\ attached'[u][i] = attached[u][i]
      BY <1>3, <1>5, <2>2
    <3>2. EndsAt(sent[attached[u][i]], Newest(u, i))
      BY <3>1 DEF Runs
    <3> QED BY <1>1, <3>1, <3>2 DEF EndsAt, Newest
  <2> QED BY <2>1, <2>2
<1> QED BY <1>1, <1>5 DEF Runs, EndsAt

LEMMA IntervalGrows ==
  ASSUME NEW g \in Int, NEW f \in Nat, f <= g
  PROVE  (f..g) \cup {g + 1} = f..(g + 1)
OBVIOUS

LEMMA RunsEncoder ==
  ASSUME Inv, Runs, NEW t \in Tracks, Encoder(t) PROVE Runs'
<1> USE DEF Inv
<1>0. /\ \A u \in Tracks : Len(attached[u]) \in Nat /\ DOMAIN attached[u] = 1 .. Len(attached[u])
      /\ \A u \in Tracks : idx[u] \in Nat /\ frame[u] \in Nat
  BY LenProperties, ServerAssumption DEF Types
<1>1. CASE Fail("gone")
  BY <1>1, RunsQuiet DEF Fail, media
<1>2. CASE Deliver(t) /\ ~TrackFreed(t)
  <2>1. /\ idx[t] = 0
        /\ idx' = [idx EXCEPT ![t] = 1]
        /\ frame' = [frame EXCEPT ![t] = @ + 1]
        /\ UNCHANGED <<attached, sent>>
    BY <1>2 DEF Deliver
  <2>2. /\ \A u \in Tracks : idx'[u] = IF u = t THEN 1 ELSE idx[u]
        /\ \A u \in Tracks : frame'[u] = IF u = t THEN frame[t] + 1 ELSE frame[u]
    BY <2>1 DEF Types
  <2>3. ASSUME NEW u \in Tracks, NEW i \in DOMAIN attached[u]
        PROVE  Newest(u, i)' = Newest(u, i)
    BY <1>0, <2>1, <2>2 DEF Newest
  <2> QED BY <2>1, <2>3 DEF Runs, EndsAt
<1>3. CASE DeliverTo(t) /\ ~Fail("gone")
  <2> DEFINE k == idx[t]
             d == attached[t][k]
  <2>1. k \in DOMAIN attached[t]
    BY <1>3 DEF DeliverTo
  <2>2. d \in Deliveries /\ d \in alive /\ d \in ToSet(attached[t])
    <3>1. d \in ToSet(attached[t])
      BY <2>1 DEF ToSet
    <3> QED BY <3>1 DEF AttachedAlive, Types
  <2>3. /\ idx' = [idx EXCEPT ![t] = k + 1]
        /\ sent' = [sent EXCEPT ![d] = @ \cup {frame[t]}]
        /\ UNCHANGED <<attached, frame>>
    BY <1>3, <2>2 DEF DeliverTo
  <2>4. frame[t] \in Nat /\ frame[t] >= 1 /\ k \in Nat /\ k >= 1
    BY <1>0, <2>1 DEF LoopBound
  <2>5. EndsAt(sent[d], frame[t] - 1)
    <3>1. Newest(t, k) = frame[t] - 1
      BY <2>4 DEF Newest
    <3> QED BY <2>1, <3>1 DEF Runs
  <2> HIDE DEF d
  <2>6. /\ \A u \in Tracks : idx'[u] = IF u = t THEN k + 1 ELSE idx[u]
        /\ \A e \in Deliveries : sent'[e] = IF e = d THEN sent[d] \cup {frame[t]} ELSE sent[e]
    BY <2>3 DEF Types
  <2> HIDE DEF k
  <2>7. EndsAt(sent'[d], frame[t])
    <3>1. CASE sent[d] = {}
      <4>1. sent'[d] = frame[t]..frame[t]
        BY <2>2, <2>4, <2>6, <3>1
      <4>2. frame[t] \in Nat /\ frame[t] <= frame[t]
        BY <2>4
      <4> QED BY <4>1, <4>2 DEF EndsAt
    <3>2. CASE sent[d] # {}
      <4>1. PICK f \in Nat : f <= frame[t] - 1 /\ sent[d] = f..(frame[t] - 1)
        BY <2>5, <3>2 DEF EndsAt
      <4>2. sent'[d] = f..frame[t]
        <5>1. frame[t] - 1 \in Int /\ (frame[t] - 1) + 1 = frame[t]
          BY <2>4
        <5>2. (f..(frame[t] - 1)) \cup {frame[t]} = f..frame[t]
          BY <4>1, <5>1, IntervalGrows
        <5> QED BY <2>2, <2>6, <4>1, <5>2
      <4>3. f <= frame[t]
        BY <2>4, <4>1
      <4> QED BY <2>3, <4>2, <4>3 DEF EndsAt
    <3> QED BY <3>1, <3>2
  <2>8. ASSUME NEW u \in Tracks, NEW i \in DOMAIN attached[u]
        PROVE  EndsAt(sent'[attached[u][i]], Newest(u, i)')
    <3>1. attached[u][i] \in ToSet(attached[u])
      BY DEF ToSet
    <3>2. CASE attached[u][i] = d
      <4>1. u = t
        BY <2>2, <3>1, <3>2 DEF Placed
      <4>2. i = k
        BY <2>1, <3>2, <4>1 DEF Placed, Distinct, d
      <4>3. Newest(u, i)' = frame[t]
        BY <2>3, <2>4, <2>6, <4>1, <4>2 DEF Newest
      <4> QED BY <2>3, <2>7, <3>2, <4>3 DEF EndsAt
    <3>3. CASE attached[u][i] # d
      <4>1. attached[u][i] \in Deliveries /\ sent'[attached[u][i]] = sent[attached[u][i]]
        BY <2>6, <3>1, <3>3 DEF AttachedAlive, Types
      <4>2. ~(u = t /\ i = k)
        BY <3>3 DEF d
      <4>3. Newest(u, i)' = Newest(u, i)
        <5>1. CASE u = t
          BY <1>0, <2>3, <2>4, <2>6, <4>2, <5>1 DEF Newest, k
        <5>2. CASE u # t
          BY <2>3, <2>6, <5>2 DEF Newest
        <5> QED BY <5>1, <5>2
      <4>4. EndsAt(sent[attached[u][i]], Newest(u, i))
        BY DEF Runs
      <4> QED BY <2>3, <4>1, <4>3, <4>4 DEF EndsAt
    <3> QED BY <3>2, <3>3
  <2>9. ASSUME NEW e \in Deliveries PROVE \E g \in Int : EndsAt(sent'[e], g)
    <3>1. CASE e = d
      <4>1. frame[t] \in Int
        BY <2>4
      <4> QED BY <2>7, <3>1, <4>1
    <3>2. CASE e # d
      <4>1. PICK g \in Int : EndsAt(sent[e], g)
        BY DEF Runs
      <4> QED BY <2>6, <3>2, <4>1 DEF EndsAt
    <3> QED BY <3>1, <3>2
  <2> HIDE DEF k, d
  <2>10. (\A e \in Deliveries : \E g \in Int : EndsAt(sent[e], g))'
    BY <2>9 DEF EndsAt
  <2>11. (\A u \in Tracks : \A i \in DOMAIN attached[u] : EndsAt(sent[attached[u][i]], Newest(u, i)))'
    <3>1. \A u \in Tracks : \A i \in DOMAIN attached[u] : EndsAt(sent'[attached[u][i]], Newest(u, i)')
      BY <2>8
    <3>2. attached' = attached
      BY <2>3
    <3> QED BY <3>1, <3>2 DEF EndsAt
  <2> QED BY <2>10, <2>11 DEF Runs
<1>4. CASE Delivered(t) /\ ~TrackFreed(t)
  <2>1. /\ idx[t] > Len(attached[t])
        /\ idx' = [idx EXCEPT ![t] = 0]
        /\ UNCHANGED <<attached, frame, sent>>
    BY <1>4 DEF Delivered
  <2>2. \A u \in Tracks : idx'[u] = IF u = t THEN 0 ELSE idx[u]
    BY <2>1 DEF Types
  <2>3. ASSUME NEW u \in Tracks, NEW i \in DOMAIN attached[u]
        PROVE  Newest(u, i)' = Newest(u, i)
    BY <1>0, <2>1, <2>2 DEF Newest
  <2> QED BY <2>1, <2>3 DEF Runs, EndsAt
<1> QED BY <1>1, <1>2, <1>3, <1>4 DEF Encoder, Deliver, Delivered

(* a delivery that sends has been made *)
LEMMA NotYetDeliverTo ==
  ASSUME Inv, NotYet, NEW t \in Tracks, DeliverTo(t), ~UNCHANGED sent PROVE NotYet'
<1> DEFINE d == attached[t][idx[t]]
<1> USE DEF Inv
<1>1. idx[t] \in DOMAIN attached[t] /\ sent' = [sent EXCEPT ![d] = @ \cup {frame[t]}]
      /\ UNCHANGED <<pc, plays, todo>>
  BY DEF DeliverTo, Fail, session, media
<1>2. d \in alive
  <2>1. d \in ToSet(attached[t])
    BY <1>1 DEF ToSet
  <2> QED BY <2>1 DEF AttachedAlive
<1> HIDE DEF d
<1>3. \A e \in Deliveries : e # d => sent'[e] = sent[e]
  BY <1>1 DEF Types
<1>4. ASSUME NEW e \in Deliveries, e[3] > plays'[e[1]] PROVE sent'[e] = {}
  <2>1. e[3] \in Nat /\ plays[e[1]] \in Nat
    BY DeliveryFacts DEF Types
  <2>2. e # d
    BY <1>1, <1>2, <1>4, <2>1 DEF Numbered
  <2> QED BY <1>1, <1>3, <1>4, <2>2 DEF NotYet
<1>5. ASSUME NEW s \in Sessions, pc'[s] = "play", NEW u \in ToSet(todo'[s])
      PROVE  sent'[<<s, u, plays'[s]>>] = {}
  <2>1. <<s, u, plays[s]>> # d
    BY <1>1, <1>2, <1>5 DEF Numbered
  <2>2. u \in Tracks
    BY <1>1, <1>5, LenProperties, ElementOfSeq DEF Types, ToSet
  <2>3. plays[s] \in 1..MaxPlays
    BY <1>1, <1>5, ServerAssumption DEF Types, Visits
  <2>4. <<s, u, plays[s]>> \in Deliveries
    BY <2>2, <2>3, DeliveryFacts
  <2> QED BY <1>1, <1>3, <1>5, <2>1, <2>4 DEF NotYet
<1> QED BY <1>4, <1>5 DEF NotYet

LEMMA RunsStep == Inv /\ Runs /\ NotYet /\ [Next]_vars => Runs' /\ NotYet'
<1> SUFFICES ASSUME Inv, Runs, NotYet, [Next]_vars PROVE Runs' /\ NotYet'
  OBVIOUS
<1>1. ASSUME NEW t \in Tracks, Encoder(t) PROVE Runs' /\ NotYet'
  <2>1. Runs'
    BY <1>1, RunsEncoder
  <2>2. NotYet'
    <3>1. CASE UNCHANGED sent
      BY <3>1, NotYetStep
    <3>2. CASE ~UNCHANGED sent
      <4>1. DeliverTo(t)
        BY <1>1, <3>2 DEF Encoder, Deliver, Delivered, Fail, media
      <4> QED BY <3>2, <4>1, NotYetDeliverTo
    <3> QED BY <3>1, <3>2
  <2> QED BY <2>1, <2>2
<1>2. ASSUME NEW s \in Sessions, Client(s) PROVE Runs' /\ NotYet'
  <2>1. UNCHANGED <<attached, idx, frame, sent>>
    BY <1>2 DEF Client, Connect, HandleSetup, HandlePlay, HandleTearDown, Disconnect,
                StartRemoving, Fail, media
  <2> QED BY <2>1, RunsQuiet, NotYetStep
<1>3. ASSUME NEW s \in Sessions, Session(s) PROVE Runs' /\ NotYet'
  <2>1. CASE PlayTrack(s)
    <3>1. UNCHANGED sent
      BY <2>1 DEF PlayTrack
    <3> QED BY <2>1, <3>1, RunsPlayTrack, NotYetStep
  <2>2. CASE DeleteDelivery(s)
    <3>1. UNCHANGED sent
      BY <2>2 DEF DeleteDelivery
    <3> QED BY <2>2, <3>1, RunsDeleteDelivery, NotYetStep
  <2>3. CASE ~PlayTrack(s) /\ ~DeleteDelivery(s)
    <3>1. UNCHANGED <<attached, idx, frame, sent>>
      BY <1>3, <2>3 DEF Session, PlayTrackFails, PlayReply, Delete, SkipDelivery, FinishRemoving,
                        Fail, media
    <3> QED BY <3>1, RunsQuiet, NotYetStep
  <2> QED BY <2>1, <2>2, <2>3
<1>4. CASE RemoveMediaDelivery \/ UNCHANGED vars
  <2>1. UNCHANGED <<attached, idx, frame, sent>>
    BY <1>4 DEF RemoveMediaDelivery, vars, media
  <2> QED BY <2>1, RunsQuiet, NotYetStep
<1> QED BY <1>1, <1>2, <1>3, <1>4 DEF Next

(* Players that come and go cost another player no frame.                  *)
THEOREM PlayersGetUnbrokenRuns == Spec => []ContiguousFrames
<1>1. Inv /\ Runs => ContiguousFrames
  <2> SUFFICES ASSUME Inv, Runs PROVE ContiguousFrames
    OBVIOUS
  <2>1. ASSUME NEW d \in Deliveries, NEW f \in sent[d], NEW g \in sent[d], NEW h \in f..g
        PROVE  h \in sent[d]
    <3>1. PICK n \in Int : EndsAt(sent[d], n)
      BY DEF Runs
    <3>2. PICK m \in Nat : sent[d] = m..n
      BY <3>1 DEF EndsAt
    <3> QED BY <3>2
  <2>2. ASSUME NEW t \in Tracks, idx[t] = 0, NEW d \in ToSet(attached[t])
        PROVE  sent[d] = {} \/ frame[t] \in sent[d]
    <3>1. PICK i \in DOMAIN attached[t] : d = attached[t][i]
      BY DEF ToSet
    <3>2. EndsAt(sent[d], frame[t])
      BY <2>2, <3>1 DEF Runs, Newest
    <3>3. frame[t] \in Nat
      BY DEF Inv, Types
    <3> QED BY <3>2, <3>3 DEF EndsAt
  <2> QED BY <2>1, <2>2 DEF ContiguousFrames
<1>2. Init => Inv /\ Runs /\ NotYet
  BY InvInit, RunsInit
<1>3. (Inv /\ Runs /\ NotYet) /\ [Next]_vars => (Inv /\ Runs /\ NotYet)'
  BY InvStep, RunsStep
<1> QED BY <1>1, <1>2, <1>3, PTL DEF Spec

-----------------------------------------------------------------------------
(* A session gives back all it allocated, as long as the tracks are there, *)
(* but for the deliveries that a later PLAY of the same track made it      *)
(* forget (the run rtsp_replay shows that those stay).                     *)

(* what is on a list is saved, and the removal has still to come to it *)
Kept ==
  Intact => \A t \in Tracks : \A d \in ToSet(attached[t]) \ replaced :
    /\ t \in DOMAIN saved[d[1]] /\ saved[d[1]][t] = d
    /\ pc[d[1]] # "closed"
    /\ pc[d[1]] \in {"teardown", "exit"} =>
         t \in ToSet(todo[d[1]]) /\ (doomed[d[1]] # NoDelivery => t # Head(todo[d[1]]))

(* what is allocated is on its list or about to be deleted *)
Owned ==
  Intact => \A d \in alive : d \in ToSet(attached[d[2]]) \/ doomed[d[1]] = d

LEMMA KeptInit == Init => Kept /\ Owned
BY EmptyProperties DEF Init, Kept, Owned

LEMMA KeptStep ==
  ASSUME Inv, Kept, [Next]_vars PROVE Kept'
<1> USE DEF Inv
<1>0. \A u \in Tracks : \A d \in ToSet(attached[u]) : d \in Deliveries /\ d[1] \in Sessions
  BY DeliveryFacts DEF AttachedAlive, Types
<1>1. ASSUME UNCHANGED <<saved, replaced, pc, todo, doomed, attached>>, Intact' => Intact PROVE Kept'
  BY <1>1 DEF Kept
<1>2. ASSUME NEW s \in Sessions, PlayTrack(s) PROVE Kept'
  <2> DEFINE t == Head(todo[s])
             d == <<s, t, plays[s]>>
  <2>1. /\ pc[s] = "play" /\ todo[s] # << >> /\ Intact
        /\ attached' = [attached EXCEPT ![t] = Append(@, d)]
        /\ saved' = [saved EXCEPT ![s] =
                       [u \in DOMAIN @ \cup {t} |-> IF u = t THEN d ELSE @[u]]]
        /\ replaced' = replaced \cup {saved[s][u] : u \in DOMAIN saved[s] \cap {t}}
        /\ todo' = [todo EXCEPT ![s] = Tail(@)]
        /\ UNCHANGED <<pc, doomed>>
    BY <1>2 DEF PlayTrack
  <2>2. t \in Tracks /\ t \in ToSet(todo[s])
    BY <2>1, TailProperties DEF Types, Visits
  <2>3. d \in Deliveries /\ d[1] = s /\ d \notin ToSet(attached[t])
    <3>1. plays[s] \in 1..MaxPlays
      BY <2>1, ServerAssumption DEF Types, Visits
    <3>2. d \notin alive
      BY <2>1, <2>2 DEF Numbered
    <3> QED BY <2>2, <3>1, <3>2, DeliveryFacts DEF AttachedAlive
  <2> HIDE DEF t, d
  <2>4. ToSet(Append(attached[t], d)) = ToSet(attached[t]) \union {d}
    BY <2>2, <2>3, AppendDistinct DEF Types, Placed
  <2>5. /\ \A u \in Tracks : attached'[u] = IF u = t THEN Append(attached[t], d) ELSE attached[u]
        /\ \A r \in Sessions : r # s => todo'[r] = todo[r]
        /\ \A r \in Sessions : r # s => saved'[r] = saved[r]
        /\ DOMAIN saved'[s] = DOMAIN saved[s] \cup {t}
        /\ \A u \in DOMAIN saved'[s] : saved'[s][u] = IF u = t THEN d ELSE saved[s][u]
    BY <2>1 DEF Types
  <2>6. ASSUME NEW u \in Tracks, NEW e \in ToSet(attached'[u]) \ replaced'
        PROVE  /\ u \in DOMAIN saved'[e[1]] /\ saved'[e[1]][u] = e
               /\ pc'[e[1]] # "closed"
               /\ pc'[e[1]] \in {"teardown", "exit"} =>
                    /\ u \in ToSet(todo'[e[1]])
                    /\ doomed'[e[1]] # NoDelivery => u # Head(todo'[e[1]])
    <3>1. CASE u = t /\ e = d
      BY <2>1, <2>3, <2>5, <3>1
    <3>2. CASE ~(u = t /\ e = d)
      <4>1. e \in ToSet(attached[u]) \ replaced /\ e[1] \in Sessions
        BY <1>0, <2>1, <2>4, <2>5, <2>6, <3>2
      <4>2. u \in DOMAIN saved[e[1]] /\ saved[e[1]][u] = e
        BY <2>1, <4>1 DEF Kept
      <4>3. ~(e[1] = s /\ u = t)       \* it would have been replaced
        BY <2>1, <2>6, <4>2
      <4>4. u \in DOMAIN saved'[e[1]] /\ saved'[e[1]][u] = e
        BY <2>5, <4>1, <4>2, <4>3
      <4> QED BY <2>1, <2>5, <4>1, <4>4 DEF Kept
    <3> QED BY <3>1, <3>2
  <2> QED BY <2>6 DEF Kept
<1>3. ASSUME NEW s \in Sessions, DeleteDelivery(s) PROVE Kept'
  <2> DEFINE t == Head(todo[s])
             d == saved[s][t]
  <2>1. /\ pc[s] \in {"teardown", "exit"} /\ todo[s] # << >> /\ doomed[s] = NoDelivery
        /\ attached' = [attached EXCEPT ![t] = MediaAfter(t, d)]
        /\ doomed' = [doomed EXCEPT ![s] = d]
        /\ UNCHANGED <<pc, todo, saved, replaced, removal>>
    BY <1>3 DEF DeleteDelivery
  <2>2. t \in Tracks
    BY <2>1, TailProperties DEF Types, Visits
  <2>3. ToSet(MediaAfter(t, d)) = ToSet(attached[t]) \ {d}
    BY <2>2, MediaAfterFacts
  <2>4. /\ \A u \in Tracks : attached'[u] = IF u = t THEN MediaAfter(t, d) ELSE attached[u]
        /\ \A r \in Sessions : r # s => doomed'[r] = doomed[r]
    BY <2>1 DEF Types
  <2>5. Intact => \A e \in ToSet(attached[t]) \ replaced : e[1] = s => e = d
    BY <2>2 DEF Kept
  <2> HIDE DEF d
  <2>6. ASSUME Intact', NEW u \in Tracks, NEW e \in ToSet(attached'[u]) \ replaced'
        PROVE  /\ u \in DOMAIN saved'[e[1]] /\ saved'[e[1]][u] = e
               /\ pc'[e[1]] # "closed"
               /\ pc'[e[1]] \in {"teardown", "exit"} =>
                    /\ u \in ToSet(todo'[e[1]])
                    /\ doomed'[e[1]] # NoDelivery => u # Head(todo'[e[1]])
    <3>1. Intact
      BY <2>1, <2>6 DEF Intact
    <3>2. e \in ToSet(attached[u]) \ replaced
      BY <2>1, <2>3, <2>4, <2>6
    <3>3. CASE e[1] = s
      <4>1. u # t
        BY <2>3, <2>4, <2>5, <2>6, <3>1, <3>2, <3>3
      <4> QED BY <2>1, <3>1, <3>2, <3>3, <4>1 DEF Kept
    <3>4. CASE e[1] # s
      BY <1>0, <2>1, <2>4, <3>1, <3>2, <3>4 DEF Kept
    <3> QED BY <3>3, <3>4
  <2> QED BY <2>6 DEF Kept
<1>4. ASSUME NEW s \in Sessions, todo[s] # << >>, UNCHANGED <<saved, replaced, pc, attached, removal>>,
             todo' = [todo EXCEPT ![s] = Tail(@)],
             Delete(s) \/ (SkipDelivery(s) /\ ~Intact)
      PROVE  Kept'
  <2>1. CASE ~Intact
    BY <1>4, <2>1 DEF Kept, Intact
  <2>2. CASE Intact
    <3>1. doomed[s] # NoDelivery /\ doomed' = [doomed EXCEPT ![s] = NoDelivery]
      BY <1>4, <2>2 DEF Delete
    <3>2. ToSet(Tail(todo[s])) = ToSet(todo[s]) \ {Head(todo[s])}
      BY <1>4, TailProperties DEF Types, Visits
    <3>3. /\ \A r \in Sessions : todo'[r] = IF r = s THEN Tail(todo[s]) ELSE todo[r]
          /\ \A r \in Sessions : doomed'[r] = IF r = s THEN NoDelivery ELSE doomed[r]
      BY <1>4, <3>1 DEF Types
    <3>4. ASSUME NEW u \in Tracks, NEW e \in ToSet(attached'[u]) \ replaced'
          PROVE  /\ u \in DOMAIN saved'[e[1]] /\ saved'[e[1]][u] = e
                 /\ pc'[e[1]] # "closed"
                 /\ pc'[e[1]] \in {"teardown", "exit"} =>
                      /\ u \in ToSet(todo'[e[1]])
                      /\ doomed'[e[1]] # NoDelivery => u # Head(todo'[e[1]])
      <4>1. e \in ToSet(attached[u]) \ replaced /\ e[1] \in Sessions
        BY <1>0, <1>4, <3>4
      <4>2. CASE e[1] = s
        BY <1>4, <2>2, <3>1, <3>2, <3>3, <4>1, <4>2 DEF Kept
      <4>3. CASE e[1] # s
        BY <1>4, <2>2, <3>3, <4>1, <4>3 DEF Kept
      <4> QED BY <4>2, <4>3
    <3> QED BY <3>4 DEF Kept
  <2> QED BY <2>1, <2>2
<1>5. ASSUME NEW s \in Sessions, FinishRemoving(s) PROVE Kept'
  <2>1. /\ pc[s] \in {"teardown", "exit"} /\ todo[s] = << >>
        /\ saved' = [saved EXCEPT ![s] = << >>]
        /\ pc' = [pc EXCEPT ![s] = IF @ = "teardown" THEN "exit" ELSE "closed"]
        /\ UNCHANGED <<todo, replaced, doomed, attached, removal>>
    BY <1>5 DEF FinishRemoving, media
  <2>2. /\ \A r \in Sessions : r # s => pc'[r] = pc[r]
        /\ \A r \in Sessions : r # s => saved'[r] = saved[r]
    BY <2>1 DEF Types
  <2>3. Intact => \A u \in Tracks : \A e \in ToSet(attached[u]) \ replaced : e[1] # s
    BY <2>1, EmptyProperties DEF Kept
  <2> QED BY <1>0, <2>1, <2>2, <2>3 DEF Kept, Intact
<1>6. ASSUME NEW s \in Sessions, NEW p \in {"read", "play"}, pc' = [pc EXCEPT ![s] = p],
             pc[s] \in {"none", "read", "play"},
             \A r \in Sessions : r # s => todo'[r] = todo[r],
             UNCHANGED <<saved, replaced, doomed, attached, removal>>
      PROVE  Kept'
  <2>1. \A r \in Sessions : pc'[r] = IF r = s THEN p ELSE pc[r]
    BY <1>6 DEF Types
  <2> QED BY <1>0, <1>6, <2>1 DEF Kept, Intact
<1>7. ASSUME NEW s \in Sessions, NEW how \in {"teardown", "exit"}, pc[s] = "read",
             StartRemoving(s, how), ~Fail("gone")
      PROVE  Kept'
  <2> DEFINE order == Only("audio", DOMAIN saved[s]) \o Only("video", DOMAIN saved[s])
  <2>1. /\ pc' = [pc EXCEPT ![s] = how]
        /\ todo' = [todo EXCEPT ![s] = order]
        /\ UNCHANGED <<saved, replaced, doomed, attached, removal>>
    BY <1>7 DEF StartRemoving, media
  <2>2. ToSet(order) = DOMAIN saved[s]
    BY SavedFacts, ServerAssumption, OnlyProperties
  <2>3. doomed[s] = NoDelivery
    BY <1>7 DEF DoomedOut
  <2> HIDE DEF order
  <2>4. /\ \A r \in Sessions : pc'[r] = IF r = s THEN how ELSE pc[r]
        /\ \A r \in Sessions : todo'[r] = IF r = s THEN order ELSE todo[r]
    BY <2>1 DEF Types
  <2> QED BY <1>0, <2>1, <2>2, <2>3, <2>4 DEF Kept, Intact
<1>8. ASSUME NEW s \in Sessions, Client(s) PROVE Kept'
  <2>1. CASE Fail("gone")
    BY <1>1, <2>1 DEF Fail, session, media, Intact
  <2>2. CASE HandleTearDown(s) \/ Disconnect(s)
    BY <1>7, <2>1, <2>2 DEF HandleTearDown, Disconnect
  <2>3. CASE Connect(s) \/ \E t \in Tracks : HandleSetup(s, t)
    <3>1. CASE Connect(s)
      BY <1>6, <3>1 DEF Connect, media
    <3>2. CASE \E t \in Tracks : HandleSetup(s, t)
      BY <1>1, <3>2 DEF HandleSetup, media, Intact
    <3> QED BY <2>3, <3>1, <3>2
  <2>4. ASSUME NEW order \in {AllTracks} \cup {<<t>> : t \in Tracks}, HandlePlay(s, order),
               ~Fail("gone")
        PROVE Kept'
    <3>1. /\ pc[s] = "read" /\ pc' = [pc EXCEPT ![s] = "play"]
          /\ todo' = [todo EXCEPT ![s] = order]
          /\ UNCHANGED <<saved, replaced, doomed, attached, removal>>
      BY <2>4 DEF HandlePlay, media
    <3>2. \A r \in Sessions : r # s => todo'[r] = todo[r]
      BY <3>1 DEF Types
    <3> QED BY <1>6, <3>1, <3>2
  <2> QED BY <1>8, <2>1, <2>2, <2>3, <2>4 DEF Client
<1>9. ASSUME NEW s \in Sessions, Session(s) PROVE Kept'
  <2>1. CASE PlayTrackFails(s)
    BY <1>1, <2>1 DEF PlayTrackFails, Fail, session, media, Intact
  <2>2. CASE PlayReply(s)
    BY <1>6, <2>2 DEF PlayReply, media
  <2>3. CASE Delete(s)
    <3>1. todo[s] # << >>
      BY <2>3 DEF Delete, DoomedOut
    <3> QED BY <1>4, <2>3, <3>1 DEF Delete
  <2>4. CASE SkipDelivery(s)
    <3>1. CASE removal = "deleted"
      BY <1>1, <2>4, <3>1 DEF SkipDelivery, Fail, session, media, Intact
    <3>2. CASE removal # "deleted"
      BY <1>4, <2>4, <3>2 DEF SkipDelivery, InAggregate, media
    <3> QED BY <3>1, <3>2
  <2> QED BY <1>2, <1>3, <1>5, <1>9, <2>1, <2>2, <2>3, <2>4 DEF Session
<1>10. CASE \E t \in Tracks : Encoder(t)
  BY <1>1, <1>10 DEF Encoder, Deliver, DeliverTo, Delivered, Fail, session, media, Intact
<1>11. CASE RemoveMediaDelivery \/ UNCHANGED vars
  <2>1. Intact' => Intact
    BY <1>11 DEF RemoveMediaDelivery, vars, Intact, Types
  <2> QED BY <1>1, <1>11, <2>1 DEF RemoveMediaDelivery, vars, session, media
<1> QED BY <1>8, <1>9, <1>10, <1>11 DEF Next

LEMMA OwnedStep ==
  ASSUME Inv, Owned, [Next]_vars PROVE Owned'
<1> USE DEF Inv
<1>0. \A d \in alive : d \in Deliveries /\ d[1] \in Sessions /\ d[2] \in Tracks
  BY DeliveryFacts DEF Types
<1>1. ASSUME UNCHANGED <<doomed, attached, alive>>, Intact' => Intact PROVE Owned'
  BY <1>1 DEF Owned
<1>2. ASSUME NEW s \in Sessions, PlayTrack(s) PROVE Owned'
  <2> DEFINE t == Head(todo[s])
             d == <<s, t, plays[s]>>
  <2>1. /\ pc[s] = "play" /\ todo[s] # << >> /\ Intact
        /\ alive' = alive \cup {d}
        /\ attached' = [attached EXCEPT ![t] = Append(@, d)]
        /\ UNCHANGED doomed
    BY <1>2 DEF PlayTrack
  <2>2. t \in Tracks /\ t \in ToSet(todo[s])
    BY <2>1, TailProperties DEF Types, Visits
  <2>3. d \in Deliveries /\ d[2] = t /\ d \notin ToSet(attached[t])
    <3>1. plays[s] \in 1..MaxPlays
      BY <2>1, ServerAssumption DEF Types, Visits
    <3>2. d \notin alive
      BY <2>1, <2>2 DEF Numbered
    <3> QED BY <2>2, <3>1, <3>2, DeliveryFacts DEF AttachedAlive
  <2> HIDE DEF t, d
  <2>4. ToSet(Append(attached[t], d)) = ToSet(attached[t]) \union {d}
    BY <2>2, <2>3, AppendDistinct DEF Types, Placed
  <2>5. \A u \in Tracks : attached'[u] = IF u = t THEN Append(attached[t], d) ELSE attached[u]
    BY <2>1 DEF Types
  <2> QED BY <1>0, <2>1, <2>2, <2>3, <2>4, <2>5 DEF Owned
<1>3. ASSUME NEW s \in Sessions, DeleteDelivery(s) PROVE Owned'
  <2> DEFINE t == Head(todo[s])
             d == saved[s][t]
  <2>1. /\ pc[s] \in {"teardown", "exit"} /\ todo[s] # << >> /\ doomed[s] = NoDelivery
        /\ attached' = [attached EXCEPT ![t] = MediaAfter(t, d)]
        /\ doomed' = [doomed EXCEPT ![s] = d]
        /\ UNCHANGED <<alive, removal>>
    BY <1>3 DEF DeleteDelivery
  <2>2. t \in Tracks /\ t \in DOMAIN saved[s]
    BY <2>1, TailProperties DEF Types, Visits
  <2>3. d[1] = s
    BY <2>2 DEF Placed
  <2> HIDE DEF t, d
  <2>4. ToSet(MediaAfter(t, d)) = ToSet(attached[t]) \ {d}
    BY <2>2, MediaAfterFacts
  <2>5. /\ \A u \in Tracks : attached'[u] = IF u = t THEN MediaAfter(t, d) ELSE attached[u]
        /\ \A r \in Sessions : doomed'[r] = IF r = s THEN d ELSE doomed[r]
    BY <2>1 DEF Types
  <2>6. ASSUME Intact', NEW e \in alive'
        PROVE  e \in ToSet(attached'[e[2]]) \/ doomed'[e[1]] = e
    <3>1. Intact /\ e \in alive
      BY <2>1, <2>6 DEF Intact
    <3>2. e \in ToSet(attached[e[2]]) \/ doomed[e[1]] = e
      BY <3>1 DEF Owned
    <3>3. e # NoDelivery
      BY <1>0, <3>1, DeliveryFacts
    <3>4. CASE e = d
      BY <1>0, <2>3, <2>5, <3>1, <3>4
    <3>5. CASE e # d
      BY <1>0, <2>1, <2>4, <2>5, <3>1, <3>2, <3>3, <3>5
    <3> QED BY <3>4, <3>5
  <2> QED BY <2>6 DEF Owned
<1>4. ASSUME NEW s \in Sessions, Delete(s) PROVE Owned'
  <2>1. /\ alive' = alive \ {doomed[s]} /\ doomed' = [doomed EXCEPT ![s] = NoDelivery]
        /\ UNCHANGED <<attached, removal>>
    BY <1>4 DEF Delete, AliveAfter
  <2>2. \A r \in Sessions : doomed'[r] = IF r = s THEN NoDelivery ELSE doomed[r]
    BY <2>1 DEF Types
  <2> QED BY <1>0, <2>1, <2>2 DEF Owned, Intact
<1>5. ASSUME NEW s \in Sessions, Session(s), ~PlayTrack(s), ~DeleteDelivery(s), ~Delete(s)
      PROVE  Owned'
  BY <1>1, <1>5 DEF Session, PlayTrackFails, PlayReply, SkipDelivery, FinishRemoving, Fail,
                    session, media, Intact
<1>6. ASSUME NEW s \in Sessions, Client(s) PROVE Owned'
  BY <1>1, <1>6 DEF Client, Connect, HandleSetup, HandlePlay, HandleTearDown, Disconnect,
                    StartRemoving, Fail, session, media, Intact
<1>7. CASE \E t \in Tracks : Encoder(t)
  BY <1>1, <1>7 DEF Encoder, Deliver, DeliverTo, Delivered, Fail, session, media, Intact
<1>8. CASE RemoveMediaDelivery \/ UNCHANGED vars
  <2>1. Intact' => Intact
    BY <1>8 DEF RemoveMediaDelivery, vars, Intact, Types
  <2> QED BY <1>1, <1>8, <2>1 DEF RemoveMediaDelivery, vars, session, media
<1> QED BY <1>2, <1>3, <1>4, <1>5, <1>6, <1>7, <1>8 DEF Next

(* What is on the list of a track that is there is in mTrackDeliveries of  *)
(* its session, or was there until a later PLAY of that track overwrote it. *)
THEOREM SavedOrReplaced == Spec => []SavedUnlessReplaced
<1>1. Kept => SavedUnlessReplaced
  BY DEF Kept, SavedUnlessReplaced, SessionOf
<1>2. Init => Inv /\ Kept
  BY InvInit, KeptInit
<1>3. (Inv /\ Kept) /\ [Next]_vars => (Inv /\ Kept)'
  BY InvStep, KeptStep
<1> QED BY <1>1, <1>2, <1>3, PTL DEF Spec

(* A session thread that ends leaves nothing on a list and nothing         *)
(* allocated, however often it played, but for what a later PLAY of the    *)
(* same track replaced.                                                    *)
THEOREM OnlyReplacedIsLeft == Spec => []NothingLeftBehind
<1>1. Inv /\ Kept /\ Owned => NothingLeftBehind
  <2> SUFFICES ASSUME Inv, Kept, Owned, NEW d \in Deliveries \ replaced, Intact, pc[d[1]] = "closed"
               PROVE  d \notin alive /\ \A t \in Tracks : d \notin ToSet(attached[t])
    BY DEF NothingLeftBehind, SessionOf
  <2>1. \A t \in Tracks : d \notin ToSet(attached[t])
    BY DEF Kept
  <2>2. d[1] \in Sessions /\ d[2] \in Tracks /\ d # NoDelivery
    BY DeliveryFacts
  <2>3. doomed[d[1]] = NoDelivery
    BY <2>2 DEF Inv, DoomedOut
  <2> QED BY <2>1, <2>2, <2>3 DEF Owned
<1>2. Init => Inv /\ Kept /\ Owned
  BY InvInit, KeptInit
<1>3. (Inv /\ Kept /\ Owned) /\ [Next]_vars => (Inv /\ Kept /\ Owned)'
  BY InvStep, KeptStep, OwnedStep
<1> QED BY <1>1, <1>2, <1>3, PTL DEF Spec
=============================================================================
