------------------------- MODULE UpdateStreamProofs -------------------------
(* Theorems about UpdateStream, for files of any length.                   *)
EXTENDS UpdateStream, SequenceTheorems, TLAPS

LEMMA ReverseLink ==
  ASSUME NEW l \in Links
  PROVE  Reverse(l) \in Links /\ Reverse(Reverse(l)) = l
  BY DEF Links, Reverse

LEMMA EntryType ==
  ASSUME NEW d \in LinkDiffs, NEW hop \in Nodes
  PROVE  Entry(d, hop) \in Entries
  BY DEF Entry, Entries, LinkDiffs

LEMMA IsliceType ==
  ASSUME NEW s \in Seq(LinkDiffs)
  PROVE  /\ Islice(s).taken \in Seq(LinkDiffs)
         /\ Islice(s).left \in Seq(LinkDiffs)
  <1>1. CASE Len(s) <= MaxDiffs
    BY <1>1 DEF Islice
  <1>2. CASE Len(s) > MaxDiffs
    <2>1. MaxDiffs \in Nat /\ Len(s) \in Nat /\ MaxDiffs # 0
      BY UpdateStreamAssumption
    <2>2. SubSeq(s, 1, MaxDiffs) \in Seq(LinkDiffs)
      BY <1>2, <2>1, SubSeqProperties
    <2>3. SubSeq(s, MaxDiffs + 2, Len(s)) \in Seq(LinkDiffs)
      BY <1>2, <2>1, SubSeqProperties
    <2>4. Islice(s) = [taken |-> SubSeq(s, 1, MaxDiffs),
                       left  |-> SubSeq(s, MaxDiffs + 2, Len(s))]
      BY <1>2, <2>1 DEF Islice
    <2>5. QED BY <2>2, <2>3, <2>4
  <1>3. QED BY <1>1, <1>2, UpdateStreamAssumption

LEMMA TypeStep == TypeOK /\ [Next]_vars => TypeOK'
  <1> SUFFICES ASSUME TypeOK, [Next]_vars PROVE TypeOK'
    OBVIOUS
  <1>1. CASE Cut
    <2>1. rest \in Seq(LinkDiffs)
      BY DEF TypeOK
    <2>2. Islice(rest).taken \in Seq(LinkDiffs) /\ Islice(rest).left \in Seq(LinkDiffs)
      BY <2>1, IsliceType
    <2>3. requests' \in Seq(Seq(LinkDiffs))
      BY <1>1, <2>2 DEF Cut, TypeOK
    <2>4. QED BY <1>1, <2>2, <2>3 DEF Cut, TypeOK
  <1>2. CASE Send
    BY <1>2, UpdateStreamAssumption DEF Send, TypeOK
  <1>3. CASE Receive
    <2>1. Head(requests) \in Seq(LinkDiffs) /\ Tail(requests) \in Seq(Seq(LinkDiffs))
      BY <1>3 DEF Receive, TypeOK
    <2>2. QED BY <1>3, <2>1 DEF Receive, TypeOK
  <1>4. CASE FoldDiff
    <2> DEFINE d == Head(inHand)
    <2>1. d \in LinkDiffs /\ Tail(inHand) \in Seq(LinkDiffs)
      BY <1>4 DEF FoldDiff, TypeOK
    <2>2. d.next \in Nodes /\ d.prev \in Nodes
      BY <2>1 DEF LinkDiffs
    <2>3. Entry(d, d.next) \in Entries /\ Entry(d, d.prev) \in Entries
      BY <2>1, <2>2, EntryType
    <2>4. ns' = [ns EXCEPT ![d.link] = Entry(d, d.next),
                           ![Reverse(d.link)] = Entry(d, d.prev)]
      BY <1>4 DEF FoldDiff, Folded
    <2> HIDE DEF d
    <2>5. ns' \in [Links -> Entries]
      BY <2>3, <2>4 DEF TypeOK
    <2>6. inHand' \in Seq(LinkDiffs)
      BY <1>4, <2>1 DEF FoldDiff
    <2>7. QED BY <1>4, <2>5, <2>6 DEF FoldDiff, TypeOK
  <1>5. CASE Apply \/ Abort \/ Done \/ UNCHANGED vars
    BY <1>5 DEF Apply, Abort, Done, vars, TypeOK
  <1>6. QED BY <1>1, <1>2, <1>3, <1>4, <1>5 DEF Next

(* Every variable has its type, for any file and any request size.         *)
THEOREM TypeCorrect == Spec => []TypeOK
  <1>1. Init => TypeOK
    BY UpdateStreamAssumption DEF Init, TypeOK, Entries, Untouched
  <1>2. QED BY <1>1, TypeStep, PTL DEF Spec

(* What an entry says besides the next hop does not depend on the hop.     *)
LEMMA EntryAgrees ==
  ASSUME NEW d, NEW n, NEW p
  PROVE  /\ Entry(d, n).blocked = Entry(d, p).blocked
         /\ Entry(d, n).shape = Entry(d, p).shape
  BY DEF Entry

LEMMA AgreeStep == TypeOK /\ DirectionsAgree /\ [Next]_vars => DirectionsAgree'
  <1> SUFFICES ASSUME TypeOK, DirectionsAgree, [Next]_vars,
                      NEW l \in Links
               PROVE  /\ ns'[l].blocked = ns'[Reverse(l)].blocked
                      /\ ns'[l].shape = ns'[Reverse(l)].shape
    BY DEF DirectionsAgree
  <1>1. CASE FoldDiff
    <2> DEFINE d == Head(inHand)
    <2>1. d \in LinkDiffs
      BY <1>1 DEF FoldDiff, TypeOK
    <2>2. d.link \in Links /\ Reverse(d.link) \in Links /\ Reverse(l) \in Links
          /\ Reverse(Reverse(l)) = l /\ Reverse(Reverse(d.link)) = d.link
      BY <2>1, ReverseLink DEF LinkDiffs
    <2>3. ns' = [ns EXCEPT ![d.link] = Entry(d, d.next),
                           ![Reverse(d.link)] = Entry(d, d.prev)]
      BY <1>1 DEF FoldDiff, Folded
    <2> HIDE DEF d
    <2>4. CASE l \in {d.link, Reverse(d.link)}
      <3>1. ns'[l] \in {Entry(d, d.next), Entry(d, d.prev)}
        BY <2>2, <2>3, <2>4 DEF TypeOK
      <3>2. ns'[Reverse(l)] \in {Entry(d, d.next), Entry(d, d.prev)}
        BY <2>2, <2>3, <2>4 DEF TypeOK
      <3>3. QED BY <3>1, <3>2, EntryAgrees
    <2>5. CASE l \notin {d.link, Reverse(d.link)}
      <3>1. Reverse(l) \notin {d.link, Reverse(d.link)}
        BY <2>2, <2>5
      <3>2. ns'[l] = ns[l] /\ ns'[Reverse(l)] = ns[Reverse(l)]
        BY <2>2, <2>3, <2>5, <3>1 DEF TypeOK
      <3>3. QED BY <3>2 DEF DirectionsAgree
    <2>6. QED BY <2>4, <2>5
  <1>2. CASE ~FoldDiff
    <2>1. ns' = ns
      BY <1>2 DEF Next, Cut, Send, Receive, Apply, Abort, Done, vars
    <2>2. QED BY <2>1 DEF DirectionsAgree
  <1>3. QED BY <1>1, <1>2

(* Whatever the stream brings, and wherever it breaks, the two directions  *)
(* of a link agree.                                                        *)
THEOREM DirectionsNeverDiffer == Spec => []DirectionsAgree
  <1>1. Init => DirectionsAgree
    <2>1. ASSUME Init, NEW l \in Links
          PROVE  ns[l] = Untouched /\ ns[Reverse(l)] = Untouched
      BY <2>1, ReverseLink DEF Init
    <2>2. QED BY <2>1 DEF DirectionsAgree
  <1>2. QED BY <1>1, TypeCorrect, AgreeStep, PTL DEF Spec

-----------------------------------------------------------------------------
(* The positions of the file.  Request k (from 0) holds the Size - 1 diffs *)
(* after position Start(k), or what there is of them; the diff at          *)
(* Start(k + 1) is the one that is dropped.                                *)
Size == MaxDiffs + 1
Start(k) == k * Size
End(k) == IF Start(k) + MaxDiffs <= Len(file) THEN Start(k) + MaxDiffs
          ELSE Len(file)

LEMMA StartStep ==
  ASSUME NEW k \in Nat
  PROVE  /\ MaxDiffs \in Nat \ {0} /\ Size = MaxDiffs + 1 /\ Size \in Nat \ {0}
         /\ Start(k) \in Nat /\ Start(k + 1) = Start(k) + Size /\ Start(0) = 0
  <1>1. MaxDiffs \in Nat \ {0} /\ Size = MaxDiffs + 1 /\ Size \in Nat \ {0}
    BY UpdateStreamAssumption DEF Size
  <1>2. ASSUME NEW P \in Nat \ {0}
        PROVE  k * P \in Nat /\ (k + 1) * P = k * P + P /\ 0 * P = 0
    BY SMTT(20)
  <1>3. QED BY <1>1, <1>2 DEF Start

LEMMA InRequest ==
  ASSUME NEW k \in Nat, NEW j \in 0..MaxDiffs
  PROVE  ((Start(k) + j) % Size = 0) <=> (j = 0)
  <1>1. Size \in Nat \ {0} /\ j \in 0..(Size - 1)
    BY UpdateStreamAssumption DEF Size
  <1>2. ASSUME NEW P \in Nat \ {0}, NEW i \in 0..(P - 1)
        PROVE  (k * P + i) % P = i
    BY SMTT(20)
  <1>3. QED BY <1>1, <1>2 DEF Start

(* s is the part of the file after position a up to position b.            *)
Slice(s, a, b) ==
  /\ a \in Nat /\ b \in Nat /\ a <= b /\ b <= Len(file)
  /\ Len(s) = b - a
  /\ \A i \in 1..Len(s) : s[i] = file[a + i]

(* What the server has for l when it has folded the diffs up to p.         *)
UpTo(l, p) == {i \in Touching(l) : i <= p}
WantedUpTo(l, p) ==
  IF UpTo(l, p) = {} THEN Untouched
  ELSE LET d == file[CHOOSE i \in UpTo(l, p) : \A j \in UpTo(l, p) : j <= i]
       IN Entry(d, IF d.link = l THEN d.next ELSE d.prev)

(* The n requests made so far are the first n; what is left starts after   *)
(* the diff that the last one dropped.                                     *)
CutInv ==
  /\ \A k \in 1..Len(requests) :
       /\ Start(k - 1) < Len(file)
       /\ Slice(requests[k], Start(k - 1), End(k - 1))
  /\ IF Start(Len(requests)) <= Len(file)
     THEN Slice(rest, Start(Len(requests)), Len(file)) ELSE rest = <<>>
  /\ inHand = <<>> /\ ns = [l \in Links |-> Untouched]

(* r requests have been received; all but inHand is folded.                *)
StreamedTo(r, p) ==
  /\ \A k \in 1..Len(requests) :
       /\ Start(r + k - 1) < Len(file)
       /\ Slice(requests[k], Start(r + k - 1), End(r + k - 1))
  /\ Len(file) <= Start(r + Len(requests))
  /\ IF r = 0 THEN p = 0 /\ inHand = <<>>
     ELSE Start(r - 1) <= p /\ Slice(inHand, p, End(r - 1))
  /\ ns = [l \in Links |-> WantedUpTo(l, p)]
  /\ ms = active

StreamInv ==
  /\ phase = "cutting" => CutInv
  /\ phase = "streaming" => \E r, p \in Nat : StreamedTo(r, p)
  /\ AppliedIsSent

LEMMA FileType == TypeOK => file \in Seq(LinkDiffs) /\ Len(file) \in Nat
  BY UpdateStreamAssumption DEF TypeOK

LEMMA Suffix ==
  ASSUME NEW S, NEW s \in Seq(S), NEW m \in 1..Len(s)
  PROVE  /\ Len(SubSeq(s, m + 1, Len(s))) = Len(s) - m
         /\ \A i \in 1..Len(SubSeq(s, m + 1, Len(s))) :
              SubSeq(s, m + 1, Len(s))[i] = s[m + i]
  <1> DEFINE u == SubSeq(s, m + 1, Len(s))
  <1>1. m + 1 \in Int /\ Len(s) \in Nat /\ \A i \in (m + 1)..Len(s) : s[i] \in S
    OBVIOUS
  <1>2. /\ Len(u) = IF m + 1 <= Len(s) THEN Len(s) - (m + 1) + 1 ELSE 0
        /\ \A i \in 1..(Len(s) - (m + 1) + 1) : u[i] = s[m + 1 + i - 1]
    BY <1>1, SubSeqProperties
  <1> HIDE DEF u
  <1>3. Len(u) = Len(s) - m
    <2>1. m \in Nat /\ m <= Len(s)
      BY <1>1
    <2>2. CASE m = Len(s)
      BY <1>1, <1>2, <2>2
    <2>3. CASE m < Len(s)
      BY <1>1, <1>2, <2>1, <2>3
    <2>4. QED BY <1>1, <2>1, <2>2, <2>3
  <1>4. ASSUME NEW i \in 1..Len(u) PROVE u[i] = s[m + i]
    <2>1. i \in 1..(Len(s) - (m + 1) + 1) /\ m + 1 + i - 1 = m + i
      BY <1>1, <1>3
    <2>2. QED BY <1>2, <2>1
  <1>5. QED BY <1>3, <1>4 DEF u

(* What _islice takes and leaves, by position.                             *)
LEMMA IsliceSlices ==
  ASSUME TypeOK, NEW k \in Nat, NEW s \in Seq(LinkDiffs), s # <<>>,
         Slice(s, Start(k), Len(file))
  PROVE  /\ Start(k) < Len(file)
         /\ Slice(Islice(s).taken, Start(k), End(k))
         /\ IF Start(k + 1) <= Len(file)
            THEN Slice(Islice(s).left, Start(k + 1), Len(file))
            ELSE Islice(s).left = <<>>
  <1>1. /\ MaxDiffs \in Nat \ {0} /\ Start(k) \in Nat /\ Len(file) \in Nat
        /\ Start(k + 1) = Start(k) + MaxDiffs + 1
    BY StartStep, FileType
  <1>2. Len(s) \in Nat \ {0} /\ Len(s) = Len(file) - Start(k)
    BY DEF Slice
  <1>3. \A i \in 1..Len(s) : s[i] = file[Start(k) + i]
    BY DEF Slice
  <1>4. CASE Len(s) <= MaxDiffs
    <2>1. Islice(s).taken = s /\ Islice(s).left = <<>>
      BY <1>4 DEF Islice
    <2>2. End(k) = Len(file) /\ Len(file) < Start(k + 1)
      BY <1>1, <1>2, <1>4 DEF End
    <2>3. Start(k) < Len(file)
      BY <1>1, <1>2
    <2>4. ~(Start(k + 1) <= Len(file))
      BY <1>1, <2>2
    <2>5. Slice(Islice(s).taken, Start(k), End(k))
      BY <2>1, <2>2
    <2>6. QED BY <2>1, <2>3, <2>4, <2>5
  <1>5. CASE Len(s) > MaxDiffs
    <2> DEFINE t == SubSeq(s, 1, MaxDiffs)
               u == SubSeq(s, MaxDiffs + 2, Len(s))
    <2>1. Islice(s).taken = t /\ Islice(s).left = u
      BY <1>1, <1>2, <1>5 DEF Islice
    <2>2. Len(t) = MaxDiffs /\ \A i \in 1..MaxDiffs : t[i] = s[i]
      <3>1. \A i \in 1..MaxDiffs : s[i] \in LinkDiffs
        BY <1>1, <1>2, <1>5
      <3>2. /\ Len(t) = IF 1 <= MaxDiffs THEN MaxDiffs - 1 + 1 ELSE 0
            /\ \A i \in 1..(MaxDiffs - 1 + 1) : t[i] = s[1 + i - 1]
        BY <1>1, <3>1, SubSeqProperties
      <3>3. QED BY <1>1, <3>2
    <2>3. /\ Len(u) = Len(s) - MaxDiffs - 1
          /\ \A i \in 1..Len(u) : u[i] = s[MaxDiffs + 1 + i]
      <3>1. MaxDiffs + 1 \in 1..Len(s) /\ MaxDiffs + 1 + 1 = MaxDiffs + 2
        BY <1>1, <1>2, <1>5
      <3>2. /\ Len(u) = Len(s) - (MaxDiffs + 1)
            /\ \A i \in 1..Len(u) : u[i] = s[(MaxDiffs + 1) + i]
        BY <3>1, Suffix
      <3>3. QED BY <1>1, <1>2, <3>2
    <2> HIDE DEF t, u
    <2>4. End(k) = Start(k) + MaxDiffs /\ Start(k + 1) <= Len(file)
      BY <1>1, <1>2, <1>5 DEF End
    <2>5. Slice(t, Start(k), End(k))
      BY <1>1, <1>2, <1>3, <1>5, <2>2, <2>4 DEF Slice
    <2>6. ASSUME NEW i \in 1..Len(u)
          PROVE  u[i] = file[Start(k + 1) + i]
      <3>1. MaxDiffs + 1 + i \in 1..Len(s)
        BY <1>1, <1>2, <1>5, <2>3
      <3>2. s[MaxDiffs + 1 + i] = file[Start(k) + (MaxDiffs + 1 + i)]
        BY <1>3, <3>1
      <3>3. Start(k) + (MaxDiffs + 1 + i) = Start(k + 1) + i
        BY <1>1, <2>3
      <3>4. QED BY <2>3, <3>2, <3>3
    <2>7. Slice(u, Start(k + 1), Len(file))
      BY <1>1, <1>2, <1>5, <2>3, <2>4, <2>6 DEF Slice
    <2>8. QED BY <1>1, <1>2, <2>1, <2>4, <2>5, <2>7
  <1>6. QED BY <1>1, <1>2, <1>4, <1>5

LEMMA CutStep == TypeOK /\ CutInv /\ Cut => CutInv'
  <1> SUFFICES ASSUME TypeOK, CutInv, Cut PROVE CutInv'
    OBVIOUS
  <1> DEFINE n == Len(requests)
  <1>1. /\ n \in Nat /\ rest \in Seq(LinkDiffs) /\ requests \in Seq(Seq(LinkDiffs))
        /\ rest # <<>> /\ file' = file /\ inHand' = inHand /\ ns' = ns
    BY DEF Cut, TypeOK
  <1>2. Slice(rest, Start(n), Len(file))
    BY <1>1 DEF CutInv
  <1>3. /\ Start(n) < Len(file)
        /\ Slice(Islice(rest).taken, Start(n), End(n))
        /\ IF Start(n + 1) <= Len(file)
           THEN Slice(Islice(rest).left, Start(n + 1), Len(file))
           ELSE Islice(rest).left = <<>>
    BY <1>1, <1>2, IsliceSlices
  <1>4. /\ Len(requests') = n + 1 /\ requests'[n + 1] = Islice(rest).taken
        /\ \A k \in 1..n : requests'[k] = requests[k]
    <2>1. Islice(rest).taken \in Seq(LinkDiffs)
      BY <1>1, IsliceType
    <2>2. requests' = Append(requests, Islice(rest).taken)
      BY DEF Cut
    <2>3. QED BY <1>1, <2>1, <2>2
  <1>5. ASSUME NEW k \in 1..(n + 1)
        PROVE  /\ Start(k - 1) < Len(file)
               /\ Slice(requests'[k], Start(k - 1), End(k - 1))
    <2>1. CASE k = n + 1
      <3>1. k - 1 = n
        BY <1>1, <2>1
      <3>2. QED BY <1>3, <1>4, <2>1, <3>1
    <2>2. CASE k \in 1..n
      BY <1>4, <2>2 DEF CutInv
    <2>3. QED BY <1>1, <2>1, <2>2
  <1>6. rest' = Islice(rest).left
    BY DEF Cut
  <1> HIDE DEF n
  <1>7. QED BY <1>1, <1>3, <1>4, <1>5, <1>6 DEF CutInv, Slice, End, Start

LEMMA SentType == TypeOK => Sent \subseteq 1..Len(file)
  BY DEF Sent

(* Nothing that is sent lies between the end of a request and the start of *)
(* the next.                                                               *)
LEMMA Gap ==
  ASSUME TypeOK, NEW r \in Nat \ {0}, NEW i \in Sent, End(r - 1) < i
  PROVE  Start(r) < i
  <1>1. /\ MaxDiffs \in Nat \ {0} /\ Len(file) \in Nat /\ Start(r - 1) \in Nat
        /\ Start(r) = Start(r - 1) + MaxDiffs + 1
    <2>1. r - 1 \in Nat /\ (r - 1) + 1 = r
      OBVIOUS
    <2>2. Start((r - 1) + 1) = Start(r - 1) + Size /\ Size = MaxDiffs + 1
          /\ MaxDiffs \in Nat \ {0} /\ Start(r - 1) \in Nat
      BY <2>1, StartStep
    <2>3. QED BY <2>1, <2>2, FileType
  <1>2. i \in 1..Len(file) /\ i % Size # 0
    BY DEF Sent, Size
  <1>3. End(r - 1) = Start(r - 1) + MaxDiffs
    BY <1>1, <1>2 DEF End
  <1>4. i # Start(r)
    <2>1. (Start(r) + 0) % Size = 0
      BY <1>1, InRequest
    <2>2. Start(r) + 0 = Start(r)
      BY <1>1
    <2>3. QED BY <1>2, <2>1, <2>2
  <1>5. QED BY <1>1, <1>2, <1>3, <1>4

LEMMA SameWanted ==
  ASSUME NEW l, NEW p, NEW q, UpTo(l, p) = UpTo(l, q)
  PROVE  WantedUpTo(l, p) = WantedUpTo(l, q)
  BY DEF WantedUpTo

LEMMA WantedStays ==
  ASSUME file' = file
  PROVE  /\ \A l, p : WantedUpTo(l, p)' = WantedUpTo(l, p)
         /\ \A t, a, b : Slice(t, a, b)' <=> Slice(t, a, b)
         /\ \A k : End(k)' = End(k)
  BY DEF WantedUpTo, UpTo, Touching, Sent, Slice, End

LEMMA SendStep == TypeOK /\ CutInv /\ Send => StreamedTo(0, 0)'
  <1> SUFFICES ASSUME TypeOK, CutInv, Send PROVE StreamedTo(0, 0)'
    OBVIOUS
  <1>1. /\ file' = file /\ requests' = requests /\ inHand' = inHand /\ ns' = ns
        /\ ms' = active /\ active' = active /\ rest = <<>>
    BY DEF Send
  <1>2. Len(requests) \in Nat /\ Len(file) \in Nat /\ Start(Len(requests)) \in Nat
    <2>1. Len(requests) \in Nat
      BY DEF TypeOK
    <2>2. QED BY <2>1, FileType, StartStep
  <1>3. Len(file) <= Start(Len(requests))
    <2>1. CASE Start(Len(requests)) <= Len(file)
      <3>1. Len(rest) = Len(file) - Start(Len(requests)) /\ Len(rest) = 0
        BY <1>1, <2>1 DEF CutInv, Slice
      <3>2. QED BY <1>2, <3>1
    <2>2. QED BY <1>2, <2>1
  <1>4. \A l \in Links : WantedUpTo(l, 0) = Untouched
    BY SentType, <1>2 DEF WantedUpTo, UpTo, Touching
  <1>5. ns' = [l \in Links |-> WantedUpTo(l, 0)']
    BY <1>1, <1>4, WantedStays DEF CutInv
  <1>6. ASSUME NEW k \in 1..Len(requests)
        PROVE  /\ Start(0 + k - 1) < Len(file)
               /\ Slice(requests[k], Start(0 + k - 1), End(0 + k - 1))
    <2>1. 0 + k - 1 = k - 1
      OBVIOUS
    <2>2. QED BY <2>1 DEF CutInv
  <1>7. 0 + Len(requests) = Len(requests) /\ inHand = <<>>
    BY <1>2 DEF CutInv
  <1>8. QED BY <1>1, <1>3, <1>5, <1>6, <1>7, WantedStays DEF StreamedTo

LEMMA ReceiveStep ==
  ASSUME TypeOK, NEW r \in Nat, NEW p \in Nat, StreamedTo(r, p), Receive
  PROVE  StreamedTo(r + 1, Start(r))'
  <1> DEFINE n == Len(requests)
  <1>1. /\ file' = file /\ ns' = ns /\ ms' = ms /\ active' = active
        /\ inHand = <<>> /\ inHand' = Head(requests) /\ requests' = Tail(requests)
        /\ requests \in Seq(Seq(LinkDiffs)) /\ requests # <<>> /\ ms = active
    BY DEF Receive, TypeOK, StreamedTo
  <1>2. /\ n \in Nat \ {0} /\ Len(requests') = n - 1 /\ inHand' = requests[1]
        /\ \A k \in 1..(n - 1) : requests'[k] = requests[k + 1]
    BY <1>1
  <1>3. ASSUME NEW k \in 1..(n - 1)
        PROVE  /\ Start((r + 1) + k - 1) < Len(file)
               /\ Slice(requests'[k], Start((r + 1) + k - 1), End((r + 1) + k - 1))
    <2>1. k + 1 \in 1..n /\ r + (k + 1) - 1 = (r + 1) + k - 1
      BY <1>2
    <2>2. /\ Start(r + (k + 1) - 1) < Len(file)
          /\ Slice(requests[k + 1], Start(r + (k + 1) - 1), End(r + (k + 1) - 1))
      BY <2>1 DEF StreamedTo
    <2>3. QED BY <1>2, <2>1, <2>2
  <1>4. Len(file) <= Start((r + 1) + (n - 1))
    <2>1. (r + 1) + (n - 1) = r + n
      BY <1>2
    <2>2. QED BY <2>1 DEF StreamedTo
  <1>5. /\ Start(r) < Len(file) /\ Slice(requests[1], Start(r), End(r))
    <2>1. 1 \in 1..n /\ r + 1 - 1 = r
      BY <1>2
    <2>2. /\ Start(r + 1 - 1) < Len(file)
          /\ Slice(requests[1], Start(r + 1 - 1), End(r + 1 - 1))
      BY <2>1 DEF StreamedTo
    <2>3. QED BY <2>1, <2>2
  <1>6. Start(r) \in Nat /\ Start(r) <= Start(r)
    BY StartStep
  <1>7. ASSUME NEW l \in Links
        PROVE  WantedUpTo(l, Start(r)) = WantedUpTo(l, p)
    <2>1. p <= Start(r)
      <3>1. CASE r = 0
        BY <1>6, <3>1 DEF StreamedTo
      <3>2. CASE r # 0
        <4>1. r - 1 \in Nat /\ (r - 1) + 1 = r
          BY <3>2
        <4>2. /\ Start((r - 1) + 1) = Start(r - 1) + Size /\ Size = MaxDiffs + 1
              /\ MaxDiffs \in Nat \ {0} /\ Start(r - 1) \in Nat
          BY <4>1, StartStep
        <4>3. p <= End(r - 1)
          BY <3>2 DEF StreamedTo, Slice
        <4>4. End(r - 1) <= Start(r - 1) + MaxDiffs /\ End(r - 1) \in Nat
          BY <4>2, FileType DEF End
        <4>5. QED BY <4>1, <4>2, <4>3, <4>4
      <3>3. QED BY <3>1, <3>2
    <2>2. ASSUME NEW i \in Sent, i <= Start(r) PROVE i <= p
      <3>0. i \in Nat /\ i # 0
        BY SentType, FileType
      <3>1. CASE r = 0
        BY <2>2, <3>0, <3>1, StartStep
      <3>2. CASE r # 0
        <4>1. Len(inHand) = 0 /\ Slice(inHand, p, End(r - 1))
          BY <1>1, <3>2 DEF StreamedTo
        <4>2. End(r - 1) = p
          BY <4>1 DEF Slice
        <4>3. ~(End(r - 1) < i)
          BY <1>6, <2>2, <3>0, <3>2, Gap
        <4>4. QED BY <3>0, <4>2, <4>3
      <3>3. QED BY <3>1, <3>2
    <2>3. UpTo(l, Start(r)) = UpTo(l, p)
      <3>1. \A i \in Sent : i \in Nat
        BY SentType, FileType
      <3>2. QED BY <1>6, <2>1, <2>2, <3>1 DEF UpTo, Touching
    <2>4. QED BY <2>3, SameWanted
  <1>8. ns' = [l \in Links |-> WantedUpTo(l, Start(r))']
    BY <1>1, <1>7, WantedStays DEF StreamedTo
  <1>9. r + 1 # 0 /\ (r + 1) - 1 = r
    OBVIOUS
  <1> HIDE DEF n
  <1>10. QED BY <1>1, <1>2, <1>3, <1>4, <1>5, <1>6, <1>8, <1>9, WantedStays
           DEF StreamedTo

(* The last of the positions up to a position of its own is that position. *)
LEMMA WantedNext ==
  ASSUME TypeOK, NEW l \in Links, NEW p \in Nat, p + 1 \in Sent
  PROVE  WantedUpTo(l, p + 1) =
           IF file[p + 1].link \in {l, Reverse(l)}
           THEN Entry(file[p + 1], IF file[p + 1].link = l THEN file[p + 1].next
                                   ELSE file[p + 1].prev)
           ELSE WantedUpTo(l, p)
  <1>1. \A i \in Sent : i \in Nat
    BY SentType, FileType
  <1>2. CASE file[p + 1].link \in {l, Reverse(l)}
    <2>1. p + 1 \in UpTo(l, p + 1)
      BY <1>2 DEF UpTo, Touching
    <2>2. \A i \in UpTo(l, p + 1) : i \in Nat /\ i <= p + 1
      BY <1>1 DEF UpTo, Touching
    <2> DEFINE c == CHOOSE i \in UpTo(l, p + 1) : \A j \in UpTo(l, p + 1) : j <= i
    <2>3. c = p + 1
      BY <2>1, <2>2
    <2>4. WantedUpTo(l, p + 1) =
            IF UpTo(l, p + 1) = {} THEN Untouched
            ELSE Entry(file[c], IF file[c].link = l THEN file[c].next
                                ELSE file[c].prev)
      BY DEF WantedUpTo
    <2> HIDE DEF c
    <2>5. WantedUpTo(l, p + 1) =
            Entry(file[p + 1], IF file[p + 1].link = l THEN file[p + 1].next
                               ELSE file[p + 1].prev)
      BY <2>1, <2>3, <2>4
    <2>6. QED BY <1>2, <2>5
  <1>3. CASE file[p + 1].link \notin {l, Reverse(l)}
    <2>1. ASSUME NEW i \in Touching(l) PROVE i <= p + 1 <=> i <= p
      <3>1. i \in Nat /\ i # p + 1
        BY <1>1, <1>3 DEF Touching
      <3>2. QED BY <3>1
    <2>2. UpTo(l, p + 1) = UpTo(l, p)
      BY <2>1 DEF UpTo
    <2>3. QED BY <1>3, <2>2, SameWanted
  <1>4. QED BY <1>2, <1>3

LEMMA FoldStep ==
  ASSUME TypeOK, NEW r \in Nat, NEW p \in Nat, StreamedTo(r, p), FoldDiff
  PROVE  StreamedTo(r, p + 1)'
  <1> DEFINE d == file[p + 1]
             q == r - 1
  <1>1. /\ file' = file /\ ms' = ms /\ active' = active /\ requests' = requests
        /\ inHand # <<>> /\ inHand' = Tail(inHand) /\ inHand \in Seq(LinkDiffs)
        /\ ns' = Folded(ns, Head(inHand)) /\ ms = active
        /\ ns \in [Links -> Entries]
    BY DEF FoldDiff, TypeOK, StreamedTo
  <1>2. /\ q \in Nat /\ r # 0 /\ q + 1 = r
        /\ Start(q) <= p /\ Slice(inHand, p, End(q))
    BY <1>1 DEF StreamedTo
  <1>3. /\ Start(q) \in Nat /\ MaxDiffs \in Nat \ {0} /\ Len(file) \in Nat
        /\ End(q) \in Nat /\ End(q) <= Len(file) /\ End(q) <= Start(q) + MaxDiffs
    <2>1. Start(q) \in Nat /\ MaxDiffs \in Nat \ {0} /\ Len(file) \in Nat
      BY <1>2, StartStep, FileType
    <2>2. QED BY <2>1 DEF End
  <1>4. /\ Len(inHand) \in Nat \ {0} /\ Len(inHand) = End(q) - p
        /\ \A i \in 1..Len(inHand) : inHand[i] = file[p + i]
        /\ Head(inHand) = inHand[1]
    BY <1>1, <1>2 DEF Slice
  <1>5. /\ Len(inHand') = Len(inHand) - 1
        /\ \A i \in 1..Len(inHand') : inHand'[i] = inHand[i + 1]
    <2>1. /\ Len(Tail(inHand)) = Len(inHand) - 1
          /\ \A i \in 1..Len(Tail(inHand)) : Tail(inHand)[i] = inHand[i + 1]
      BY <1>1, HeadTailProperties
    <2>2. QED BY <1>1, <2>1
  <1> HIDE DEF q
  <1>6. Head(inHand) = d
    <2>1. 1 \in 1..Len(inHand)
      BY <1>4
    <2>2. QED BY <1>4, <2>1
  <1>7. p + 1 \in Sent
    <2> DEFINE j == p + 1 - Start(q)
    <2>1. j \in 0..MaxDiffs /\ j # 0 /\ Start(q) + j = p + 1
      BY <1>2, <1>3, <1>4
    <2> HIDE DEF j
    <2>2. (p + 1) % Size # 0
      BY <1>2, <2>1, InRequest
    <2>3. p + 1 \in 1..Len(file)
      BY <1>3, <1>4
    <2>4. QED BY <2>2, <2>3 DEF Sent, Size
  <1>8. Slice(inHand', p + 1, End(q))
    <2>1. ASSUME NEW i \in 1..Len(inHand')
          PROVE  inHand'[i] = file[(p + 1) + i]
      <3>1. i + 1 \in 1..Len(inHand) /\ p + (i + 1) = (p + 1) + i
        BY <1>4, <1>5
      <3>2. QED BY <1>4, <1>5, <3>1
    <2>2. /\ p + 1 \in Nat /\ p + 1 <= End(q)
          /\ Len(inHand') = End(q) - (p + 1)
      BY <1>3, <1>4, <1>5
    <2>3. QED BY <1>3, <2>1, <2>2 DEF Slice
  <1>9. d \in LinkDiffs /\ d.link \in Links /\ Reverse(d.link) \in Links
        /\ d.link # Reverse(d.link)
    <2>1. p + 1 \in 1..Len(file)
      BY <1>3, <1>4
    <2>2. d \in LinkDiffs
      BY <2>1, FileType
    <2>3. d.link \in Links
      BY <2>2 DEF LinkDiffs
    <2> HIDE DEF d
    <2>4. QED BY <2>2, <2>3 DEF Links, Reverse
  <1>10. ASSUME NEW l \in Links
         PROVE  ns'[l] = WantedUpTo(l, p + 1)
    <2>1. ns[l] = WantedUpTo(l, p)
      BY DEF StreamedTo
    <2>2. ns' = [ns EXCEPT ![d.link] = Entry(d, d.next),
                           ![Reverse(d.link)] = Entry(d, d.prev)]
      BY <1>1, <1>6 DEF Folded
    <2>3. WantedUpTo(l, p + 1) =
            IF d.link \in {l, Reverse(l)}
            THEN Entry(d, IF d.link = l THEN d.next ELSE d.prev)
            ELSE WantedUpTo(l, p)
      BY <1>7, WantedNext
    <2>4. Reverse(Reverse(d.link)) = d.link /\ Reverse(Reverse(l)) = l
      BY <1>9, ReverseLink
    <2> HIDE DEF d
    <2>5. CASE l = d.link
      BY <1>1, <1>9, <2>2, <2>3, <2>5
    <2>6. CASE l = Reverse(d.link)
      BY <1>1, <1>9, <2>2, <2>3, <2>4, <2>6
    <2>7. CASE l # d.link /\ l # Reverse(d.link)
      <3>1. d.link # Reverse(l)
        BY <2>4, <2>7
      <3>2. ns'[l] = ns[l]
        BY <1>1, <1>9, <2>2, <2>7
      <3>3. QED BY <2>1, <2>3, <2>7, <3>1, <3>2
    <2>8. QED BY <2>5, <2>6, <2>7
  <1>11. ns' = [l \in Links |-> WantedUpTo(l, p + 1)']
    <2>1. ns' \in [Links -> Entries]
      BY TypeStep DEF TypeOK, Next
    <2>2. QED BY <1>1, <1>10, <2>1, WantedStays
  <1>12. Start(q) <= p + 1
    BY <1>2, <1>3
  <1>13. r - 1 = q
    BY <1>2
  <1> HIDE DEF d
  <1>14. ASSUME NEW k \in 1..Len(requests)
         PROVE  /\ Start(r + k - 1) < Len(file)
                /\ Slice(requests[k], Start(r + k - 1), End(r + k - 1))
    BY DEF StreamedTo
  <1>15. Len(file) <= Start(r + Len(requests))
    BY DEF StreamedTo
  <1>16. QED BY <1>1, <1>2, <1>8, <1>11, <1>12, <1>13, <1>14, <1>15, WantedStays
            DEF StreamedTo

LEMMA ApplyStep ==
  ASSUME TypeOK, NEW r \in Nat, NEW p \in Nat, StreamedTo(r, p), Apply
  PROVE  AppliedIsSent'
  <1>1. /\ requests = <<>> /\ inHand = <<>> /\ file' = file /\ active' = active
        /\ ns' = ns /\ ms' = ms /\ ms = active
    BY DEF Apply, StreamedTo
  <1>2. Len(file) <= Start(r) /\ Start(r) \in Nat /\ Len(file) \in Nat
    <2>1. Len(requests) = 0 /\ r + 0 = r
      BY <1>1
    <2>2. QED BY <2>1, StartStep, FileType DEF StreamedTo
  <1>3. ASSUME NEW i \in Sent PROVE i <= p
    <2>1. i \in 1..Len(file)
      BY SentType
    <2>2. CASE r = 0
      BY <1>2, <2>1, <2>2, StartStep
    <2>3. CASE r # 0
      <3>1. Len(inHand) = 0 /\ Slice(inHand, p, End(r - 1))
        BY <1>1, <2>3 DEF StreamedTo
      <3>2. End(r - 1) = p
        BY <3>1 DEF Slice
      <3>3. ~(End(r - 1) < i)
        BY <1>2, <2>1, <2>3, Gap
      <3>4. QED BY <1>2, <2>1, <3>2, <3>3
    <2>4. QED BY <2>2, <2>3
  <1>4. ASSUME NEW l \in Links PROVE WantedUpTo(l, p) = Wanted(l)
    <2>1. UpTo(l, p) = Touching(l)
      BY <1>3 DEF UpTo, Touching
    <2>2. QED BY <2>1 DEF WantedUpTo, Wanted, LastOf
  <1>5. ns = [l \in Links |-> Wanted(l)]
    BY <1>4 DEF StreamedTo
  <1>6. \A l : Wanted(l)' = Wanted(l)
    BY <1>1 DEF Wanted, LastOf, Touching, Sent
  <1>7. QED BY <1>1, <1>5, <1>6 DEF AppliedIsSent

LEMMA StreamStep == TypeOK /\ StreamInv /\ [Next]_vars => StreamInv'
  <1> SUFFICES ASSUME TypeOK, StreamInv, [Next]_vars PROVE StreamInv'
    OBVIOUS
  <1>1. CASE Cut
    <2>1. phase = "cutting" /\ phase' = "cutting"
      BY <1>1 DEF Cut
    <2>2. CutInv'
      BY <1>1, <2>1, CutStep DEF StreamInv
    <2>3. QED BY <2>1, <2>2 DEF StreamInv, AppliedIsSent
  <1>2. CASE Send
    <2>1. phase = "cutting" /\ phase' = "streaming"
      BY <1>2 DEF Send
    <2>2. StreamedTo(0, 0)'
      BY <1>2, <2>1, SendStep DEF StreamInv
    <2>3. QED BY <2>1, <2>2 DEF StreamInv, AppliedIsSent
  <1>3. CASE Receive
    <2>1. phase = "streaming" /\ phase' = "streaming"
      BY <1>3 DEF Receive
    <2>2. PICK r \in Nat, p \in Nat : StreamedTo(r, p)
      BY <2>1 DEF StreamInv
    <2>3. StreamedTo(r + 1, Start(r))' /\ r + 1 \in Nat /\ Start(r) \in Nat
      BY <1>3, <2>2, ReceiveStep, StartStep
    <2>4. \E s, q \in Nat : StreamedTo(s, q)'
      BY <2>3
    <2>5. QED BY <2>1, <2>4 DEF StreamInv, AppliedIsSent
  <1>4. CASE FoldDiff
    <2>1. phase = "streaming" /\ phase' = "streaming"
      BY <1>4 DEF FoldDiff
    <2>2. PICK r \in Nat, p \in Nat : StreamedTo(r, p)
      BY <2>1 DEF StreamInv
    <2>3. StreamedTo(r, p + 1)' /\ p + 1 \in Nat
      BY <1>4, <2>2, FoldStep
    <2>4. \E s, q \in Nat : StreamedTo(s, q)'
      BY <2>3
    <2>5. QED BY <2>1, <2>4 DEF StreamInv, AppliedIsSent
  <1>5. CASE Apply
    <2>1. phase = "streaming" /\ phase' = "applied"
      BY <1>5 DEF Apply
    <2>2. PICK r \in Nat, p \in Nat : StreamedTo(r, p)
      BY <2>1 DEF StreamInv
    <2>3. AppliedIsSent'
      BY <1>5, <2>2, ApplyStep
    <2>4. QED BY <2>1, <2>3 DEF StreamInv
  <1>6. CASE Abort
    BY <1>6 DEF Abort, StreamInv, AppliedIsSent
  <1>7. CASE Done \/ UNCHANGED vars
    <2>1. UNCHANGED vars
      BY <1>7 DEF Done
    <2>2. CutInv' <=> CutInv
      BY <2>1 DEF vars, CutInv, Slice, End
    <2>3. \A r, p : StreamedTo(r, p)' <=> StreamedTo(r, p)
      BY <2>1 DEF vars, StreamedTo, Slice, End, WantedUpTo, UpTo, Touching, Sent
    <2>4. AppliedIsSent' <=> AppliedIsSent
      BY <2>1 DEF vars, AppliedIsSent, Wanted, LastOf, Touching, Sent
    <2>5. phase' = phase
      BY <2>1 DEF vars
    <2>6. QED BY <2>2, <2>3, <2>4, <2>5 DEF StreamInv
  <1>8. QED BY <1>1, <1>2, <1>3, <1>4, <1>5, <1>6, <1>7 DEF Next

(* However long the file and the requests are, what is applied is the last *)
(* diff of every pair but those that _islice drops.                        *)
THEOREM LastDiffApplied == Spec => []AppliedIsSent
  <1>1. Init => StreamInv
    <2> SUFFICES ASSUME Init PROVE StreamInv
      OBVIOUS
    <2>1. /\ phase = "cutting" /\ requests = <<>> /\ rest = file /\ inHand = <<>>
          /\ ns = [l \in Links |-> Untouched]
      BY DEF Init
    <2>2. file \in Seq(LinkDiffs) /\ Len(file) \in Nat
      BY UpdateStreamAssumption DEF Init
    <2>3. Start(0) = 0 /\ Len(requests) = 0
      BY <2>1, StartStep
    <2>4. Slice(rest, 0, Len(file))
      BY <2>1, <2>2 DEF Slice
    <2>5. CutInv
      BY <2>1, <2>2, <2>3, <2>4 DEF CutInv
    <2>6. QED BY <2>1, <2>5 DEF StreamInv, AppliedIsSent
  <1>2. StreamInv => AppliedIsSent
    BY DEF StreamInv
  <1>3. QED BY <1>1, <1>2, TypeCorrect, StreamStep, PTL DEF Spec

=============================================================================
