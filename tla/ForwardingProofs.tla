--------------------------- MODULE ForwardingProofs ---------------------------
(****************************************************************************)
(* What the decoder makes of a stream however it is cut, and what follows   *)
(* for the observer and the server, for any streams and any buffer size.    *)
(****************************************************************************)
EXTENDS Forwarding, SequenceTheorems, FiniteSetTheorems, WellFoundedInduction, TLAPS

----------------------------------------------------------------------------
(* Recursion.  A loop that goes on until a stop has a value at every start. *)

\* In k steps the path p leads from w to a stop, and the loop's value there is v.
Leads(S, stop, next, out, w, v, k, p) ==
    /\ p[0] = w /\ p[k] \in stop /\ out[p[k]] = v
    /\ \A i \in 0..k - 1 : p[i] \notin stop /\ p[i + 1] = next[p[i]]

Reaches(S, stop, next, out, w, v) ==
    \E k \in Nat : \E p \in [0..k -> S] : Leads(S, stop, next, out, w, v, k, p)

LEMMA ReachesStop ==
  ASSUME NEW S, NEW stop, NEW next, NEW out, NEW w \in S, w \in stop, NEW v
  PROVE  Reaches(S, stop, next, out, w, v) <=> v = out[w]
<1>1. ASSUME v = out[w] PROVE Reaches(S, stop, next, out, w, v)
  <2> DEFINE p == [i \in 0..0 |-> w]
  <2>1. p \in [0..0 -> S] /\ Leads(S, stop, next, out, w, v, 0, p)
    BY <1>1 DEF Leads
  <2> QED BY <2>1 DEF Reaches
<1>2. ASSUME Reaches(S, stop, next, out, w, v) PROVE v = out[w]
  <2>0. PICK k \in Nat : \E p \in [0..k -> S] : Leads(S, stop, next, out, w, v, k, p)
    BY <1>2 DEF Reaches
  <2>1. PICK p \in [0..k -> S] : Leads(S, stop, next, out, w, v, k, p)
    BY <2>0
  <2>2. k = 0
    <3> SUFFICES ASSUME k # 0 PROVE FALSE
      OBVIOUS
    <3>1. 0 \in 0..k - 1
      BY <2>1
    <3> QED BY <2>1, <3>1 DEF Leads
  <2> QED BY <2>1, <2>2 DEF Leads
<1> QED BY <1>1, <1>2

LEMMA ReachesNext ==
  ASSUME NEW S, NEW stop, NEW next, NEW out, NEW w \in S, w \notin stop, next[w] \in S, NEW v
  PROVE  Reaches(S, stop, next, out, w, v) <=> Reaches(S, stop, next, out, next[w], v)
<1>1. ASSUME Reaches(S, stop, next, out, w, v) PROVE Reaches(S, stop, next, out, next[w], v)
  <2>0. PICK k \in Nat : \E p \in [0..k -> S] : Leads(S, stop, next, out, w, v, k, p)
    BY <1>1 DEF Reaches
  <2>1. PICK p \in [0..k -> S] : Leads(S, stop, next, out, w, v, k, p)
    BY <2>0
  <2>2. k # 0
    BY <2>1 DEF Leads
  <2> DEFINE q == [i \in 0..k - 1 |-> p[i + 1]]
  <2>3. k - 1 \in Nat /\ \A i \in 0..k - 1 : i + 1 \in 0..k
    BY <2>2
  <2>4. q \in [0..k - 1 -> S]
    BY <2>3
  <2>5. p[0] = w /\ p[k] \in stop /\ out[p[k]] = v /\ \A i \in 0..k - 1 : p[i] \notin stop /\ p[i + 1] = next[p[i]]
    BY <2>1 DEF Leads
  <2>6. q[0] = next[w] /\ q[k - 1] = p[k]
    <3>1. 0 \in 0..k - 1 /\ k - 1 \in 0..k - 1 /\ 0 + 1 = 1 /\ (k - 1) + 1 = k
      BY <2>2
    <3> QED BY <2>5, <3>1
  <2>7. \A i \in 0..(k - 1) - 1 : q[i] \notin stop /\ q[i + 1] = next[q[i]]
    <3> SUFFICES ASSUME NEW i \in 0..(k - 1) - 1 PROVE q[i] \notin stop /\ q[i + 1] = next[q[i]]
      OBVIOUS
    <3>1. i \in 0..k - 1 /\ i + 1 \in 0..k - 1
      OBVIOUS
    <3>2. q[i] = p[i + 1] /\ q[i + 1] = p[(i + 1) + 1]
      BY <3>1
    <3>3. p[i + 1] \notin stop /\ p[(i + 1) + 1] = next[p[i + 1]]
      BY <2>5, <3>1
    <3> QED BY <3>2, <3>3
  <2>8. Leads(S, stop, next, out, next[w], v, k - 1, q)
    BY <2>5, <2>6, <2>7 DEF Leads
  <2> QED BY <2>3, <2>4, <2>8 DEF Reaches
<1>2. ASSUME Reaches(S, stop, next, out, next[w], v) PROVE Reaches(S, stop, next, out, w, v)
  <2>0. PICK k \in Nat : \E p \in [0..k -> S] : Leads(S, stop, next, out, next[w], v, k, p)
    BY <1>2 DEF Reaches
  <2>1. PICK p \in [0..k -> S] : Leads(S, stop, next, out, next[w], v, k, p)
    BY <2>0
  <2> DEFINE q == [i \in 0..k + 1 |-> IF i = 0 THEN w ELSE p[i - 1]]
  <2>2. k + 1 \in Nat /\ q \in [0..k + 1 -> S]
    OBVIOUS
  <2>3. p[0] = next[w] /\ p[k] \in stop /\ out[p[k]] = v /\ \A i \in 0..k - 1 : p[i] \notin stop /\ p[i + 1] = next[p[i]]
    BY <2>1 DEF Leads
  <2>4. q[0] = w /\ q[1] = next[w] /\ q[k + 1] = p[k]
    BY <2>3
  <2>5. \A i \in 0..(k + 1) - 1 : q[i] \notin stop /\ q[i + 1] = next[q[i]]
    <3> SUFFICES ASSUME NEW i \in 0..(k + 1) - 1 PROVE q[i] \notin stop /\ q[i + 1] = next[q[i]]
      OBVIOUS
    <3>1. CASE i = 0
      BY <2>4, <3>1
    <3>2. CASE i # 0
      <4>1. i - 1 \in 0..k - 1 /\ i \in 0..k + 1 /\ i + 1 \in 0..k + 1 /\ (i - 1) + 1 = i /\ (i + 1) - 1 = i
        BY <3>2
      <4>2. q[i] = p[i - 1] /\ q[i + 1] = p[i]
        BY <3>2, <4>1
      <4> QED BY <2>3, <4>1, <4>2
    <3> QED BY <3>1, <3>2
  <2>6. Leads(S, stop, next, out, w, v, k + 1, q)
    BY <2>3, <2>4, <2>5 DEF Leads
  <2> QED BY <2>2, <2>6 DEF Reaches
<1> QED BY <1>1, <1>2

Loops(f, S, stop, next, out) ==
    f = [w \in S |-> IF w \in stop THEN out[w] ELSE f[next[w]]]

LEMMA LoopExists ==
  ASSUME NEW S, NEW stop, NEW next, NEW out, \A w \in S \ stop : next[w] \in S
  PROVE  \E f : Loops(f, S, stop, next, out)
<1> DEFINE Value(w) == CHOOSE v : Reaches(S, stop, next, out, w, v)
           f == [w \in S |-> Value(w)]
<1>1. ASSUME NEW w \in S, w \in stop PROVE Value(w) = out[w]
  <2>1. \A v : Reaches(S, stop, next, out, w, v) <=> v = out[w]
    BY <1>1, ReachesStop
  <2> QED BY <2>1
<1>2. ASSUME NEW w \in S, w \notin stop PROVE next[w] \in S /\ Value(w) = Value(next[w])
  <2>1. next[w] \in S
    BY <1>2
  <2>2. \A v : Reaches(S, stop, next, out, w, v) <=> Reaches(S, stop, next, out, next[w], v)
    BY <1>2, <2>1, ReachesNext
  <2> QED BY <2>1, <2>2, Zenon
<1> HIDE DEF Value
<1>3. f = [w \in S |-> IF w \in stop THEN out[w] ELSE f[next[w]]]
  <2>1. \A w \in S : Value(w) = IF w \in stop THEN out[w] ELSE f[next[w]]
    BY <1>1, <1>2
  <2> QED BY <2>1
<1> HIDE DEF f
<1> QED BY <1>3 DEF Loops

LEMMA NatSet ==
  ASSUME NEW S, S \subseteq Nat, 0 \in S, \A n \in S : n + 1 \in S
  PROVE  S = Nat
<1> SUFFICES ASSUME Nat \ S # {} PROVE FALSE
  OBVIOUS
<1>1. PICK n \in Nat \ S : \A m \in Nat \ S : <<m, n>> \notin OpToRel(<, Nat)
  <2>1. Nat \ S \subseteq Nat
    OBVIOUS
  <2> QED BY <2>1, NatLessThanWellFounded, WFMin
<1>2. \A m \in Nat \ S : ~(m < n)
  BY <1>1 DEF OpToRel
<1>3. n # 0 /\ n - 1 \in Nat
  OBVIOUS
<1>4. n - 1 \in S
  BY <1>2, <1>3
<1> QED BY <1>3, <1>4

----------------------------------------------------------------------------
(* Sequences of units.                                                      *)

LEMMA Found ==
  ASSUME NEW s \in Seq(Units), NEW u
  PROVE  LET k == Find(s, u)
         IN  \/ k = 0 /\ \A i \in 1..Len(s) : s[i] # u
             \/ k \in 1..Len(s) /\ s[k] = u /\ \A i \in 1..Len(s) : s[i] = u => k <= i
<1> DEFINE I == {i \in 1..Len(s) : s[i] = u}
<1>1. Find(s, u) = IF I # {} THEN Min(I) ELSE 0
  BY DEF Find, SelectInSeq
<1>2. CASE I = {}
  BY <1>1, <1>2
<1>3. CASE I # {}
  <2>1. PICK n \in I : \A m \in I : <<m, n>> \notin OpToRel(<, Nat)
    <3>1. I \subseteq Nat
      OBVIOUS
    <3> QED BY <1>3, <3>1, NatLessThanWellFounded, WFMin
  <2>2. \A m \in I : n <= m
    <3>1. n \in Nat /\ \A m \in I : m \in Nat
      OBVIOUS
    <3> HIDE DEF I
    <3>2. \A m \in I : ~(m < n)
      BY <2>1, <3>1 DEF OpToRel
    <3> QED BY <3>1, <3>2
  <2>3. Min(I) \in I /\ \A m \in I : Min(I) <= m
    BY <2>2 DEF Min
  <2> QED BY <1>1, <1>3, <2>3
<1> QED BY <1>2, <1>3

\* What is appended changes nothing about the first u.
LEMMA FoundStays ==
  ASSUME NEW s \in Seq(Units), NEW t \in Seq(Units), NEW u, Find(s, u) # 0
  PROVE  Find(s \o t, u) = Find(s, u)
<1> DEFINE k == Find(s, u)
           l == Find(s \o t, u)
<1>1. s \o t \in Seq(Units) /\ Len(s) \in Nat /\ Len(t) \in Nat /\ Len(s \o t) = Len(s) + Len(t)
      /\ \A i \in 1..Len(s) : (s \o t)[i] = s[i]
  OBVIOUS
<1>2. k \in 1..Len(s) /\ s[k] = u /\ \A i \in 1..Len(s) : s[i] = u => k <= i
  BY Found
<1>3. \/ l = 0 /\ \A i \in 1..Len(s \o t) : (s \o t)[i] # u
      \/ l \in 1..Len(s \o t) /\ (s \o t)[l] = u /\ \A i \in 1..Len(s \o t) : (s \o t)[i] = u => l <= i
  BY <1>1, Found
<1> HIDE DEF k, l
<1>4. k \in 1..Len(s \o t) /\ (s \o t)[k] = u
  BY <1>1, <1>2
<1>5. l \in 1..Len(s \o t) /\ (s \o t)[l] = u /\ l <= k
  BY <1>3, <1>4
<1>6. l \in 1..Len(s) /\ s[l] = u
  BY <1>1, <1>2, <1>5
<1> QED BY <1>2, <1>5, <1>6 DEF k, l

LEMMA Cut ==
  ASSUME NEW s \in Seq(Units), NEW m \in Nat, NEW n \in 0..Len(s)
  PROVE  /\ SubSeq(s, m + 1, n) \in Seq(Units)
         /\ Len(SubSeq(s, m + 1, n)) = IF m < n THEN n - m ELSE 0
OBVIOUS

LEMMA CutStays ==
  ASSUME NEW s \in Seq(Units), NEW t \in Seq(Units), NEW m \in Nat, NEW n \in 0..Len(s)
  PROVE  SubSeq(s \o t, m + 1, n) = SubSeq(s, m + 1, n)
<1>1. CASE n <= m
  BY <1>1, SubSeqEmpty
<1>2. CASE m < n
  <2>1. m + 1 \in 1..Len(s) /\ n \in 1..Len(s)
    BY <1>2
  <2> QED BY <2>1, SubSeqOfConcat1
<1> QED BY <1>1, <1>2

LEMMA RestMoves ==
  ASSUME NEW s \in Seq(Units), NEW t \in Seq(Units), NEW n \in 0..Len(s)
  PROVE  SubSeq(s \o t, n + 1, Len(s \o t)) = SubSeq(s, n + 1, Len(s)) \o t
<1> DEFINE l == SubSeq(s \o t, n + 1, Len(s \o t))
           r == SubSeq(s, n + 1, Len(s)) \o t
<1>1. Len(s) \in Nat /\ Len(t) \in Nat /\ Len(s \o t) = Len(s) + Len(t) /\ s \o t \in Seq(Units)
  OBVIOUS
<1>2. l \in Seq(Units) /\ Len(l) = Len(s) + Len(t) - n
      /\ \A i \in 1..Len(s) + Len(t) - n : l[i] = (s \o t)[n + i]
  BY <1>1
<1>3. SubSeq(s, n + 1, Len(s)) \in Seq(Units) /\ Len(SubSeq(s, n + 1, Len(s))) = Len(s) - n
      /\ \A i \in 1..Len(s) - n : SubSeq(s, n + 1, Len(s))[i] = s[n + i]
  BY <1>1
<1>4. r \in Seq(Units) /\ Len(r) = Len(s) - n + Len(t)
      /\ \A i \in 1..Len(s) + Len(t) - n : r[i] = IF i <= Len(s) - n THEN s[n + i] ELSE t[i - (Len(s) - n)]
  BY <1>1, <1>3
<1>5. ASSUME NEW i \in 1..Len(s) + Len(t) - n
      PROVE  (s \o t)[n + i] = IF n + i <= Len(s) THEN s[n + i] ELSE t[n + i - Len(s)]
  <2> DEFINE j == n + i
  <2>1. j \in 1..Len(s) + Len(t)
    BY <1>1
  <2> HIDE DEF j
  <2>2. (s \o t)[j] = IF j <= Len(s) THEN s[j] ELSE t[j - Len(s)]
    BY <2>1, ConcatProperties
  <2> QED BY <2>2 DEF j
<1> HIDE DEF l, r
<1>6. \A i \in 1..Len(s) + Len(t) - n : l[i] = r[i]
  BY <1>1, <1>2, <1>4, <1>5
<1>7. Len(l) = Len(r)
  BY <1>1, <1>2, <1>4
<1>8. l = r
  BY <1>1, <1>2, <1>4, <1>6, <1>7, SeqEqual
<1> QED BY <1>8 DEF l, r

----------------------------------------------------------------------------
(* Prefixes.                                                                *)

LEMMA PrefixSelf ==
  ASSUME NEW S, NEW s \in Seq(S)
  PROVE  IsPrefix(s, s)
BY DEF IsPrefix

LEMMA PrefixTrans ==
  ASSUME NEW S, NEW s \in Seq(S), NEW t \in Seq(S), NEW u \in Seq(S),
         IsPrefix(s, t), IsPrefix(t, u)
  PROVE  IsPrefix(s, u)
<1>1. Len(s) \in Nat /\ Len(t) \in Nat /\ Len(u) \in Nat /\ Len(s) <= Len(t) /\ Len(t) <= Len(u)
  BY DEF IsPrefix
<1>2. \A i \in 1..Len(s) : s[i] = t[i]
  <2>1. SubSeq(s, 1, Len(s)) = SubSeq(t, 1, Len(s))
    BY DEF IsPrefix
  <2>2. \A i \in 1..Len(s) : SubSeq(s, 1, Len(s))[i] = s[i] /\ SubSeq(t, 1, Len(s))[i] = t[i]
    BY <1>1
  <2> QED BY <2>1, <2>2
<1>3. \A i \in 1..Len(t) : t[i] = u[i]
  <2>1. SubSeq(t, 1, Len(t)) = SubSeq(u, 1, Len(t))
    BY DEF IsPrefix
  <2>2. \A i \in 1..Len(t) : SubSeq(t, 1, Len(t))[i] = t[i] /\ SubSeq(u, 1, Len(t))[i] = u[i]
    BY <1>1
  <2> QED BY <2>1, <2>2
<1>4. \A i \in 1..Len(s) : s[i] = u[i]
  BY <1>1, <1>2, <1>3
<1>5. SubSeq(s, 1, Len(s)) = SubSeq(u, 1, Len(s))
  BY <1>1, <1>4
<1> QED BY <1>1, <1>5 DEF IsPrefix

LEMMA PrefixOfAppend ==
  ASSUME NEW S, NEW s \in Seq(S), NEW e \in S
  PROVE  IsPrefix(s, Append(s, e)) /\ Append(s, e) \in Seq(S)
<1>1. Len(Append(s, e)) = Len(s) + 1 /\ Append(s, e) \in Seq(S) /\ \A i \in 1..Len(s) : Append(s, e)[i] = s[i]
  OBVIOUS
<1> QED BY <1>1 DEF IsPrefix

----------------------------------------------------------------------------
(* The parts of the decoder.                                                *)

Messages == Seq(Seq(Units))

\* Nothing that was delivered or counted is taken back.
Grows(w, v) == w.failures <= v.failures /\ IsPrefix(w.messages, v.messages)

LEMMA GrowsSelf == ASSUME NEW w \in Wires PROVE Grows(w, w)
BY PrefixSelf DEF Grows, Wires

LEMMA GrowsTrans ==
  ASSUME NEW w \in Wires, NEW v \in Wires, NEW u \in Wires, Grows(w, v), Grows(v, u)
  PROVE  Grows(w, u)
<1>1. /\ w.messages \in Messages /\ v.messages \in Messages /\ u.messages \in Messages
      /\ w.failures \in Nat /\ v.failures \in Nat /\ u.failures \in Nat
  BY DEF Wires, Messages
<1>2. IsPrefix(w.messages, u.messages)
  BY <1>1, PrefixTrans DEF Messages, Grows
<1> QED BY <1>1, <1>2 DEF Grows

LEMMA Chopped ==
  ASSUME NEW w \in Wires, NEW n \in 0..Len(w.pending)
  PROVE  /\ Chop(w, n) \in Wires /\ Chop(w, n).pending = SubSeq(w.pending, n + 1, Len(w.pending))
         /\ Chop(w, n).mode = w.mode /\ Chop(w, n).messages = w.messages
         /\ Chop(w, n).failures = w.failures /\ Chop(w, n).fragmented = w.fragmented
         /\ Len(Chop(w, n).pending) = Len(w.pending) - n
<1>1. w.pending \in Seq(Units) /\ Len(w.pending) \in Nat
  BY DEF Wires
<1>2. /\ SubSeq(w.pending, n + 1, Len(w.pending)) \in Seq(Units)
      /\ Len(SubSeq(w.pending, n + 1, Len(w.pending))) = Len(w.pending) - n
  BY <1>1
<1> QED BY <1>2 DEF Chop, Wires

LEMMA Delivered ==
  ASSUME NEW w \in Wires, NEW m \in Seq(Units)
  PROVE  /\ Deliver(w, m) \in Wires /\ Grows(w, Deliver(w, m))
         /\ Deliver(w, m).mode = w.mode /\ Deliver(w, m).pending = w.pending
         /\ Deliver(w, m).failures = w.failures /\ Deliver(w, m).fragmented = w.fragmented
         /\ Deliver(w, m).messages = Append(w.messages, m)
<1>1. w.messages \in Seq(Seq(Units)) /\ w.failures \in Nat
  BY DEF Wires
<1>2. IsPrefix(w.messages, Append(w.messages, m)) /\ Append(w.messages, m) \in Seq(Seq(Units))
  BY <1>1, PrefixOfAppend
<1>3. /\ Deliver(w, m) \in Wires
      /\ Deliver(w, m).mode = w.mode /\ Deliver(w, m).pending = w.pending
      /\ Deliver(w, m).failures = w.failures /\ Deliver(w, m).fragmented = w.fragmented
      /\ Deliver(w, m).messages = Append(w.messages, m)
  BY <1>2 DEF Deliver, Wires
<1> QED BY <1>1, <1>2, <1>3 DEF Grows

LEMMA Failing ==
  ASSUME NEW w \in Wires
  PROVE  /\ Failed(w) \in Wires /\ Grows(w, Failed(w)) /\ Failed(w).mode = w.mode
         /\ Failed(w).pending = w.pending /\ Failed(w).failures = w.failures + 1
         /\ Failed(w).messages = w.messages
<1>1. w.messages \in Seq(Seq(Units)) /\ w.failures \in Nat
  BY DEF Wires
<1>2. /\ Failed(w) \in Wires /\ Failed(w).mode = w.mode
      /\ Failed(w).pending = w.pending /\ Failed(w).failures = w.failures + 1
      /\ Failed(w).messages = w.messages
  <2>1. w.failures + 1 \in Nat
    BY <1>1
  <2>2. Failed(w) = [w EXCEPT !.failures = w.failures + 1]
    BY DEF Failed
  <2> HIDE DEF Failed
  <2>3. Failed(w) \in Wires
    BY <2>1, <2>2 DEF Wires
  <2> QED BY <2>2, <2>3 DEF Wires
<1> QED BY <1>1, <1>2, PrefixSelf DEF Grows

LEMMA Clearing ==
  ASSUME NEW w \in Wires
  PROVE  /\ Cleared(w) \in Wires /\ Grows(w, Cleared(w)) /\ Cleared(w).mode = w.mode
         /\ Cleared(w).pending = <<>> /\ Cleared(w).failures = w.failures + 1
         /\ Cleared(w).messages = w.messages
<1> DEFINE v == [w EXCEPT !.pending = <<>>]
<1>1. v \in Wires /\ v.mode = w.mode /\ v.pending = <<>> /\ v.failures = w.failures /\ v.messages = w.messages
  <2>1. <<>> \in Seq(Units)
    OBVIOUS
  <2> DEFINE e == <<>>
  <2>2. e \in Seq(Units)
    BY <2>1
  <2> HIDE DEF e
  <2>3. [w EXCEPT !.pending = e] \in Wires
    BY <2>2 DEF Wires
  <2>4. LET u == [w EXCEPT !.pending = e]
        IN  u.mode = w.mode /\ u.pending = e /\ u.failures = w.failures /\ u.messages = w.messages
    BY DEF Wires
  <2> QED BY <2>3, <2>4 DEF e
<1>2. Cleared(w) = Failed(v)
  BY DEF Cleared
<1> HIDE DEF v
<1>3. /\ Failed(v) \in Wires /\ Grows(v, Failed(v)) /\ Failed(v).mode = v.mode
      /\ Failed(v).pending = v.pending /\ Failed(v).failures = v.failures + 1
      /\ Failed(v).messages = v.messages
  BY <1>1, Failing
<1> QED BY <1>1, <1>2, <1>3 DEF Grows

LEMMA Unfragmented ==
  ASSUME NEW w \in Wires, NEW F \in SUBSET Seq(Units)
  PROVE  LET v == [w EXCEPT !.fragmented = F]
         IN  /\ v \in Wires /\ Grows(w, v) /\ v.mode = w.mode /\ v.pending = w.pending
             /\ v.failures = w.failures /\ v.messages = w.messages /\ v.fragmented = F
<1> DEFINE v == [w EXCEPT !.fragmented = F]
<1>1. /\ v \in Wires /\ v.mode = w.mode /\ v.pending = w.pending
      /\ v.failures = w.failures /\ v.messages = w.messages /\ v.fragmented = F
  BY DEF Wires
<1> HIDE DEF v
<1>2. Grows(w, v)
  BY <1>1, GrowsSelf DEF Grows
<1> QED BY <1>1, <1>2 DEF v

LEMMA Accepting ==
  ASSUME NEW w \in Wires, NEW kind, NEW payload \in Seq(Units)
  PROVE  LET v == Accept(w, kind, payload)
         IN  v \in Wires /\ Grows(w, v) /\ v.mode = w.mode /\ v.pending = w.pending
<1> DEFINE v == Accept(w, kind, payload)
           none == [w EXCEPT !.fragmented = {}]
           joined == (CHOOSE f \in w.fragmented : TRUE) \o payload
<1>1. none \in Wires /\ Grows(w, none) /\ none.mode = w.mode /\ none.pending = w.pending
  BY Unfragmented
<1>2. CASE kind = "text"
  <2>1. v = Deliver(w, payload)
    BY <1>2 DEF Accept
  <2> HIDE DEF v
  <2> QED BY <2>1, Delivered DEF v
<1>3. CASE kind = "start"
  <2> DEFINE F == {payload}
  <2>1. v = [w EXCEPT !.fragmented = F]
    BY <1>3 DEF Accept
  <2>2. F \in SUBSET Seq(Units)
    OBVIOUS
  <2> HIDE DEF v, F
  <2> DEFINE u == [w EXCEPT !.fragmented = F]
  <2>3. u \in Wires /\ Grows(w, u) /\ u.mode = w.mode /\ u.pending = w.pending
    BY <2>2, Unfragmented
  <2> HIDE DEF u
  <2> QED BY <2>1, <2>3 DEF v, u
<1>4. CASE kind \in {"more", "last"} /\ w.fragmented = {}
  <2>1. v = Failed(w)
    BY <1>4 DEF Accept
  <2> HIDE DEF v
  <2> QED BY <2>1, Failing DEF v
<1>5. CASE kind \in {"more", "last"} /\ w.fragmented # {}
  <2>1. joined \in Seq(Units)
    <3>1. w.fragmented \subseteq Seq(Units)
      BY DEF Wires
    <3>2. (CHOOSE f \in w.fragmented : TRUE) \in Seq(Units)
      BY <1>5, <3>1
    <3> QED BY <3>2
  <2>2. v = IF Len(joined) > MaxWire THEN Failed(none)
            ELSE IF kind = "last" THEN Deliver(none, joined)
            ELSE [w EXCEPT !.fragmented = {joined}]
    BY <1>5 DEF Accept
  <2> HIDE DEF joined, v, none
  <2>3. CASE Len(joined) > MaxWire
    <3>1. v = Failed(none)
      BY <2>2, <2>3
    <3>2. Failed(none) \in Wires /\ Grows(none, Failed(none)) /\ Failed(none).mode = none.mode
          /\ Failed(none).pending = none.pending
      BY <1>1, Failing
    <3> QED BY <1>1, <3>1, <3>2, GrowsTrans DEF v
  <2>4. CASE ~(Len(joined) > MaxWire) /\ kind = "last"
    <3>1. v = Deliver(none, joined)
      BY <2>2, <2>4
    <3>2. /\ Deliver(none, joined) \in Wires /\ Grows(none, Deliver(none, joined))
          /\ Deliver(none, joined).mode = none.mode /\ Deliver(none, joined).pending = none.pending
      BY <1>1, <2>1, Delivered
    <3> QED BY <1>1, <3>1, <3>2, GrowsTrans DEF v
  <2>5. CASE ~(Len(joined) > MaxWire) /\ kind # "last"
    <3> DEFINE F == {joined}
    <3>1. v = [w EXCEPT !.fragmented = F]
      BY <2>2, <2>5
    <3>2. F \in SUBSET Seq(Units)
      BY <2>1
    <3> HIDE DEF F
    <3> DEFINE u == [w EXCEPT !.fragmented = F]
    <3>3. u \in Wires /\ Grows(w, u) /\ u.mode = w.mode /\ u.pending = w.pending
      BY <3>2, Unfragmented
    <3> HIDE DEF u
    <3> QED BY <3>1, <3>3 DEF v, u
  <2> QED BY <2>3, <2>4, <2>5
<1>6. CASE kind = "control"
  <2>1. v = w
    BY <1>6 DEF Accept
  <2> QED BY <2>1, GrowsSelf
<1>7. CASE kind \notin {"text", "start", "more", "last", "control"}
  <2>1. v = Failed(w)
    BY <1>7 DEF Accept
  <2> HIDE DEF v
  <2> QED BY <2>1, Failing DEF v
<1> HIDE DEF v
<1> QED BY <1>2, <1>3, <1>4, <1>5, <1>6, <1>7 DEF v

----------------------------------------------------------------------------
(* Bytes that arrive later.                                                 *)

Push(w, b) == [w EXCEPT !.pending = @ \o b]

LEMMA Pushed ==
  ASSUME NEW w \in Wires, NEW b \in Seq(Units)
  PROVE  /\ Push(w, b) \in Wires /\ Push(w, b).pending = w.pending \o b
         /\ Push(w, b).mode = w.mode /\ Push(w, b).messages = w.messages
         /\ Push(w, b).failures = w.failures /\ Push(w, b).fragmented = w.fragmented
<1> DEFINE p == w.pending \o b
<1>1. p \in Seq(Units)
  BY DEF Wires
<1>2. Push(w, b) = [w EXCEPT !.pending = p]
  BY DEF Push
<1> HIDE DEF p
<1>3. [w EXCEPT !.pending = p] \in Wires
  BY <1>1 DEF Wires
<1>4. LET u == [w EXCEPT !.pending = p]
      IN  /\ u.mode = w.mode /\ u.pending = p /\ u.failures = w.failures
          /\ u.messages = w.messages /\ u.fragmented = w.fragmented
  BY DEF Wires
<1> QED BY <1>2, <1>3, <1>4 DEF p

\* Wires are the same if their fields are.
LEMMA SameWire ==
  ASSUME NEW w \in Wires, NEW v \in Wires, w.mode = v.mode, w.pending = v.pending,
         w.fragmented = v.fragmented, w.messages = v.messages, w.failures = v.failures
  PROVE  w = v
BY DEF Wires

LEMMA PushedTwice ==
  ASSUME NEW w \in Wires, NEW a \in Seq(Units), NEW b \in Seq(Units)
  PROVE  Push(Push(w, a), b) = Push(w, a \o b)
<1>1. w.pending \in Seq(Units) /\ a \o b \in Seq(Units)
  BY DEF Wires
<1>2. (w.pending \o a) \o b = w.pending \o (a \o b)
  <2> DEFINE p == w.pending
  <2>1. p \in Seq(Units)
    BY <1>1
  <2> HIDE DEF p
  <2>2. (p \o a) \o b = p \o (a \o b)
    BY <2>1, ConcatAssociative
  <2> QED BY <2>2 DEF p
<1>3. /\ Push(w, a) \in Wires /\ Push(w, a).pending = w.pending \o a
      /\ Push(w, a).mode = w.mode /\ Push(w, a).messages = w.messages
      /\ Push(w, a).failures = w.failures /\ Push(w, a).fragmented = w.fragmented
  BY Pushed
<1> DEFINE v == Push(w, a)
<1> HIDE DEF v
<1>4. /\ Push(v, b) \in Wires /\ Push(v, b).pending = v.pending \o b
      /\ Push(v, b).mode = v.mode /\ Push(v, b).messages = v.messages
      /\ Push(v, b).failures = v.failures /\ Push(v, b).fragmented = v.fragmented
  BY <1>3, Pushed DEF v
<1>5. /\ Push(w, a \o b) \in Wires /\ Push(w, a \o b).pending = w.pending \o (a \o b)
      /\ Push(w, a \o b).mode = w.mode /\ Push(w, a \o b).messages = w.messages
      /\ Push(w, a \o b).failures = w.failures /\ Push(w, a \o b).fragmented = w.fragmented
  BY <1>1, Pushed
<1>6. v.pending = w.pending \o a /\ v.mode = w.mode /\ v.messages = w.messages
      /\ v.failures = w.failures /\ v.fragmented = w.fragmented
  BY <1>3 DEF v
<1> DEFINE l == Push(v, b)
           r == Push(w, a \o b)
<1>7. l \in Wires /\ r \in Wires
  BY <1>4, <1>5
<1>8. l.pending = r.pending
  BY <1>2, <1>4, <1>5, <1>6
<1>9. l.mode = r.mode /\ l.messages = r.messages /\ l.failures = r.failures /\ l.fragmented = r.fragmented
  BY <1>4, <1>5, <1>6
<1> HIDE DEF l, r
<1>10. l = r
  BY <1>7, <1>8, <1>9, SameWire
<1> QED BY <1>10 DEF l, r, v

LEMMA ChopStays ==
  ASSUME NEW w \in Wires, NEW b \in Seq(Units), NEW n \in 0..Len(w.pending)
  PROVE  Chop(Push(w, b), n) = Push(Chop(w, n), b)
<1> DEFINE u == Push(w, b)
           c == Chop(w, n)
<1>1. w.pending \in Seq(Units) /\ Len(w.pending) \in Nat
  BY DEF Wires
<1>2. /\ u \in Wires /\ u.pending = w.pending \o b /\ u.mode = w.mode /\ u.messages = w.messages
      /\ u.failures = w.failures /\ u.fragmented = w.fragmented
  BY Pushed
<1>3. n \in 0..Len(u.pending)
  <2>1. Len(w.pending \o b) = Len(w.pending) + Len(b) /\ Len(b) \in Nat
    BY <1>1
  <2> QED BY <1>1, <1>2, <2>1
<1>4. /\ c \in Wires /\ c.pending = SubSeq(w.pending, n + 1, Len(w.pending))
      /\ c.mode = w.mode /\ c.messages = w.messages /\ c.failures = w.failures /\ c.fragmented = w.fragmented
  BY Chopped
<1> HIDE DEF u, c
<1>5. /\ Push(c, b) \in Wires /\ Push(c, b).pending = c.pending \o b
      /\ Push(c, b).mode = c.mode /\ Push(c, b).messages = c.messages
      /\ Push(c, b).failures = c.failures /\ Push(c, b).fragmented = c.fragmented
  BY <1>4, Pushed
<1>6. /\ Chop(u, n) \in Wires /\ Chop(u, n).pending = SubSeq(u.pending, n + 1, Len(u.pending))
      /\ Chop(u, n).mode = u.mode /\ Chop(u, n).messages = u.messages
      /\ Chop(u, n).failures = u.failures /\ Chop(u, n).fragmented = u.fragmented
  BY <1>2, <1>3, Chopped
<1>7. SubSeq(u.pending, n + 1, Len(u.pending)) = c.pending \o b
  BY <1>1, <1>2, <1>4, RestMoves
<1>8. Chop(u, n) = Push(c, b)
  <2> DEFINE l == Chop(u, n)
             r == Push(c, b)
  <2>1. /\ l \in Wires /\ r \in Wires /\ l.mode = r.mode /\ l.pending = r.pending
        /\ l.fragmented = r.fragmented /\ l.messages = r.messages /\ l.failures = r.failures
    BY <1>2, <1>4, <1>5, <1>6, <1>7
  <2> HIDE DEF l, r
  <2>2. l = r
    BY <2>1, SameWire
  <2> QED BY <2>2 DEF l, r
<1> QED BY <1>8 DEF u, c

LEMMA DeliverStays ==
  ASSUME NEW w \in Wires, NEW b \in Seq(Units), NEW m \in Seq(Units)
  PROVE  Deliver(Push(w, b), m) = Push(Deliver(w, m), b)
<1> DEFINE u == Push(w, b)
           d == Deliver(w, m)
<1>1. /\ u \in Wires /\ u.pending = w.pending \o b /\ u.mode = w.mode /\ u.messages = w.messages
      /\ u.failures = w.failures /\ u.fragmented = w.fragmented
  BY Pushed
<1>2. /\ d \in Wires /\ d.mode = w.mode /\ d.pending = w.pending /\ d.failures = w.failures
      /\ d.fragmented = w.fragmented /\ d.messages = Append(w.messages, m)
  BY Delivered
<1> HIDE DEF u, d
<1>3. /\ Push(d, b) \in Wires /\ Push(d, b).pending = d.pending \o b
      /\ Push(d, b).mode = d.mode /\ Push(d, b).messages = d.messages
      /\ Push(d, b).failures = d.failures /\ Push(d, b).fragmented = d.fragmented
  BY <1>2, Pushed
<1>4. /\ Deliver(u, m) \in Wires /\ Deliver(u, m).mode = u.mode /\ Deliver(u, m).pending = u.pending
      /\ Deliver(u, m).failures = u.failures /\ Deliver(u, m).fragmented = u.fragmented
      /\ Deliver(u, m).messages = Append(u.messages, m)
  BY <1>1, Delivered
<1>5. Deliver(u, m) = Push(d, b)
  <2> DEFINE l == Deliver(u, m)
             r == Push(d, b)
  <2>1. /\ l \in Wires /\ r \in Wires /\ l.mode = r.mode /\ l.pending = r.pending
        /\ l.fragmented = r.fragmented /\ l.messages = r.messages /\ l.failures = r.failures
    BY <1>1, <1>2, <1>3, <1>4
  <2> HIDE DEF l, r
  <2>2. l = r
    BY <2>1, SameWire
  <2> QED BY <2>2 DEF l, r
<1> QED BY <1>5 DEF u, d

LEMMA FailedStays ==
  ASSUME NEW w \in Wires, NEW b \in Seq(Units)
  PROVE  Failed(Push(w, b)) = Push(Failed(w), b)
<1> DEFINE u == Push(w, b)
           d == Failed(w)
<1>1. /\ u \in Wires /\ u.pending = w.pending \o b /\ u.mode = w.mode /\ u.messages = w.messages
      /\ u.failures = w.failures /\ u.fragmented = w.fragmented
  BY Pushed
<1>2. /\ d \in Wires /\ d.mode = w.mode /\ d.pending = w.pending /\ d.failures = w.failures + 1
      /\ d.messages = w.messages
  BY Failing
<1>3. d.fragmented = w.fragmented
  BY DEF Failed, Wires
<1> HIDE DEF u, d
<1>4. /\ Push(d, b) \in Wires /\ Push(d, b).pending = d.pending \o b
      /\ Push(d, b).mode = d.mode /\ Push(d, b).messages = d.messages
      /\ Push(d, b).failures = d.failures /\ Push(d, b).fragmented = d.fragmented
  BY <1>2, Pushed
<1>5. /\ Failed(u) \in Wires /\ Failed(u).mode = u.mode /\ Failed(u).pending = u.pending
      /\ Failed(u).failures = u.failures + 1 /\ Failed(u).messages = u.messages
  BY <1>1, Failing
<1>6. Failed(u).fragmented = u.fragmented
  BY <1>1 DEF Failed, Wires
<1>7. Failed(u) = Push(d, b)
  <2> DEFINE l == Failed(u)
             r == Push(d, b)
  <2>1. /\ l \in Wires /\ r \in Wires /\ l.mode = r.mode /\ l.pending = r.pending
        /\ l.fragmented = r.fragmented /\ l.messages = r.messages /\ l.failures = r.failures
    BY <1>1, <1>2, <1>3, <1>4, <1>5, <1>6
  <2> HIDE DEF l, r
  <2>2. l = r
    BY <2>1, SameWire
  <2> QED BY <2>2 DEF l, r
<1> QED BY <1>7 DEF u, d

LEMMA FragmentsStay ==
  ASSUME NEW w \in Wires, NEW b \in Seq(Units), NEW F \in SUBSET Seq(Units)
  PROVE  [Push(w, b) EXCEPT !.fragmented = F] = Push([w EXCEPT !.fragmented = F], b)
<1> DEFINE u == Push(w, b)
           d == [w EXCEPT !.fragmented = F]
           e == [u EXCEPT !.fragmented = F]
<1>1. /\ u \in Wires /\ u.pending = w.pending \o b /\ u.mode = w.mode /\ u.messages = w.messages
      /\ u.failures = w.failures /\ u.fragmented = w.fragmented
  BY Pushed
<1> HIDE DEF u
<1>2. /\ d \in Wires /\ d.mode = w.mode /\ d.pending = w.pending
      /\ d.failures = w.failures /\ d.messages = w.messages /\ d.fragmented = F
  BY Unfragmented
<1>3. /\ e \in Wires /\ e.mode = u.mode /\ e.pending = u.pending
      /\ e.failures = u.failures /\ e.messages = u.messages /\ e.fragmented = F
  BY <1>1, Unfragmented
<1> HIDE DEF d, e
<1>4. /\ Push(d, b) \in Wires /\ Push(d, b).pending = d.pending \o b
      /\ Push(d, b).mode = d.mode /\ Push(d, b).messages = d.messages
      /\ Push(d, b).failures = d.failures /\ Push(d, b).fragmented = d.fragmented
  BY <1>2, Pushed
<1> DEFINE r == Push(d, b)
<1>5. e.pending = r.pending
  BY <1>1, <1>2, <1>3, <1>4
<1>6. e.mode = r.mode /\ e.messages = r.messages /\ e.failures = r.failures /\ e.fragmented = r.fragmented
  BY <1>1, <1>2, <1>3, <1>4
<1>7. e \in Wires /\ r \in Wires
  BY <1>3, <1>4
<1> HIDE DEF r
<1>8. e = r
  BY <1>5, <1>6, <1>7, SameWire
<1> QED BY <1>8 DEF u, d, e, r

LEMMA AcceptStays ==
  ASSUME NEW w \in Wires, NEW b \in Seq(Units), NEW kind, NEW payload \in Seq(Units)
  PROVE  Accept(Push(w, b), kind, payload) = Push(Accept(w, kind, payload), b)
<1> DEFINE u == Push(w, b)
           joined == (CHOOSE f \in w.fragmented : TRUE) \o payload
           none == [w EXCEPT !.fragmented = {}]
           bare == [u EXCEPT !.fragmented = {}]
<1>1. u \in Wires /\ u.fragmented = w.fragmented
  BY Pushed
<1>2. none \in Wires
  BY Unfragmented
<1>3. bare = Push(none, b)
  BY FragmentsStay
<1> HIDE DEF u
<1>4. CASE kind = "text"
  <2>1. Accept(w, kind, payload) = Deliver(w, payload) /\ Accept(u, kind, payload) = Deliver(u, payload)
    BY <1>4 DEF Accept
  <2> QED BY <2>1, DeliverStays DEF u
<1>5. CASE kind = "start"
  <2> DEFINE F == {payload}
  <2>1. /\ Accept(w, kind, payload) = [w EXCEPT !.fragmented = F]
        /\ Accept(u, kind, payload) = [u EXCEPT !.fragmented = F]
    BY <1>5 DEF Accept
  <2>2. F \in SUBSET Seq(Units)
    OBVIOUS
  <2> HIDE DEF F
  <2>3. [u EXCEPT !.fragmented = F] = Push([w EXCEPT !.fragmented = F], b)
    BY <2>2, FragmentsStay DEF u
  <2> QED BY <2>1, <2>3 DEF u
<1>6. CASE kind \in {"more", "last"} /\ w.fragmented = {}
  <2>1. Accept(w, kind, payload) = Failed(w) /\ Accept(u, kind, payload) = Failed(u)
    BY <1>1, <1>6 DEF Accept
  <2> QED BY <2>1, FailedStays DEF u
<1>7. CASE kind \in {"more", "last"} /\ w.fragmented # {}
  <2>1. joined \in Seq(Units)
    <3>1. w.fragmented \subseteq Seq(Units)
      BY DEF Wires
    <3>2. (CHOOSE f \in w.fragmented : TRUE) \in Seq(Units)
      BY <1>7, <3>1
    <3> QED BY <3>2
  <2> DEFINE F == {joined}
  <2>2. F \in SUBSET Seq(Units)
    BY <2>1
  <2>3. Accept(w, kind, payload) = IF Len(joined) > MaxWire THEN Failed(none)
            ELSE IF kind = "last" THEN Deliver(none, joined)
            ELSE [w EXCEPT !.fragmented = F]
    BY <1>7 DEF Accept
  <2>4. Accept(u, kind, payload) = IF Len(joined) > MaxWire THEN Failed(bare)
            ELSE IF kind = "last" THEN Deliver(bare, joined)
            ELSE [u EXCEPT !.fragmented = F]
    BY <1>1, <1>7 DEF Accept
  <2> HIDE DEF F, joined, bare, none
  <2>5. Failed(bare) = Push(Failed(none), b)
    BY <1>2, <1>3, FailedStays
  <2>6. Deliver(bare, joined) = Push(Deliver(none, joined), b)
    BY <1>2, <1>3, <2>1, DeliverStays
  <2>7. [u EXCEPT !.fragmented = F] = Push([w EXCEPT !.fragmented = F], b)
    BY <2>2, FragmentsStay DEF u
  <2>8. Accept(u, kind, payload) = Push(Accept(w, kind, payload), b)
    BY <2>3, <2>4, <2>5, <2>6, <2>7
  <2> QED BY <2>8 DEF u
<1>8. CASE kind = "control"
  <2>1. Accept(w, kind, payload) = w /\ Accept(u, kind, payload) = u
    BY <1>8 DEF Accept
  <2> QED BY <2>1 DEF u
<1>9. CASE kind \notin {"text", "start", "more", "last", "control"}
  <2>1. Accept(w, kind, payload) = Failed(w) /\ Accept(u, kind, payload) = Failed(u)
    BY <1>9 DEF Accept
  <2> QED BY <2>1, FailedStays DEF u
<1> QED BY <1>4, <1>5, <1>6, <1>7, <1>8, <1>9

----------------------------------------------------------------------------
(* The decoder's loops.                                                     *)

Malformed(p) == KindOf(p[1]) = "reserved" \/ LengthOf(p[2]) > MaxWire

Size(p) == 2 + LengthOf(p[2])

TakeLine(w) ==
    Deliver(Chop(w, Find(w.pending, Newline)), SubSeq(w.pending, 1, Find(w.pending, Newline) - 1))

TakeFrame(w) ==
    Accept(Chop(w, Size(w.pending)), KindOf(w.pending[1]), SubSeq(w.pending, 3, Size(w.pending)))

LEMMA LengthIsNumber == ASSUME NEW u \in Units PROVE LengthOf(u) \in Nat
<1>1. CASE u \in {Length(n) : n \in 0..MaxWire + 1}
  <2>1. PICK n \in 0..MaxWire + 1 : u = Length(n)
    BY <1>1
  <2>2. u[2] = n /\ n \in Nat
    BY <2>1, WireAssumption DEF Length
  <2> QED BY <2>2 DEF LengthOf
<1>2. CASE u \notin {Length(n) : n \in 0..MaxWire + 1}
  <2>1. u[1] # "length"
    BY <1>2 DEF Units, First, Letter, Get, Blank, Newline
  <2> QED BY <2>1 DEF LengthOf
<1> QED BY <1>1, <1>2

LEMMA LineTaken ==
  ASSUME NEW w \in Wires, Find(w.pending, Newline) # 0
  PROVE  /\ TakeLine(w) \in Wires /\ Grows(w, TakeLine(w)) /\ TakeLine(w).mode = w.mode
         /\ Len(TakeLine(w).pending) < Len(w.pending)
         /\ TakeLine(w).failures = w.failures
         /\ \A b \in Seq(Units) : TakeLine(Push(w, b)) = Push(TakeLine(w), b)
<1> DEFINE k == Find(w.pending, Newline)
           c == Chop(w, k)
           m == SubSeq(w.pending, 1, k - 1)
<1>1. w.pending \in Seq(Units) /\ Len(w.pending) \in Nat
  BY DEF Wires
<1>2. k \in 1..Len(w.pending)
  BY <1>1, Found
<1>3. TakeLine(w) = Deliver(c, m)
  BY DEF TakeLine
<1>4. m \in Seq(Units)
  <2>1. k - 1 \in 0..Len(w.pending)
    BY <1>1, <1>2
  <2> QED BY <1>1, <2>1, Cut
<1> HIDE DEF k
<1>5. /\ c \in Wires /\ c.mode = w.mode /\ c.messages = w.messages /\ c.failures = w.failures
      /\ Len(c.pending) = Len(w.pending) - k
  BY <1>1, <1>2, Chopped
<1> HIDE DEF c, m
<1>6. Grows(w, c)
  BY <1>5, GrowsSelf DEF Grows
<1>7. /\ Deliver(c, m) \in Wires /\ Grows(c, Deliver(c, m)) /\ Deliver(c, m).mode = c.mode
      /\ Deliver(c, m).pending = c.pending /\ Deliver(c, m).failures = c.failures
  BY <1>4, <1>5, Delivered
<1>8. Grows(w, Deliver(c, m))
  BY <1>5, <1>6, <1>7, GrowsTrans
<1>9. ASSUME NEW b \in Seq(Units) PROVE TakeLine(Push(w, b)) = Push(TakeLine(w), b)
  <2>1. Push(w, b).pending = w.pending \o b
    BY Pushed
  <2>2. Find(Push(w, b).pending, Newline) = k
    BY <1>1, <2>1, FoundStays DEF k
  <2>3. SubSeq(w.pending \o b, 1, k - 1) = m
    <3>1. k - 1 \in 0..Len(w.pending) /\ 0 + 1 = 1
      BY <1>1, <1>2
    <3> QED BY <1>1, <3>1, CutStays DEF m
  <2>4. TakeLine(Push(w, b)) = Deliver(Chop(Push(w, b), k), m)
    BY <2>1, <2>2, <2>3 DEF TakeLine
  <2>5. Chop(Push(w, b), k) = Push(c, b)
    <3>1. k \in 0..Len(w.pending)
      BY <1>1, <1>2
    <3> QED BY <3>1, ChopStays DEF c
  <2>6. Deliver(Push(c, b), m) = Push(Deliver(c, m), b)
    BY <1>4, <1>5, DeliverStays
  <2> QED BY <1>3, <2>4, <2>5, <2>6
<1> QED BY <1>1, <1>2, <1>3, <1>5, <1>7, <1>8, <1>9

LEMMA FrameTaken ==
  ASSUME NEW w \in Wires, Len(w.pending) >= 2, Len(w.pending) >= Size(w.pending)
  PROVE  /\ TakeFrame(w) \in Wires /\ Grows(w, TakeFrame(w)) /\ TakeFrame(w).mode = w.mode
         /\ Len(TakeFrame(w).pending) < Len(w.pending)
         /\ TakeFrame(w).pending = SubSeq(w.pending, Size(w.pending) + 1, Len(w.pending))
         /\ \A b \in Seq(Units) : TakeFrame(Push(w, b)) = Push(TakeFrame(w), b)
<1> DEFINE k == Size(w.pending)
           kind == KindOf(w.pending[1])
           c == Chop(w, k)
           m == SubSeq(w.pending, 3, k)
<1>1. w.pending \in Seq(Units) /\ Len(w.pending) \in Nat
  BY DEF Wires
<1>2. k \in 2..Len(w.pending)
  <2>1. w.pending[2] \in Units
    BY <1>1
  <2>2. LengthOf(w.pending[2]) \in Nat
    BY <2>1, LengthIsNumber
  <2> QED BY <1>1, <2>2 DEF Size
<1>3. TakeFrame(w) = Accept(c, kind, m)
  BY DEF TakeFrame
<1>4. m \in Seq(Units)
  <2>1. k \in 0..Len(w.pending) /\ 2 \in Nat /\ 2 + 1 = 3
    BY <1>1, <1>2
  <2> QED BY <1>1, <2>1, Cut
<1> HIDE DEF k
<1>5. /\ c \in Wires /\ c.mode = w.mode /\ c.messages = w.messages /\ c.failures = w.failures
      /\ Len(c.pending) = Len(w.pending) - k
      /\ c.pending = SubSeq(w.pending, k + 1, Len(w.pending))
  BY <1>1, <1>2, Chopped
<1> HIDE DEF c, m, kind
<1>6. Grows(w, c)
  BY <1>5, GrowsSelf DEF Grows
<1>7. /\ Accept(c, kind, m) \in Wires /\ Grows(c, Accept(c, kind, m)) /\ Accept(c, kind, m).mode = c.mode
      /\ Accept(c, kind, m).pending = c.pending
  BY <1>4, <1>5, Accepting
<1>8. Grows(w, Accept(c, kind, m))
  BY <1>5, <1>6, <1>7, GrowsTrans
<1>9. ASSUME NEW b \in Seq(Units) PROVE TakeFrame(Push(w, b)) = Push(TakeFrame(w), b)
  <2>1. Push(w, b).pending = w.pending \o b
    BY Pushed
  <2>2. (w.pending \o b)[1] = w.pending[1] /\ (w.pending \o b)[2] = w.pending[2]
    BY <1>1
  <2>3. Size(Push(w, b).pending) = k /\ KindOf(Push(w, b).pending[1]) = kind
    BY <2>1, <2>2 DEF Size, k, kind
  <2>4. SubSeq(w.pending \o b, 3, k) = m
    <3>1. k \in 0..Len(w.pending) /\ 2 \in Nat /\ 2 + 1 = 3
      BY <1>1, <1>2
    <3> QED BY <1>1, <3>1, CutStays DEF m
  <2>5. TakeFrame(Push(w, b)) = Accept(Chop(Push(w, b), k), kind, m)
    BY <2>1, <2>3, <2>4 DEF TakeFrame
  <2>6. Chop(Push(w, b), k) = Push(c, b)
    <3>1. k \in 0..Len(w.pending)
      BY <1>1, <1>2
    <3> QED BY <3>1, ChopStays DEF c
  <2>7. Accept(Push(c, b), kind, m) = Push(Accept(c, kind, m), b)
    BY <1>4, <1>5, AcceptStays
  <2> QED BY <1>3, <2>5, <2>6, <2>7
<1> QED BY <1>1, <1>2, <1>3, <1>5, <1>7, <1>8, <1>9 DEF k

LEMMA LinesLoop ==
  \A w \in Wires : DrainLines[w] = IF Find(w.pending, Newline) = 0 THEN w ELSE DrainLines[TakeLine(w)]
<1> DEFINE stop == {w \in Wires : Find(w.pending, Newline) = 0}
           next == [w \in Wires |-> TakeLine(w)]
           out == [w \in Wires |-> w]
<1>1. \A w \in Wires \ stop : next[w] \in Wires
  BY LineTaken
<1>2. \E f : Loops(f, Wires, stop, next, out)
  <2> HIDE DEF stop, next, out
  <2> QED BY <1>1, LoopExists
<1>3. PICK f : Loops(f, Wires, stop, next, out)
  BY <1>2
<1>4. f = [w \in Wires |-> IF Find(w.pending, Newline) = 0 THEN w ELSE f[TakeLine(w)]]
  <2>1. \A w \in Wires : (IF w \in stop THEN out[w] ELSE f[next[w]])
                           = IF Find(w.pending, Newline) = 0 THEN w ELSE f[TakeLine(w)]
    OBVIOUS
  <2> HIDE DEF stop, next, out
  <2>2. f = [w \in Wires |-> IF w \in stop THEN out[w] ELSE f[next[w]]]
    BY <1>3 DEF Loops
  <2> QED BY <2>1, <2>2, Zenon
<1>5. \E g : g = [w \in Wires |-> IF Find(w.pending, Newline) = 0 THEN w ELSE g[TakeLine(w)]]
  BY <1>4, Zenon
<1>6. DrainLines = [w \in Wires |-> IF Find(w.pending, Newline) = 0 THEN w ELSE DrainLines[TakeLine(w)]]
  BY <1>5, Zenon DEF DrainLines, TakeLine
<1> QED BY <1>6, Zenon

LEMMA FramesLoop ==
  \A w \in Wires : DrainFrames[w] =
      IF Len(w.pending) < 2 THEN w
      ELSE IF Malformed(w.pending) THEN Cleared(w)
      ELSE IF Len(w.pending) < Size(w.pending) THEN w
      ELSE DrainFrames[TakeFrame(w)]
<1> DEFINE short == {w \in Wires : Len(w.pending) < 2}
           broken == {w \in Wires : Malformed(w.pending)}
           open == {w \in Wires : Len(w.pending) < Size(w.pending)}
           stop == short \cup broken \cup open
           next == [w \in Wires |-> TakeFrame(w)]
           out == [w \in Wires |-> IF Len(w.pending) < 2 THEN w
                                   ELSE IF Malformed(w.pending) THEN Cleared(w) ELSE w]
<1>1. \A w \in Wires \ stop : next[w] \in Wires
  <2> SUFFICES ASSUME NEW w \in Wires, w \notin stop PROVE TakeFrame(w) \in Wires
    OBVIOUS
  <2>1. (Len(w.pending) \in Nat /\ Size(w.pending) \in Int) \/ Len(w.pending) < 2
    <3>1. w.pending \in Seq(Units)
      BY DEF Wires
    <3>2. CASE Len(w.pending) >= 2
      <4>1. w.pending[2] \in Units
        BY <3>1, <3>2
      <4> QED BY <3>1, <4>1, LengthIsNumber DEF Size
    <3> QED BY <3>1, <3>2
  <2>2. Len(w.pending) >= 2 /\ Len(w.pending) >= Size(w.pending)
    BY <2>1 DEF Wires
  <2> QED BY <2>2, FrameTaken
<1>2. \E f : Loops(f, Wires, stop, next, out)
  <2> HIDE DEF stop, next, out
  <2> QED BY <1>1, LoopExists
<1>3. PICK f : Loops(f, Wires, stop, next, out)
  BY <1>2
<1>4. f = [w \in Wires |-> IF Len(w.pending) < 2 THEN w
                           ELSE IF Malformed(w.pending) THEN Cleared(w)
                           ELSE IF Len(w.pending) < Size(w.pending) THEN w
                           ELSE f[TakeFrame(w)]]
  <2>1. \A w \in Wires : (IF w \in stop THEN out[w] ELSE f[next[w]])
                           = IF Len(w.pending) < 2 THEN w
                             ELSE IF Malformed(w.pending) THEN Cleared(w)
                             ELSE IF Len(w.pending) < Size(w.pending) THEN w
                             ELSE f[TakeFrame(w)]
    OBVIOUS
  <2> HIDE DEF stop, next, out
  <2>2. f = [w \in Wires |-> IF w \in stop THEN out[w] ELSE f[next[w]]]
    BY <1>3 DEF Loops
  <2> QED BY <2>1, <2>2, Zenon
<1>5. \E g : g = [w \in Wires |-> IF Len(w.pending) < 2 THEN w
                           ELSE IF Malformed(w.pending) THEN Cleared(w)
                           ELSE IF Len(w.pending) < Size(w.pending) THEN w
                           ELSE g[TakeFrame(w)]]
  BY <1>4, Zenon
<1>6. DrainFrames = [w \in Wires |-> IF Len(w.pending) < 2 THEN w
                           ELSE IF Malformed(w.pending) THEN Cleared(w)
                           ELSE IF Len(w.pending) < Size(w.pending) THEN w
                           ELSE DrainFrames[TakeFrame(w)]]
  BY <1>5, Zenon DEF DrainFrames, TakeFrame, Malformed, Size
<1> QED BY <1>6, Zenon

----------------------------------------------------------------------------
(* The decoder, one decision at a time.                                     *)

Decoded(w) == Drain(FinishHandshake(SelectMode(w)))

\* Nothing can be decided before more arrives.
Waits(w) ==
    \/ w.mode = "Unknown" /\ IsPrefix(w.pending, <<Get[1]>>)
    \/ w.mode = "WebSocketHandshake" /\ Find(w.pending, Blank) = 0
    \/ w.mode = "JsonLines" /\ Find(w.pending, Newline) = 0
    \/ /\ w.mode = "WebSocketFrames"
       /\ \/ Len(w.pending) < 2
          \/ ~Malformed(w.pending) /\ Len(w.pending) < Size(w.pending)

One(w) ==
    CASE w.mode = "Unknown" -> SelectMode(w)
      [] w.mode = "WebSocketHandshake" -> FinishHandshake(w)
      [] w.mode = "JsonLines" -> TakeLine(w)
      [] OTHER -> IF Malformed(w.pending) THEN Cleared(w) ELSE TakeFrame(w)

\* What is left to decide.
Rank(w) == Len(w.pending) + (IF w.mode = "Unknown" THEN 1 ELSE 0)

LEMMA Opening ==
  ASSUME NEW p \in Seq(Units)
  PROVE  /\ IsPrefix(p, <<Get[1]>>) <=> Len(p) = 0 \/ (Len(p) = 1 /\ p[1] = Get[1])
         /\ IsPrefix(Get, p) <=> Len(p) >= 2 /\ p[1] = Get[1] /\ p[2] = Get[2]
<1>1. Len(p) \in Nat /\ p = SubSeq(p, 1, Len(p)) /\ Len(<<Get[1]>>) = 1 /\ <<Get[1]>>[1] = Get[1]
  OBVIOUS
<1>2. Len(Get) = 2 /\ Get = <<Get[1], Get[2]>>
  BY DEF Get
<1>3. ASSUME IsPrefix(p, <<Get[1]>>) PROVE Len(p) = 0 \/ (Len(p) = 1 /\ p[1] = Get[1])
  <2>1. Len(p) <= 1 /\ p = SubSeq(<<Get[1]>>, 1, Len(p))
    BY <1>1, <1>3 DEF IsPrefix
  <2>2. CASE Len(p) = 1
    BY <2>1, <2>2
  <2> QED BY <1>1, <2>1, <2>2
<1>4. ASSUME Len(p) = 0 PROVE IsPrefix(p, <<Get[1]>>)
  BY <1>1, <1>4 DEF IsPrefix
<1>5. ASSUME Len(p) = 1, p[1] = Get[1] PROVE IsPrefix(p, <<Get[1]>>)
  <2>1. p = <<Get[1]>>
    BY <1>5
  <2> QED BY <1>1, <1>5, <2>1 DEF IsPrefix
<1>6. ASSUME Len(p) >= 2 PROVE Len(SubSeq(p, 1, 2)) = 2 /\ SubSeq(p, 1, 2) = <<p[1], p[2]>>
  <2> DEFINE q == SubSeq(p, 1, 2)
  <2>1. q \in Seq(Units) /\ Len(q) = 2 /\ q[1] = p[1] /\ q[2] = p[2]
    BY <1>1, <1>6
  <2> HIDE DEF q
  <2>2. q = <<q[1], q[2]>>
    BY <2>1
  <2> QED BY <2>1, <2>2 DEF q
<1>7. SubSeq(Get, 1, 2) = Get
  BY <1>2
<1> QED BY <1>1, <1>2, <1>3, <1>4, <1>5, <1>6, <1>7 DEF IsPrefix

LEMMA AtRest == ASSUME NEW w \in Wires, Waits(w) PROVE Decoded(w) = w
<1>1. CASE w.mode = "Unknown" /\ IsPrefix(w.pending, <<Get[1]>>)
  BY <1>1 DEF Decoded, SelectMode, FinishHandshake, Drain
<1>2. CASE w.mode = "WebSocketHandshake" /\ Find(w.pending, Blank) = 0
  BY <1>2 DEF Decoded, SelectMode, FinishHandshake, Drain
<1>3. CASE w.mode = "JsonLines" /\ Find(w.pending, Newline) = 0
  <2>1. Decoded(w) = DrainLines[w]
    BY <1>3 DEF Decoded, SelectMode, FinishHandshake, Drain
  <2> QED BY <1>3, <2>1, LinesLoop
<1>4. CASE w.mode = "WebSocketFrames"
  <2>1. Decoded(w) = DrainFrames[w]
    BY <1>4 DEF Decoded, SelectMode, FinishHandshake, Drain
  <2>2. DrainFrames[w] = w
    BY <1>4, FramesLoop DEF Waits
  <2> QED BY <2>1, <2>2
<1> QED BY <1>1, <1>2, <1>3, <1>4 DEF Waits

\* A decision is part of the whole, and stands whatever arrives later unless it gave up.
Stands(w) ==
    /\ One(w) \in Wires /\ Grows(w, One(w)) /\ Rank(One(w)) < Rank(w)
    /\ Decoded(One(w)) = Decoded(w)
    /\ One(w).failures = w.failures =>
          \A b \in Seq(Units) : ~Waits(Push(w, b)) /\ One(Push(w, b)) = Push(One(w), b)

\* A change of the mode alone.
LEMMA Moded ==
  ASSUME NEW w \in Wires, NEW m \in Modes
  PROVE  LET v == [w EXCEPT !.mode = m]
         IN  /\ v \in Wires /\ Grows(w, v) /\ v.mode = m /\ v.pending = w.pending
             /\ v.failures = w.failures
             /\ \A b \in Seq(Units) : [Push(w, b) EXCEPT !.mode = m] = Push(v, b)
<1> DEFINE v == [w EXCEPT !.mode = m]
<1>1. /\ v \in Wires /\ v.mode = m /\ v.pending = w.pending /\ v.failures = w.failures
      /\ v.messages = w.messages /\ v.fragmented = w.fragmented
  BY DEF Wires
<1>2. ASSUME NEW b \in Seq(Units) PROVE [Push(w, b) EXCEPT !.mode = m] = Push(v, b)
  <2> DEFINE u == Push(w, b)
             l == [u EXCEPT !.mode = m]
             r == Push(v, b)
  <2>1. /\ u \in Wires /\ u.pending = w.pending \o b /\ u.mode = w.mode /\ u.messages = w.messages
        /\ u.failures = w.failures /\ u.fragmented = w.fragmented
    BY Pushed
  <2> HIDE DEF u
  <2>2. /\ l \in Wires /\ l.mode = m /\ l.pending = u.pending /\ l.failures = u.failures
        /\ l.messages = u.messages /\ l.fragmented = u.fragmented
    BY <2>1 DEF Wires
  <2> HIDE DEF v
  <2>3. /\ r \in Wires /\ r.pending = v.pending \o b /\ r.mode = v.mode /\ r.messages = v.messages
        /\ r.failures = v.failures /\ r.fragmented = v.fragmented
    BY <1>1, Pushed
  <2> HIDE DEF l, r
  <2>4. l.pending = r.pending
    BY <1>1, <2>1, <2>2, <2>3
  <2>5. l.mode = r.mode /\ l.messages = r.messages /\ l.failures = r.failures /\ l.fragmented = r.fragmented
    BY <1>1, <2>1, <2>2, <2>3
  <2>6. l \in Wires /\ r \in Wires
    BY <2>2, <2>3
  <2>7. l = r
    BY <2>4, <2>5, <2>6, SameWire
  <2> QED BY <2>7 DEF l, r, u
<1> HIDE DEF v
<1>3. Grows(w, v)
  BY <1>1, GrowsSelf DEF Grows
<1> QED BY <1>1, <1>2, <1>3 DEF v

LEMMA ModeStands ==
  ASSUME NEW w \in Wires, w.mode = "Unknown", ~Waits(w)
  PROVE  Stands(w)
<1> DEFINE p == w.pending
           m == IF IsPrefix(Get, p) THEN "WebSocketHandshake" ELSE "JsonLines"
           v == [w EXCEPT !.mode = m]
<1>1. p \in Seq(Units) /\ Len(p) \in Nat
  BY DEF Wires
<1>2. ~IsPrefix(p, <<Get[1]>>)
  BY DEF Waits
<1>3. One(w) = v
  BY <1>2 DEF One, SelectMode
<1>4. m \in Modes /\ m # "Unknown"
  BY DEF Modes
<1> HIDE DEF m
<1>5. /\ v \in Wires /\ Grows(w, v) /\ v.mode = m /\ v.pending = w.pending /\ v.failures = w.failures
      /\ \A b \in Seq(Units) : [Push(w, b) EXCEPT !.mode = m] = Push(v, b)
  BY <1>4, Moded
<1> HIDE DEF v
<1>6. Rank(v) < Rank(w)
  BY <1>1, <1>4, <1>5 DEF Rank
<1>7. Decoded(v) = Decoded(w)
  <2>1. SelectMode(v) = v
    BY <1>4, <1>5 DEF SelectMode
  <2>2. SelectMode(w) = v
    BY <1>3 DEF One
  <2> QED BY <2>1, <2>2 DEF Decoded
<1>8. ASSUME NEW b \in Seq(Units) PROVE ~Waits(Push(w, b)) /\ One(Push(w, b)) = Push(v, b)
  <2> DEFINE u == Push(w, b)
             q == p \o b
  <2>1. u.mode = "Unknown" /\ u.pending = q
    BY Pushed
  <2>2. q \in Seq(Units) /\ Len(q) = Len(p) + Len(b) /\ Len(b) \in Nat
        /\ \A i \in 1..Len(p) : q[i] = p[i]
    BY <1>1
  <2> HIDE DEF q, p
  <2>3. ~IsPrefix(q, <<Get[1]>>) /\ (IsPrefix(Get, q) <=> IsPrefix(Get, p))
    <3>1. /\ IsPrefix(p, <<Get[1]>>) <=> Len(p) = 0 \/ (Len(p) = 1 /\ p[1] = Get[1])
          /\ IsPrefix(Get, p) <=> Len(p) >= 2 /\ p[1] = Get[1] /\ p[2] = Get[2]
      BY <1>1, Opening
    <3>2. /\ IsPrefix(q, <<Get[1]>>) <=> Len(q) = 0 \/ (Len(q) = 1 /\ q[1] = Get[1])
          /\ IsPrefix(Get, q) <=> Len(q) >= 2 /\ q[1] = Get[1] /\ q[2] = Get[2]
      BY <2>2, Opening
    <3>3. Len(p) >= 1 /\ q[1] = p[1]
      BY <1>1, <1>2, <2>2, <3>1
    <3>4. Len(p) >= 2 => q[2] = p[2]
      BY <1>1, <2>2
    <3> QED BY <1>1, <1>2, <2>2, <3>1, <3>2, <3>3, <3>4
  <2>4. ~Waits(u)
    BY <2>1, <2>3 DEF Waits
  <2>5. One(u) = [u EXCEPT !.mode = m]
    BY <2>1, <2>3 DEF One, SelectMode, m
  <2> QED BY <1>5, <2>4, <2>5
<1> QED BY <1>3, <1>5, <1>6, <1>7, <1>8 DEF Stands

LEMMA HandshakeStands ==
  ASSUME NEW w \in Wires, w.mode = "WebSocketHandshake", ~Waits(w)
  PROVE  Stands(w)
<1> DEFINE p == w.pending
           k == Find(p, Blank)
           c == Chop(w, k)
           v == [c EXCEPT !.mode = "WebSocketFrames"]
<1>1. p \in Seq(Units) /\ Len(p) \in Nat
  BY DEF Wires
<1>2. k # 0
  BY DEF Waits
<1>3. k \in 1..Len(p)
  BY <1>1, <1>2, Found
<1>4. One(w) = v
  BY <1>2 DEF One, FinishHandshake
<1> HIDE DEF k
<1>5. /\ c \in Wires /\ c.mode = w.mode /\ c.messages = w.messages /\ c.failures = w.failures
      /\ Len(c.pending) = Len(p) - k
  BY <1>1, <1>3, Chopped
<1>6. Grows(w, c)
  <2> HIDE DEF c
  <2> QED BY <1>5, GrowsSelf DEF Grows
<1> HIDE DEF c
<1>7. /\ v \in Wires /\ Grows(c, v) /\ v.mode = "WebSocketFrames" /\ v.pending = c.pending
      /\ v.failures = c.failures
      /\ \A b \in Seq(Units) : [Push(c, b) EXCEPT !.mode = "WebSocketFrames"] = Push(v, b)
  <2>1. "WebSocketFrames" \in Modes
    BY DEF Modes
  <2> QED BY <1>5, <2>1, Moded
<1> HIDE DEF v
<1>8. Grows(w, v)
  BY <1>5, <1>6, <1>7, GrowsTrans
<1>9. Rank(v) < Rank(w)
  BY <1>1, <1>3, <1>5, <1>7 DEF Rank
<1>10. Decoded(v) = Decoded(w)
  <2>1. SelectMode(v) = v /\ FinishHandshake(v) = v
    BY <1>7 DEF SelectMode, FinishHandshake
  <2>2. SelectMode(w) = w /\ FinishHandshake(w) = v
    BY <1>4 DEF One, SelectMode
  <2> QED BY <2>1, <2>2 DEF Decoded
<1>11. ASSUME NEW b \in Seq(Units) PROVE ~Waits(Push(w, b)) /\ One(Push(w, b)) = Push(v, b)
  <2> DEFINE u == Push(w, b)
  <2>1. u.mode = "WebSocketHandshake" /\ u.pending = p \o b
    BY Pushed
  <2>2. Find(u.pending, Blank) = k
    BY <1>1, <1>2, <2>1, FoundStays DEF k
  <2>3. Chop(u, k) = Push(c, b)
    <3>1. k \in 0..Len(w.pending)
      BY <1>1, <1>3
    <3> QED BY <3>1, ChopStays DEF c
  <2> HIDE DEF u
  <2>4. ~Waits(u)
    BY <1>2, <2>1, <2>2 DEF Waits
  <2>5. One(u) = [Chop(u, k) EXCEPT !.mode = "WebSocketFrames"]
    BY <1>2, <2>1, <2>2 DEF One, FinishHandshake
  <2> QED BY <1>7, <2>3, <2>4, <2>5 DEF u
<1> QED BY <1>4, <1>7, <1>8, <1>9, <1>10, <1>11 DEF Stands

LEMMA LineStands ==
  ASSUME NEW w \in Wires, w.mode = "JsonLines", ~Waits(w)
  PROVE  Stands(w)
<1> DEFINE v == TakeLine(w)
<1>1. w.pending \in Seq(Units) /\ Len(w.pending) \in Nat
  BY DEF Wires
<1>2. Find(w.pending, Newline) # 0
  BY DEF Waits
<1>3. One(w) = v
  BY DEF One
<1>4. /\ v \in Wires /\ Grows(w, v) /\ v.mode = w.mode /\ Len(v.pending) < Len(w.pending)
      /\ \A b \in Seq(Units) : TakeLine(Push(w, b)) = Push(v, b)
  BY <1>2, LineTaken
<1> HIDE DEF v
<1>5. Rank(v) < Rank(w)
  <2>1. Len(v.pending) \in Nat
    BY <1>4 DEF Wires
  <2> QED BY <1>1, <1>4, <2>1 DEF Rank
<1>6. Decoded(v) = Decoded(w)
  <2>1. Decoded(w) = DrainLines[w] /\ Decoded(v) = DrainLines[v]
    BY <1>4 DEF Decoded, SelectMode, FinishHandshake, Drain
  <2> QED BY <1>2, <2>1, LinesLoop DEF v
<1>7. ASSUME NEW b \in Seq(Units) PROVE ~Waits(Push(w, b)) /\ One(Push(w, b)) = Push(v, b)
  <2> DEFINE u == Push(w, b)
  <2>1. u.mode = "JsonLines" /\ u.pending = w.pending \o b
    BY Pushed
  <2>2. Find(u.pending, Newline) # 0
    BY <1>1, <1>2, <2>1, FoundStays
  <2>3. TakeLine(u) = Push(v, b)
    BY <1>4
  <2> HIDE DEF u
  <2>4. ~Waits(u) /\ One(u) = TakeLine(u)
    BY <2>1, <2>2 DEF Waits, One
  <2> QED BY <2>3, <2>4 DEF u
<1> QED BY <1>3, <1>4, <1>5, <1>6, <1>7 DEF Stands

LEMMA FrameStands ==
  ASSUME NEW w \in Wires, w.mode = "WebSocketFrames", ~Waits(w)
  PROVE  Stands(w)
<1> DEFINE p == w.pending
<1>1. p \in Seq(Units) /\ Len(p) \in Nat
  BY DEF Wires
<1>2. Len(p) >= 2
  BY <1>1 DEF Waits
<1>3. Size(p) \in Nat
  <2>1. p[2] \in Units
    BY <1>1, <1>2
  <2> QED BY <2>1, LengthIsNumber DEF Size
<1>4. Decoded(w) = DrainFrames[w]
  BY DEF Decoded, SelectMode, FinishHandshake, Drain
<1>5. CASE Malformed(p)
  <2> DEFINE v == Cleared(w)
  <2>1. One(w) = v
    BY <1>5 DEF One
  <2>2. /\ v \in Wires /\ Grows(w, v) /\ v.mode = w.mode /\ v.pending = <<>>
        /\ v.failures = w.failures + 1
    BY Clearing
  <2> HIDE DEF v
  <2>3. v.failures # w.failures
    BY <2>2 DEF Wires
  <2>4. Rank(v) < Rank(w)
    <3>1. Len(v.pending) = 0
      BY <2>2
    <3> QED BY <1>1, <1>2, <2>2, <3>1 DEF Rank
  <2>5. Decoded(w) = v
    BY <1>1, <1>2, <1>4, <1>5, FramesLoop DEF v
  <2>6. Decoded(v) = v
    <3>1. Waits(v)
      BY <2>2 DEF Waits
    <3> QED BY <2>2, <3>1, AtRest
  <2> QED BY <2>1, <2>2, <2>3, <2>4, <2>5, <2>6 DEF Stands
<1>6. CASE ~Malformed(p)
  <2> DEFINE v == TakeFrame(w)
  <2>1. One(w) = v
    BY <1>6 DEF One
  <2>2. Len(p) >= Size(p)
    BY <1>1, <1>3, <1>6 DEF Waits
  <2>3. /\ v \in Wires /\ Grows(w, v) /\ v.mode = w.mode /\ Len(v.pending) < Len(p)
        /\ \A b \in Seq(Units) : TakeFrame(Push(w, b)) = Push(v, b)
    BY <1>2, <2>2, FrameTaken
  <2>4. DrainFrames[w] = DrainFrames[v]
    BY <1>1, <1>2, <1>3, <1>6, <2>2, FramesLoop
  <2> HIDE DEF v
  <2>5. Rank(v) < Rank(w)
    <3>1. Len(v.pending) \in Nat
      BY <2>3 DEF Wires
    <3> QED BY <1>1, <2>3, <3>1 DEF Rank
  <2>6. Decoded(v) = DrainFrames[v]
    BY <2>3 DEF Decoded, SelectMode, FinishHandshake, Drain
  <2>7. ASSUME NEW b \in Seq(Units) PROVE ~Waits(Push(w, b)) /\ One(Push(w, b)) = Push(v, b)
    <3> DEFINE u == Push(w, b)
    <3>1. u.mode = "WebSocketFrames" /\ u.pending = p \o b
      BY Pushed
    <3>2. Len(p \o b) = Len(p) + Len(b) /\ Len(b) \in Nat /\ (p \o b)[1] = p[1] /\ (p \o b)[2] = p[2]
      BY <1>1, <1>2
    <3>3. Size(p \o b) = Size(p) /\ ~Malformed(p \o b)
      BY <1>6, <3>2 DEF Size, Malformed
    <3> HIDE DEF u
    <3>4. ~Waits(u)
      BY <1>1, <1>2, <1>3, <2>2, <3>1, <3>2, <3>3 DEF Waits
    <3>5. One(u) = TakeFrame(u)
      BY <3>1, <3>3 DEF One
    <3> QED BY <2>3, <3>4, <3>5 DEF u
  <2> QED BY <1>4, <2>1, <2>3, <2>4, <2>5, <2>6, <2>7 DEF Stands
<1> QED BY <1>5, <1>6

LEMMA EveryDecisionStands == ASSUME NEW w \in Wires, ~Waits(w) PROVE Stands(w)
<1>1. w.mode \in Modes
  BY DEF Wires
<1> QED BY <1>1, ModeStands, HandshakeStands, LineStands, FrameStands DEF Modes

\* What holds at rest and before a decision whenever it holds after it, holds always.
LEMMA ByRank ==
  ASSUME NEW Good, \A w \in Wires : Waits(w) => w \in Good,
         \A w \in Wires : ~Waits(w) /\ One(w) \in Good => w \in Good
  PROVE  Wires \subseteq Good
<1> SUFFICES ASSUME Wires \ Good # {} PROVE FALSE
  OBVIOUS
<1> DEFINE Bad == {n \in Nat : \E w \in Wires \ Good : Rank(w) = n}
<1>1. \A w \in Wires : Rank(w) \in Nat
  BY DEF Wires, Rank
<1>2. Bad # {} /\ Bad \subseteq Nat
  BY <1>1
<1>3. PICK n \in Bad : \A m \in Bad : <<m, n>> \notin OpToRel(<, Nat)
  <2> HIDE DEF Bad
  <2> QED BY <1>2, NatLessThanWellFounded, WFMin
<1>4. PICK w \in Wires \ Good : Rank(w) = n
  BY <1>3
<1>5. ~Waits(w) /\ One(w) \notin Good
  BY <1>4
<1>6. One(w) \in Wires /\ Rank(One(w)) < Rank(w)
  BY <1>5, EveryDecisionStands DEF Stands
<1>7. Rank(One(w)) \in Bad
  BY <1>1, <1>5, <1>6
<1>8. Rank(One(w)) \in Nat /\ n \in Nat /\ Rank(One(w)) < n
  BY <1>1, <1>4, <1>6
<1> HIDE DEF Bad
<1>9. <<Rank(One(w)), n>> \in OpToRel(<, Nat)
  BY <1>8 DEF OpToRel
<1> QED BY <1>3, <1>7, <1>9

LEMMA Decodes ==
  ASSUME NEW w \in Wires
  PROVE  Decoded(w) \in Wires /\ Waits(Decoded(w)) /\ Grows(w, Decoded(w))
<1> DEFINE Good == {v \in Wires : Decoded(v) \in Wires /\ Waits(Decoded(v)) /\ Grows(v, Decoded(v))}
<1>1. ASSUME NEW v \in Wires, Waits(v) PROVE v \in Good
  BY <1>1, AtRest, GrowsSelf
<1>2. ASSUME NEW v \in Wires, ~Waits(v), One(v) \in Good PROVE v \in Good
  <2>1. One(v) \in Wires /\ Grows(v, One(v)) /\ Decoded(One(v)) = Decoded(v)
    BY <1>2, EveryDecisionStands DEF Stands
  <2>2. Decoded(v) \in Wires /\ Waits(Decoded(v)) /\ Grows(One(v), Decoded(v))
    BY <1>2, <2>1
  <2>3. Grows(v, Decoded(v))
    BY <2>1, <2>2, GrowsTrans
  <2> QED BY <2>2, <2>3
<1>3. Wires \subseteq Good
  <2> HIDE DEF Good
  <2> QED BY <1>1, <1>2, ByRank
<1> QED BY <1>3

\* Decoding in two parts gives the same as decoding at once, unless something was given up.
LEMMA DecodedTwice ==
  ASSUME NEW w \in Wires, NEW b \in Seq(Units),
         Decoded(Push(Decoded(w), b)).failures = w.failures
  PROVE  Decoded(Push(w, b)) = Decoded(Push(Decoded(w), b))
<1> DEFINE Agrees(v) == Decoded(Push(Decoded(v), b)).failures = v.failures
                         => Decoded(Push(v, b)) = Decoded(Push(Decoded(v), b))
           Good == {v \in Wires : Agrees(v)}
<1>1. ASSUME NEW v \in Wires, Waits(v) PROVE v \in Good
  BY <1>1, AtRest
<1>2. ASSUME NEW v \in Wires, ~Waits(v), One(v) \in Good PROVE v \in Good
  <2> SUFFICES ASSUME Decoded(Push(Decoded(v), b)).failures = v.failures
               PROVE  Decoded(Push(v, b)) = Decoded(Push(Decoded(v), b))
    OBVIOUS
  <2> DEFINE o == One(v)
             d == Decoded(v)
             e == Decoded(Push(d, b))
  <2>1. Stands(v)
    BY <1>2, EveryDecisionStands
  <2>2. o \in Wires /\ Grows(v, o) /\ Decoded(o) = d
    BY <2>1 DEF Stands
  <2>3. d \in Wires /\ Grows(o, d)
    BY <2>2, Decodes
  <2>4. Push(d, b) \in Wires /\ Push(d, b).failures = d.failures
    BY <2>3, Pushed
  <2>5. e \in Wires /\ Grows(Push(d, b), e)
    BY <2>4, Decodes
  <2>6. o.failures = v.failures
    <3>1. v.failures <= o.failures /\ o.failures <= d.failures /\ d.failures <= e.failures
      BY <2>2, <2>3, <2>4, <2>5 DEF Grows
    <3>2. v.failures \in Nat /\ o.failures \in Nat /\ d.failures \in Nat /\ e.failures \in Nat
      BY <2>2, <2>3, <2>5 DEF Wires
    <3>3. e.failures = v.failures
      OBVIOUS
    <3> HIDE DEF o, d, e
    <3> QED BY <3>1, <3>2, <3>3
  <2>7. ~Waits(Push(v, b)) /\ One(Push(v, b)) = Push(o, b)
    BY <2>1, <2>6 DEF Stands
  <2>8. Decoded(Push(o, b)) = e
    BY <1>2, <2>2, <2>6
  <2>9. Push(v, b) \in Wires
    BY Pushed
  <2>10. Decoded(One(Push(v, b))) = Decoded(Push(v, b))
    BY <2>7, <2>9, EveryDecisionStands DEF Stands
  <2> QED BY <2>7, <2>8, <2>10
<1>3. Wires \subseteq Good
  <2> HIDE DEF Good
  <2> QED BY <1>1, <1>2, ByRank
<1> QED BY <1>3

----------------------------------------------------------------------------
(* Chunks.                                                                  *)

Over(w) == [Cleared(w) EXCEPT !.fragmented = {}]

LEMMA FeedIs ==
  ASSUME NEW w \in Wires, NEW c \in Seq(Units)
  PROVE  Feed(w, c) = LET d == Decoded(Push(w, c))
                      IN  IF Len(d.pending) > MaxWire THEN Over(d) ELSE d
BY DEF Feed, Decoded, Push, Over

LEMMA Overflowing ==
  ASSUME NEW w \in Wires
  PROVE  /\ Over(w) \in Wires /\ Grows(w, Over(w)) /\ Over(w).failures = w.failures + 1 /\ Waits(Over(w))
<1> DEFINE c == Cleared(w)
           v == [c EXCEPT !.fragmented = {}]
<1>1. c \in Wires /\ Grows(w, c) /\ c.mode = w.mode /\ c.pending = <<>> /\ c.failures = w.failures + 1
  BY Clearing
<1> HIDE DEF c
<1>2. v \in Wires /\ Grows(c, v) /\ v.mode = c.mode /\ v.pending = c.pending /\ v.failures = c.failures
  BY <1>1, Unfragmented
<1>3. Over(w) = v
  BY DEF Over, c
<1> HIDE DEF v
<1>4. Grows(w, v)
  BY <1>1, <1>2, GrowsTrans
<1>5. Waits(v)
  <2> DEFINE p == v.pending
  <2>1. p = <<>> /\ p \in Seq(Units) /\ Len(p) = 0
    BY <1>1, <1>2
  <2> HIDE DEF p
  <2>2. ASSUME NEW u PROVE Find(p, u) = 0
    <3>1. Find(p, u) = 0 \/ Find(p, u) \in 1..Len(p)
      BY <2>1, Found
    <3> QED BY <2>1, <3>1
  <2>3. IsPrefix(p, <<Get[1]>>)
    BY <2>1, Opening
  <2>4. v.mode \in Modes
    BY <1>2 DEF Wires
  <2> QED BY <2>1, <2>2, <2>3, <2>4 DEF Waits, Modes, p
<1> QED BY <1>1, <1>2, <1>3, <1>4, <1>5

LEMMA Feeding ==
  ASSUME NEW w \in Wires, NEW c \in Seq(Units)
  PROVE  Feed(w, c) \in Wires /\ Grows(w, Feed(w, c)) /\ Waits(Feed(w, c))
<1> DEFINE u == Push(w, c)
           d == Decoded(u)
<1>1. u \in Wires /\ u.failures = w.failures /\ u.messages = w.messages
  BY Pushed
<1>2. Grows(w, u)
  BY <1>1, GrowsSelf DEF Grows
<1> HIDE DEF u
<1>3. d \in Wires /\ Waits(d) /\ Grows(u, d)
  BY <1>1, Decodes
<1>4. Grows(w, d)
  BY <1>1, <1>2, <1>3, GrowsTrans
<1>5. Feed(w, c) = IF Len(d.pending) > MaxWire THEN Over(d) ELSE d
  BY FeedIs DEF u
<1> HIDE DEF d
<1>6. Over(d) \in Wires /\ Grows(d, Over(d)) /\ Waits(Over(d))
  BY <1>3, Overflowing
<1>7. Grows(w, Over(d))
  BY <1>3, <1>4, <1>6, GrowsTrans
<1> QED BY <1>3, <1>4, <1>5, <1>6, <1>7

\* Nothing was given up: no chunk overflowed.
LEMMA FeedsWell ==
  ASSUME NEW w \in Wires, NEW c \in Seq(Units), Feed(w, c).failures = w.failures
  PROVE  /\ Feed(w, c) = Decoded(Push(w, c)) /\ Len(Decoded(Push(w, c)).pending) <= MaxWire
<1> DEFINE u == Push(w, c)
           d == Decoded(u)
<1>1. u \in Wires /\ u.failures = w.failures
  BY Pushed
<1> HIDE DEF u
<1>2. d \in Wires /\ Grows(u, d)
  BY <1>1, Decodes
<1>3. Feed(w, c) = IF Len(d.pending) > MaxWire THEN Over(d) ELSE d
  BY FeedIs DEF u
<1> HIDE DEF d
<1>4. Over(d).failures = d.failures + 1
  BY <1>2, Overflowing
<1>5. d.failures \in Nat /\ w.failures \in Nat /\ w.failures <= d.failures /\ Len(d.pending) \in Nat
  BY <1>1, <1>2 DEF Grows, Wires
<1>6. ~(Len(d.pending) > MaxWire)
  BY <1>3, <1>4, <1>5
<1>7. Len(d.pending) <= MaxWire
  BY <1>5, <1>6, WireAssumption
<1> QED BY <1>3, <1>6, <1>7 DEF d, u

\* Two chunks are decoded as one, with the same messages, the same mode and the same rest,
\* unless the observer lost its way (WireBuffer::feed).
THEOREM ChunksDoNotMatter ==
  ASSUME NEW w \in Wires, NEW a \in Seq(Units), NEW b \in Seq(Units),
         Feed(Feed(w, a), b).failures = w.failures
  PROVE  Feed(w, a \o b) = Feed(Feed(w, a), b)
<1> DEFINE f == Feed(w, a)
           g == Feed(f, b)
<1>1. f \in Wires /\ Grows(w, f)
  BY Feeding
<1>2. g \in Wires /\ Grows(f, g)
  BY <1>1, Feeding
<1>3. f.failures = w.failures /\ g.failures = f.failures
  <2>1. /\ w.failures \in Nat /\ f.failures \in Nat /\ g.failures \in Nat
        /\ w.failures <= f.failures /\ f.failures <= g.failures
    BY <1>1, <1>2 DEF Wires, Grows
  <2>2. g.failures = w.failures
    OBVIOUS
  <2> HIDE DEF f, g
  <2> QED BY <2>1, <2>2
<1>4. f = Decoded(Push(w, a))
  BY <1>3, FeedsWell
<1>5. g = Decoded(Push(f, b)) /\ Len(Decoded(Push(f, b)).pending) <= MaxWire
  BY <1>1, <1>3, FeedsWell
<1> DEFINE u == Push(w, a)
           v == Push(u, b)
<1>6. u \in Wires /\ u.failures = w.failures
  BY Pushed
<1>7. v = Push(w, a \o b) /\ a \o b \in Seq(Units)
  BY PushedTwice
<1>8. Decoded(v) = g
  <2>1. f = Decoded(u)
    BY <1>4
  <2>2. Decoded(Push(Decoded(u), b)) = g
    BY <1>5, <2>1
  <2>3. Decoded(Push(Decoded(u), b)).failures = u.failures
    BY <1>3, <1>6, <2>2
  <2> HIDE DEF u, g, f
  <2>4. Decoded(Push(u, b)) = Decoded(Push(Decoded(u), b))
    BY <1>6, <2>3, DecodedTwice
  <2> QED BY <2>2, <2>4
<1>9. Len(g.pending) <= MaxWire /\ Len(g.pending) \in Nat
  BY <1>2, <1>5 DEF Wires
<1>10. Feed(w, a \o b) = LET d == Decoded(Push(w, a \o b))
                         IN  IF Len(d.pending) > MaxWire THEN Over(d) ELSE d
  BY <1>7, FeedIs
<1> HIDE DEF g, v
<1>11. Feed(w, a \o b) = IF Len(g.pending) > MaxWire THEN Over(g) ELSE g
  BY <1>7, <1>8, <1>10
<1>12. ~(Len(g.pending) > MaxWire)
  BY <1>9, WireAssumption
<1> QED BY <1>11, <1>12 DEF g

----------------------------------------------------------------------------
(* What is written are units.                                               *)

\* Up to n, f joins the sequences of ss one after the other.
Joins(f, ss, n) == f = [i \in 1..n |-> IF i = 1 THEN ss[i] ELSE f[i - 1] \o ss[i]]

LEMMA JoinsExist == ASSUME NEW ss, NEW n \in Nat PROVE \E f : Joins(f, ss, n)
<1> DEFINE N == {k \in Nat : \E f : Joins(f, ss, k)}
<1>1. 0 \in N
  <2> DEFINE f == [i \in 1..0 |-> 0]
  <2>1. Joins(f, ss, 0)
    BY DEF Joins
  <2> QED BY <2>1
<1>2. ASSUME NEW k \in N PROVE k + 1 \in N
  <2>1. PICK f : Joins(f, ss, k)
    OBVIOUS
  <2> DEFINE e == IF k + 1 = 1 THEN ss[k + 1] ELSE f[k] \o ss[k + 1]
             g == [i \in 1..k + 1 |-> IF i = k + 1 THEN e ELSE f[i]]
  <2>2. k \in Nat /\ k + 1 \in Nat
    OBVIOUS
  <2>3. ASSUME NEW i \in 1..k + 1 PROVE g[i] = IF i = 1 THEN ss[i] ELSE g[i - 1] \o ss[i]
    <3>1. CASE i = k + 1
      <4>1. g[i] = e
        BY <3>1
      <4>2. CASE i = 1
        BY <3>1, <4>1, <4>2
      <4>3. CASE i # 1
        <5>1. i - 1 \in 1..k + 1 /\ i - 1 # k + 1 /\ i - 1 = k
          BY <2>2, <3>1, <4>3
        <5>2. g[i - 1] = f[k]
          BY <5>1
        <5> QED BY <3>1, <4>1, <4>3, <5>2
      <4> QED BY <4>2, <4>3
    <3>2. CASE i # k + 1
      <4>1. i \in 1..k /\ g[i] = f[i]
        BY <2>2, <3>2
      <4>2. f[i] = IF i = 1 THEN ss[i] ELSE f[i - 1] \o ss[i]
        <5>1. f = [j \in 1..k |-> IF j = 1 THEN ss[j] ELSE f[j - 1] \o ss[j]]
          BY <2>1 DEF Joins
        <5> QED BY <4>1, <5>1, Zenon
      <4>3. i # 1 => g[i - 1] = f[i - 1]
        <5> SUFFICES ASSUME i # 1 PROVE g[i - 1] = f[i - 1]
          OBVIOUS
        <5>1. i - 1 \in 1..k + 1 /\ i - 1 # k + 1
          BY <2>2, <4>1
        <5> QED BY <5>1
      <4> QED BY <4>1, <4>2, <4>3
    <3> QED BY <3>1, <3>2
  <2>4. g = [i \in 1..k + 1 |-> g[i]]
    OBVIOUS
  <2> HIDE DEF g
  <2>5. Joins(g, ss, k + 1)
    BY <2>3, <2>4 DEF Joins
  <2> QED BY <2>2, <2>5
<1>3. N = Nat
  <2>1. N \subseteq Nat
    OBVIOUS
  <2> HIDE DEF N
  <2> QED BY <1>1, <1>2, <2>1, NatSet
<1> QED BY <1>3

LEMMA JoinsUnits ==
  ASSUME NEW S, NEW ss \in Seq(Seq(S)), NEW f, Joins(f, ss, Len(ss)), Len(ss) # 0
  PROVE  f[Len(ss)] \in Seq(S)
<1> DEFINE n == Len(ss)
           N == {k \in Nat : k \in 1..n => f[k] \in Seq(S)}
<1>1. n \in Nat /\ \A i \in 1..n : ss[i] \in Seq(S)
  OBVIOUS
<1>2. \A i \in 1..n : f[i] = IF i = 1 THEN ss[i] ELSE f[i - 1] \o ss[i]
  BY Zenon DEF Joins
<1>3. 0 \in N
  OBVIOUS
<1>4. ASSUME NEW k \in N PROVE k + 1 \in N
  <2>1. k \in Nat /\ k + 1 \in Nat /\ (k \in 1..n => f[k] \in Seq(S))
    OBVIOUS
  <2> HIDE DEF n
  <2>2. ASSUME k + 1 \in 1..n PROVE f[k + 1] \in Seq(S)
    <3>1. CASE k = 0
      <4>1. f[k + 1] = ss[k + 1]
        BY <1>2, <2>2, <3>1
      <4> QED BY <1>1, <2>2, <4>1
    <3>2. CASE k # 0
      <4>1. k \in 1..n /\ k + 1 # 1 /\ (k + 1) - 1 = k
        BY <1>1, <2>1, <2>2, <3>2
      <4>2. f[k + 1] = f[k] \o ss[k + 1]
        BY <1>2, <2>2, <4>1
      <4>3. f[k] \in Seq(S) /\ ss[k + 1] \in Seq(S)
        BY <1>1, <2>1, <2>2, <4>1
      <4> QED BY <4>2, <4>3
    <3> QED BY <3>1, <3>2
  <2> QED BY <2>1, <2>2
<1>5. N = Nat
  <2>1. N \subseteq Nat
    OBVIOUS
  <2> HIDE DEF N
  <2> QED BY <1>3, <1>4, <2>1, NatSet
<1> QED BY <1>1, <1>5

LEMMA Flattened == ASSUME NEW S, NEW ss \in Seq(Seq(S)) PROVE FlattenSeq(ss) \in Seq(S)
<1>1. CASE Len(ss) = 0
  <2>1. FlattenSeq(ss) = ss
    BY <1>1, Zenon DEF FlattenSeq
  <2>2. ss = <<>>
    BY <1>1
  <2> QED BY <2>1, <2>2
<1>2. CASE Len(ss) # 0
  <2>1. Len(ss) \in Nat
    OBVIOUS
  <2> DEFINE joined == CHOOSE f : f = [i \in 1..Len(ss) |-> IF i = 1 THEN ss[i] ELSE f[i - 1] \o ss[i]]
  <2>2. FlattenSeq(ss) = joined[Len(ss)]
    BY <1>2, Zenon DEF FlattenSeq
  <2>3. \E f : f = [i \in 1..Len(ss) |-> IF i = 1 THEN ss[i] ELSE f[i - 1] \o ss[i]]
    BY <2>1, JoinsExist, Zenon DEF Joins
  <2>4. Joins(joined, ss, Len(ss))
    BY <2>3, Zenon DEF Joins
  <2> HIDE DEF joined
  <2> QED BY <1>2, <2>2, <2>4, JoinsUnits
<1> QED BY <1>1, <1>2

LEMMA Encodes ==
  ASSUME NEW f \in Frames, f.kind # "line" => Len(f.payload) <= MaxWire
  PROVE  Encode(f) \in Seq(Units)
<1>1. f.payload \in Seq(Units) /\ Len(f.payload) \in Nat
  <2>1. {Letter(c) : c \in Letters} \subseteq Units
    BY DEF Units
  <2>2. f.payload \in Seq({Letter(c) : c \in Letters})
    BY DEF Frames
  <2> QED BY <2>1, <2>2, SeqMonotonic
<1>2. CASE f.kind = "handshake"
  <2> DEFINE a == Get[1]
             b == Get[2]
  <2>1. a \in Units /\ b \in Units /\ Blank \in Units
    BY DEF Units
  <2>2. Get = <<a, b>>
    BY DEF Get
  <2> HIDE DEF a, b
  <2>3. Get \in Seq(Units) /\ <<Blank>> \in Seq(Units)
    BY <2>1, <2>2
  <2>4. Encode(f) = Get \o <<Blank>>
    BY <1>2 DEF Encode
  <2> QED BY <2>3, <2>4
<1>3. CASE f.kind = "line"
  <2>1. Newline \in Units
    BY DEF Units
  <2> QED BY <1>1, <1>3, <2>1 DEF Encode
<1>4. CASE f.kind = "long"
  <2>1. MaxWire + 1 \in 0..MaxWire + 1 /\ "text" \in Kinds
    BY WireAssumption DEF Kinds
  <2>2. First("text") \in Units /\ Length(MaxWire + 1) \in Units
    BY <2>1 DEF Units
  <2> QED BY <1>4, <2>2 DEF Encode
<1>5. CASE f.kind \notin {"handshake", "line", "long"}
  <2>1. f.kind \in Kinds
    BY <1>5 DEF Frames
  <2>2. Len(f.payload) \in 0..MaxWire + 1
    BY <1>1, <1>5, WireAssumption
  <2>3. First(f.kind) \in Units /\ Length(Len(f.payload)) \in Units
    BY <2>1, <2>2 DEF Units
  <2> DEFINE h == <<First(f.kind), Length(Len(f.payload))>>
  <2>4. h \in Seq(Units)
    BY <2>3
  <2>5. Encode(f) = h \o f.payload
    BY <1>5 DEF Encode
  <2> HIDE DEF h
  <2> QED BY <1>1, <2>4, <2>5
<1> QED BY <1>2, <1>3, <1>4, <1>5

LEMMA ClientSendsUnits == ASSUME sent \in Streams PROVE ClientUnits \in Seq(Units)
<1> DEFINE e(i) == Encode(sent[i])
           ss == [i \in DOMAIN sent |-> e(i)]
<1>1. sent \in Seq(Frames) /\ IsStream(sent)
  BY ForwardingAssumption
<1>2. DOMAIN sent = 1..Len(sent) /\ Len(sent) \in Nat
  BY <1>1
<1>3. ASSUME NEW i \in 1..Len(sent) PROVE e(i) \in Seq(Units)
  <2>1. sent[i] \in Frames
    BY <1>1
  <2>2. sent[i].kind # "line" => Len(sent[i].payload) <= MaxWire
    BY <1>1, <1>2 DEF IsStream
  <2> QED BY <2>1, <2>2, Encodes
<1>4. ss \in Seq(Seq(Units))
  <2> HIDE DEF e
  <2>1. [i \in 1..Len(sent) |-> e(i)] \in Seq(Seq(Units))
    BY <1>2, <1>3
  <2> QED BY <1>2, <2>1
<1>5. ClientUnits = FlattenSeq(ss)
  BY DEF ClientUnits
<1> HIDE DEF ss
<1> QED BY <1>4, <1>5, Flattened

OwnUnits == <<First("text"), Length(1), Letter(Own)>>

LEMMA OwnEncoded == Encode(OwnFrame) = OwnUnits /\ OwnUnits \in Seq(Units) /\ Len(OwnUnits) = 3
<1>1. Encode(OwnFrame) = <<First("text"), Length(Len(<<Letter(Own)>>))>> \o <<Letter(Own)>>
  BY DEF Encode, OwnFrame, Frame
<1>2. Len(<<Letter(Own)>>) = 1
  OBVIOUS
<1> DEFINE a == First("text")
           b == Length(1)
           c == Letter(Own)
<1>3. a \in Units /\ b \in Units /\ c \in Units
  <2>1. "text" \in Kinds /\ 1 \in 0..MaxWire + 1 /\ Own \in Letters
    BY WireAssumption, ForwardingAssumption DEF Kinds
  <2> QED BY <2>1 DEF Units
<1>4. Encode(OwnFrame) = <<a, b>> \o <<c>>
  BY <1>1, <1>2
<1> HIDE DEF a, b, c
<1>5. <<a, b>> \o <<c>> = <<a, b, c>> /\ <<a, b, c>> \in Seq(Units) /\ Len(<<a, b, c>>) = 3
  <2> DEFINE h == <<a, b>>
             t == <<c>>
             z == h \o t
             r == <<a, b, c>>
  <2>1. /\ h \in Seq(Units) /\ Len(h) = 2 /\ h[1] = a /\ h[2] = b
        /\ t \in Seq(Units) /\ Len(t) = 1 /\ t[1] = c
    BY <1>3
  <2>2. r \in Seq(Units) /\ Len(r) = 3 /\ r[1] = a /\ r[2] = b /\ r[3] = c
    BY <1>3
  <2> HIDE DEF h, t, r
  <2>3. z \in Seq(Units) /\ Len(z) = 3 /\ z[1] = a /\ z[2] = b /\ z[3] = c
    <3>1. /\ z \in Seq(Units) /\ Len(z) = Len(h) + Len(t)
          /\ \A i \in 1..Len(h) + Len(t) : z[i] = IF i <= Len(h) THEN h[i] ELSE t[i - Len(h)]
      BY <2>1, ConcatProperties
    <3> HIDE DEF z
    <3>2. \A i \in 1..3 : z[i] = IF i <= 2 THEN h[i] ELSE t[i - 2]
      BY <2>1, <3>1
    <3>3. z[1] = h[1] /\ z[2] = h[2] /\ z[3] = t[1]
      BY <3>2
    <3> QED BY <2>1, <3>1, <3>3
  <2> HIDE DEF z
  <2>4. \A i \in 1..3 : z[i] = r[i]
    BY <2>2, <2>3
  <2>5. z = r
    BY <2>2, <2>3, <2>4, SeqEqual
  <2> QED BY <2>2, <2>5 DEF h, t, r, z
<1>6. OwnUnits = <<a, b, c>>
  BY DEF OwnUnits, a, b, c
<1> QED BY <1>4, <1>5, <1>6

----------------------------------------------------------------------------
(* Requests to resume.                                                      *)

LEMMA MoreResumes ==
  ASSUME NEW s \in Messages, NEW t \in Messages, IsPrefix(s, t)
  PROVE  /\ Resumes(s) \in Nat /\ Resumes(t) \in Nat /\ Resumes(s) <= Resumes(t)
         /\ (\A i \in Len(s) + 1..Len(t) : ~IsResume(t[i])) => Resumes(s) = Resumes(t)
<1> DEFINE R(m) == {i \in 1..Len(m) : IsResume(m[i])}
<1>1. Len(s) \in Nat /\ Len(t) \in Nat /\ Len(s) <= Len(t) /\ DOMAIN s = 1..Len(s) /\ DOMAIN t = 1..Len(t)
  BY DEF IsPrefix, Messages
<1>2. \A i \in 1..Len(s) : s[i] = t[i]
  <2>1. SubSeq(s, 1, Len(s)) = SubSeq(t, 1, Len(s))
    BY DEF IsPrefix
  <2>2. \A i \in 1..Len(s) : SubSeq(s, 1, Len(s))[i] = s[i] /\ SubSeq(t, 1, Len(s))[i] = t[i]
    BY <1>1 DEF Messages
  <2> QED BY <2>1, <2>2
<1>3. Resumes(s) = Cardinality(R(s)) /\ Resumes(t) = Cardinality(R(t))
  BY <1>1 DEF Resumes
<1>4. IsFiniteSet(R(t))
  <2>1. IsFiniteSet(1..Len(t))
    BY <1>1, FS_Interval
  <2>2. R(t) \subseteq 1..Len(t)
    OBVIOUS
  <2> HIDE DEF R
  <2> QED BY <2>1, <2>2, FS_Subset
<1>5. R(s) \subseteq R(t)
  BY <1>1, <1>2
<1>6. (\A i \in Len(s) + 1..Len(t) : ~IsResume(t[i])) => R(s) = R(t)
  BY <1>1, <1>2
<1> HIDE DEF R
<1>7. IsFiniteSet(R(s)) /\ Cardinality(R(s)) <= Cardinality(R(t))
  BY <1>4, <1>5, FS_Subset
<1>8. Cardinality(R(s)) \in Nat /\ Cardinality(R(t)) \in Nat
  BY <1>4, <1>7, FS_CardinalityType
<1> QED BY <1>3, <1>6, <1>7, <1>8

\* One more message that is no request to resume.
LEMMA OneUncounted ==
  ASSUME NEW s \in Messages, NEW m \in Seq(Units), ~IsResume(m)
  PROVE  Resumes(Append(s, m)) = Resumes(s)
<1> DEFINE t == Append(s, m)
<1>1. t \in Messages /\ IsPrefix(s, t)
  BY PrefixOfAppend DEF Messages
<1>2. Len(s) \in Nat /\ Len(t) = Len(s) + 1 /\ t[Len(s) + 1] = m
  BY DEF Messages
<1> HIDE DEF t
<1>3. \A i \in Len(s) + 1..Len(t) : ~IsResume(t[i])
  BY <1>2
<1>4. Resumes(s) = Resumes(t)
  BY <1>1, <1>3, MoreResumes
<1> QED BY <1>4 DEF t

\* A frame some of whose bytes are no text makes no request to resume.
LEMMA MixedUncounted ==
  ASSUME NEW w \in Wires, NEW kind, NEW m \in Seq(Units), NEW j \in 1..Len(m), m[j][1] # "letter"
  PROVE  Resumes(Accept(w, kind, m).messages) = Resumes(w.messages)
<1> DEFINE v == Accept(w, kind, m)
           none == [w EXCEPT !.fragmented = {}]
           first == CHOOSE f \in w.fragmented : TRUE
           joined == first \o m
<1>1. w.messages \in Messages
  BY DEF Wires, Messages
<1>2. none \in Wires /\ none.messages = w.messages
  BY Unfragmented
<1>3. ~IsResume(m)
  <2>1. j \in DOMAIN m
    OBVIOUS
  <2> QED BY <2>1 DEF IsResume, Readable
<1>4. ASSUME w.fragmented # {} PROVE joined \in Seq(Units) /\ ~IsResume(joined)
  <2>1. first \in Seq(Units)
    <3>1. w.fragmented \subseteq Seq(Units)
      BY DEF Wires
    <3> QED BY <1>4, <3>1
  <2> HIDE DEF first
  <2>2. /\ joined \in Seq(Units) /\ Len(joined) = Len(first) + Len(m)
        /\ \A i \in 1..Len(first) + Len(m) : joined[i] = IF i <= Len(first) THEN first[i] ELSE m[i - Len(first)]
    BY <2>1, ConcatProperties
  <2> HIDE DEF joined
  <2>3. Len(first) \in Nat /\ Len(m) \in Nat
    BY <2>1
  <2>4. Len(first) + j \in 1..Len(first) + Len(m) /\ ~(Len(first) + j <= Len(first))
        /\ (Len(first) + j) - Len(first) = j
    BY <2>3
  <2>5. joined[Len(first) + j] = m[j]
    BY <2>2, <2>4
  <2>6. Len(first) + j \in DOMAIN joined
    BY <2>2, <2>4
  <2>7. ~Readable(joined)
    BY <2>5, <2>6 DEF Readable
  <2> QED BY <2>2, <2>7 DEF IsResume
<1>5. v.messages = w.messages \/ v.messages = Append(w.messages, m)
      \/ (w.fragmented # {} /\ v.messages = Append(w.messages, joined))
  <2> HIDE DEF joined
  <2>1. CASE kind = "text"
    <3>1. v = Deliver(w, m)
      BY <2>1 DEF Accept
    <3>2. Deliver(w, m).messages = Append(w.messages, m)
      BY Delivered
    <3> QED BY <3>1, <3>2
  <2>2. CASE kind = "start"
    <3> DEFINE F == {m}
    <3>1. v = [w EXCEPT !.fragmented = F] /\ F \in SUBSET Seq(Units)
      BY <2>2 DEF Accept
    <3> HIDE DEF F, v
    <3>2. [w EXCEPT !.fragmented = F].messages = w.messages
      BY <3>1, Unfragmented
    <3> QED BY <3>1, <3>2
  <2>3. CASE kind \in {"more", "last"} /\ w.fragmented = {}
    <3>1. v = Failed(w)
      BY <2>3 DEF Accept
    <3>2. Failed(w).messages = w.messages
      BY Failing
    <3> QED BY <3>1, <3>2
  <2>4. CASE kind \in {"more", "last"} /\ w.fragmented # {}
    <3> DEFINE F == {joined}
    <3>1. joined \in Seq(Units) /\ F \in SUBSET Seq(Units)
      BY <1>4, <2>4
    <3>2. v = IF Len(joined) > MaxWire THEN Failed(none)
              ELSE IF kind = "last" THEN Deliver(none, joined)
              ELSE [w EXCEPT !.fragmented = F]
      BY <2>4 DEF Accept, joined
    <3> HIDE DEF F, v, none
    <3>3. Failed(none).messages = w.messages
      BY <1>2, Failing
    <3>4. Deliver(none, joined).messages = Append(w.messages, joined)
      BY <1>2, <3>1, Delivered
    <3>5. [w EXCEPT !.fragmented = F].messages = w.messages
      BY <3>1, Unfragmented
    <3>6. v.messages = w.messages \/ v.messages = Append(w.messages, joined)
      BY <3>2, <3>3, <3>4, <3>5
    <3> QED BY <2>4, <3>6
  <2>5. CASE kind = "control"
    BY <2>5 DEF Accept
  <2>6. CASE kind \notin {"text", "start", "more", "last", "control"}
    <3>1. v = Failed(w)
      BY <2>6 DEF Accept
    <3>2. Failed(w).messages = w.messages
      BY Failing
    <3> QED BY <3>1, <3>2
  <2> QED BY <2>1, <2>2, <2>3, <2>4, <2>5, <2>6
<1> HIDE DEF v, joined
<1>6. CASE v.messages = w.messages
  BY <1>6 DEF v
<1>7. CASE v.messages = Append(w.messages, m)
  <2>1. Resumes(v.messages) = Resumes(w.messages)
    BY <1>1, <1>3, <1>7, OneUncounted
  <2> QED BY <2>1 DEF v
<1>8. CASE w.fragmented # {} /\ v.messages = Append(w.messages, joined)
  <2>1. Resumes(v.messages) = Resumes(w.messages)
    BY <1>1, <1>4, <1>8, OneUncounted
  <2> QED BY <2>1 DEF v
<1> QED BY <1>5, <1>6, <1>7, <1>8

\* The units of the owner's frame, and what the decoder makes of each.
LEMMA OwnParts ==
  LET o == OwnUnits
  IN  /\ o \in Seq(Units) /\ Len(o) = 3
      /\ \A i \in 1..3 : o[i] # Newline /\ o[i] # Blank
      /\ o[1][1] # "letter" /\ o[2][1] # "letter" /\ o[1] # Get[2] /\ o[1] # Get[1]
      /\ KindOf(o[1]) = "text" /\ LengthOf(o[1]) = 1 /\ KindOf(o[2]) = "reserved" /\ LengthOf(o[2]) = 1
      /\ o[3] = Letter(Own) /\ o[3] # Letter(Resume)
<1> DEFINE o == OwnUnits
<1>1. o \in Seq(Units) /\ Len(o) = 3
  BY OwnEncoded
<1>2. o[1] = First("text") /\ o[2] = Length(1) /\ o[3] = Letter(Own)
  BY DEF OwnUnits
<1> HIDE DEF o
<1>3. o[3] # Letter(Resume)
  BY <1>2, ForwardingAssumption DEF Letter
<1>4. \A i \in 1..3 : o[i] # Newline /\ o[i] # Blank
  <2>1. o[1] # Newline /\ o[1] # Blank
    BY <1>2 DEF First, Newline, Blank
  <2>2. o[2] # Newline /\ o[2] # Blank
    BY <1>2 DEF Length, Newline, Blank
  <2>3. o[3] # Newline /\ o[3] # Blank
    BY <1>2 DEF Letter, Newline, Blank
  <2> QED BY <2>1, <2>2, <2>3
<1>5. o[1][1] = "first" /\ o[1][2] = "text" /\ o[2][1] = "length" /\ o[2][2] = 1
  BY <1>2 DEF First, Length
<1>6. o[1] # Get[2] /\ o[1] # Get[1]
  BY <1>5 DEF Get
<1>7. KindOf(o[1]) = "text" /\ LengthOf(o[1]) = 1 /\ KindOf(o[2]) = "reserved" /\ LengthOf(o[2]) = 1
  BY <1>5 DEF KindOf, LengthOf
<1> QED BY <1>1, <1>2, <1>3, <1>4, <1>5, <1>6, <1>7 DEF o

\* Where nothing is decided nothing is delivered.
LEMMA WaitingUncounted ==
  ASSUME NEW w \in Wires, Waits(Push(w, OwnUnits)), Feed(w, OwnUnits).failures = w.failures
  PROVE  Feed(w, OwnUnits).messages = w.messages
<1>1. OwnUnits \in Seq(Units)
  BY OwnParts
<1>2. Feed(w, OwnUnits) = Decoded(Push(w, OwnUnits))
  BY <1>1, FeedsWell
<1>3. Push(w, OwnUnits) \in Wires /\ Push(w, OwnUnits).messages = w.messages
  BY <1>1, Pushed
<1> QED BY <1>2, <1>3, AtRest

LEMMA OwnAmongLines ==
  ASSUME NEW w \in Wires, Waits(w), w.mode # "WebSocketFrames",
         Feed(w, OwnUnits).failures = w.failures
  PROVE  Feed(w, OwnUnits).messages = w.messages
<1> DEFINE p == w.pending
           u == Push(w, OwnUnits)
           q == p \o OwnUnits
<1>1. p \in Seq(Units) /\ Len(p) \in Nat
  BY DEF Wires
<1>2. OwnUnits \in Seq(Units) /\ Len(OwnUnits) = 3
      /\ \A i \in 1..3 : OwnUnits[i] # Newline /\ OwnUnits[i] # Blank
      /\ OwnUnits[1] # Get[1] /\ OwnUnits[1] # Get[2]
  BY OwnParts
<1>3. /\ u \in Wires /\ u.pending = q /\ u.mode = w.mode /\ u.messages = w.messages
      /\ u.failures = w.failures
  BY <1>2, Pushed
<1>4. /\ q \in Seq(Units) /\ Len(q) = Len(p) + 3
      /\ \A i \in 1..Len(p) + 3 : q[i] = IF i <= Len(p) THEN p[i] ELSE OwnUnits[i - Len(p)]
  <2> HIDE DEF p
  <2>1. /\ q \in Seq(Units) /\ Len(q) = Len(p) + Len(OwnUnits)
        /\ \A i \in 1..Len(p) + Len(OwnUnits) :
              q[i] = IF i <= Len(p) THEN p[i] ELSE OwnUnits[i - Len(p)]
    BY <1>1, <1>2, ConcatProperties
  <2> QED BY <1>2, <2>1
<1> HIDE DEF p, q, u
<1>5. ASSUME NEW c, c \in {Newline, Blank}, \A i \in 1..Len(p) : p[i] # c PROVE Find(q, c) = 0
  <2>1. \A i \in 1..Len(q) : q[i] # c
    <3> SUFFICES ASSUME NEW i \in 1..Len(q) PROVE q[i] # c
      OBVIOUS
    <3>1. CASE i <= Len(p)
      BY <1>1, <1>4, <1>5, <3>1
    <3>2. CASE ~(i <= Len(p))
      <4>1. i - Len(p) \in 1..3 /\ q[i] = OwnUnits[i - Len(p)]
        BY <1>1, <1>4, <3>2
      <4> QED BY <1>2, <1>5, <4>1
    <3> QED BY <3>1, <3>2
  <2>2. \/ Find(q, c) = 0
        \/ Find(q, c) \in 1..Len(q) /\ q[Find(q, c)] = c
    BY <1>4, Found
  <2> QED BY <2>1, <2>2
<1>6. CASE w.mode = "Unknown"
  <2>1. Len(p) = 0 \/ (Len(p) = 1 /\ p[1] = Get[1])
    BY <1>1, <1>6, Opening DEF Waits, p
  <2>2. ~IsPrefix(q, <<Get[1]>>) /\ ~IsPrefix(Get, q)
    <3>1. /\ IsPrefix(q, <<Get[1]>>) <=> Len(q) = 0 \/ (Len(q) = 1 /\ q[1] = Get[1])
          /\ IsPrefix(Get, q) <=> Len(q) >= 2 /\ q[1] = Get[1] /\ q[2] = Get[2]
      BY <1>4, Opening
    <3>2. CASE Len(p) = 0
      <4>1. q[1] = OwnUnits[1] /\ Len(q) = 3
        BY <1>4, <3>2
      <4> QED BY <1>2, <3>1, <4>1
    <3>3. CASE Len(p) = 1
      <4>1. q[2] = OwnUnits[1] /\ Len(q) = 4
        BY <1>4, <3>3
      <4> QED BY <1>2, <3>1, <4>1
    <3> QED BY <2>1, <3>2, <3>3
  <2> DEFINE v == [u EXCEPT !.mode = "JsonLines"]
  <2>3. SelectMode(u) = v
    BY <1>3, <1>6, <2>2 DEF SelectMode
  <2>4. v.mode = "JsonLines" /\ v.pending = q /\ v.messages = w.messages /\ v \in Wires
    BY <1>3 DEF Wires, Modes
  <2> HIDE DEF v
  <2>5. SelectMode(v) = v
    BY <2>4 DEF SelectMode
  <2>6. Decoded(u) = Decoded(v)
    BY <2>3, <2>5 DEF Decoded
  <2>7. \A i \in 1..Len(p) : p[i] # Newline
    BY <2>1 DEF Get, Newline
  <2>8. Waits(v)
    BY <1>5, <2>4, <2>7 DEF Waits
  <2>9. Decoded(u).messages = w.messages
    BY <2>4, <2>6, <2>8, AtRest
  <2>10. Feed(w, OwnUnits) = Decoded(u)
    BY <1>2, FeedsWell DEF u
  <2> QED BY <2>9, <2>10
<1>7. CASE w.mode = "WebSocketHandshake"
  <2>1. \A i \in 1..Len(p) : p[i] # Blank
    <3>1. Find(p, Blank) = 0
      BY <1>7 DEF Waits, p
    <3> QED BY <1>1, <3>1, Found
  <2>2. Waits(u)
    BY <1>3, <1>5, <1>7, <2>1 DEF Waits
  <2> QED BY <2>2, WaitingUncounted DEF u
<1>8. CASE w.mode = "JsonLines"
  <2>1. \A i \in 1..Len(p) : p[i] # Newline
    <3>1. Find(p, Newline) = 0
      BY <1>8 DEF Waits, p
    <3> QED BY <1>1, <3>1, Found
  <2>2. Waits(u)
    BY <1>3, <1>5, <1>8, <2>1 DEF Waits
  <2> QED BY <2>2, WaitingUncounted DEF u
<1> QED BY <1>6, <1>7, <1>8 DEF Wires, Modes

\* The owner's frame between the client's frames, or inside one.
LEMMA OwnAmongFrames ==
  ASSUME NEW w \in Wires, Waits(w), w.mode = "WebSocketFrames",
         Feed(w, OwnUnits).failures = w.failures
  PROVE  Resumes(Feed(w, OwnUnits).messages) = Resumes(w.messages)
<1> DEFINE p == w.pending
           u == Push(w, OwnUnits)
           q == p \o OwnUnits
           g == Feed(w, OwnUnits)
           k == Size(q)
           kind == KindOf(q[1])
           m == SubSeq(q, 3, k)
           c == Chop(u, k)
           v == TakeFrame(u)
<1>1. p \in Seq(Units) /\ Len(p) \in Nat
  BY DEF Wires
<1>2. OwnUnits \in Seq(Units) /\ Len(OwnUnits) = 3
  BY OwnParts
<1>3. /\ u \in Wires /\ u.pending = q /\ u.mode = w.mode /\ u.messages = w.messages
      /\ u.failures = w.failures
  BY <1>2, Pushed
<1>4. /\ q \in Seq(Units) /\ Len(q) = Len(p) + 3
      /\ \A i \in 1..Len(p) + 3 : q[i] = IF i <= Len(p) THEN p[i] ELSE OwnUnits[i - Len(p)]
  <2> HIDE DEF p
  <2>1. /\ q \in Seq(Units) /\ Len(q) = Len(p) + Len(OwnUnits)
        /\ \A i \in 1..Len(p) + Len(OwnUnits) :
              q[i] = IF i <= Len(p) THEN p[i] ELSE OwnUnits[i - Len(p)]
    BY <1>1, <1>2, ConcatProperties
  <2> QED BY <1>2, <2>1
<1>5. g = Decoded(u)
  BY <1>2, FeedsWell
<1>6. v = Accept(c, kind, m)
  BY <1>3 DEF TakeFrame
<1>7. Waits(w) => Len(p) < 2 \/ (~Malformed(p) /\ Len(p) < Size(p))
  BY DEF Waits
<1>8. w.messages \in Messages /\ w.failures \in Nat
  BY DEF Wires, Messages
<1> HIDE DEF p, q, u, g
<1>9. k \in Nat /\ k >= 2 /\ (k = 2 + LengthOf(q[2]))
  <2>1. q[2] \in Units
    BY <1>1, <1>4
  <2> QED BY <2>1, LengthIsNumber DEF Size
<1>0. \A n \in Nat : n = 0 \/ n = 1 \/ n >= 2
  OBVIOUS
<1>10. CASE Waits(u)
  <2>1. g.messages = w.messages
    BY <1>10, WaitingUncounted DEF u, g
  <2> QED BY <2>1 DEF g
<1>11. CASE ~Waits(u)
  <2>1. Len(q) >= 2 /\ (Malformed(q) \/ Len(q) >= k)
    BY <1>1, <1>3, <1>4, <1>9, <1>11 DEF Waits
  <2>2. Stands(u)
    BY <1>3, <1>11, EveryDecisionStands
  <2>3. One(u) \in Wires /\ Decoded(One(u)) = g
    BY <1>5, <2>2 DEF Stands
  <2>4. ~Malformed(q)
    <3> SUFFICES ASSUME Malformed(q) PROVE FALSE
      OBVIOUS
    <3>1. One(u) = Cleared(u)
      BY <1>3 DEF One
    <3>2. Cleared(u).failures = u.failures + 1
      BY <1>3, Clearing
    <3>3. Grows(One(u), Decoded(One(u)))
      BY <2>3, Decodes
    <3>4. g.failures = w.failures
      BY DEF g
    <3> QED BY <1>3, <1>8, <2>3, <3>1, <3>2, <3>3, <3>4 DEF Grows
  <2>5. Len(q) >= k
    BY <2>1, <2>4
  <2>6. One(u) = v
    BY <1>3, <2>4 DEF One
  <2>7. /\ v \in Wires /\ v.mode = "WebSocketFrames" /\ v.pending = SubSeq(q, k + 1, Len(q))
    BY <1>3, <2>1, <2>5, FrameTaken
  <2>8. Waits(v) => g = v
    BY <2>3, <2>6, AtRest
  <2>9. c \in Wires /\ c.messages = w.messages
    <3>1. k \in 0..Len(u.pending)
      BY <1>3, <1>4, <1>9, <2>5
    <3> QED BY <1>3, <3>1, Chopped
  <2>10. m \in Seq(Units) /\ Len(m) = k - 2 /\ \A i \in 1..k - 2 : m[i] = q[i + 2]
    <3>1. \A i \in 3..k : q[i] \in Units
      BY <1>4, <1>9, <2>5
    <3>2. /\ m \in Seq(Units) /\ Len(m) = (IF 3 <= k THEN k - 3 + 1 ELSE 0)
          /\ \A i \in 1..k - 3 + 1 : m[i] = q[3 + i - 1]
      BY <1>9, <3>1, SubSeqProperties
    <3> HIDE DEF m, k
    <3> QED BY <1>9, <3>2
  <2> HIDE DEF c, m, k, kind, v
  <2>11. v.pending \in Seq(Units) /\ Len(v.pending) = Len(q) - k
         /\ \A i \in 1..Len(q) - k : v.pending[i] = q[k + i]
    <3> DEFINE r == SubSeq(q, k + 1, Len(q))
    <3>1. \A i \in k + 1..Len(q) : q[i] \in Units
      BY <1>4, <1>9, <2>5
    <3>2. k + 1 \in Int /\ Len(q) \in Int
      BY <1>1, <1>4, <1>9
    <3>3. /\ r \in Seq(Units) /\ Len(r) = (IF k + 1 <= Len(q) THEN Len(q) - (k + 1) + 1 ELSE 0)
          /\ \A i \in 1..Len(q) - (k + 1) + 1 : r[i] = q[(k + 1) + i - 1]
      BY <3>1, <3>2, SubSeqProperties
    <3> HIDE DEF r
    <3>4. Len(q) \in Nat /\ k \in Nat /\ k <= Len(q)
      BY <1>4, <1>9, <2>5
    <3>5. Len(r) = Len(q) - k
      BY <3>3, <3>4
    <3>6. ASSUME NEW i \in 1..Len(q) - k PROVE r[i] = q[k + i]
      <4>1. i \in 1..Len(q) - (k + 1) + 1 /\ (k + 1) + i - 1 = k + i
        BY <3>4
      <4> QED BY <3>3, <4>1
    <3> QED BY <2>7, <3>3, <3>5, <3>6 DEF r
  <2>12. CASE Len(p) = 0
    <3>1. q[1] = OwnUnits[1] /\ q[2] = OwnUnits[2] /\ q[3] = OwnUnits[3] /\ Len(q) = 3
      BY <1>4, <2>12
    <3>2. k = 3 /\ kind = "text"
      BY <1>9, <3>1, OwnParts DEF kind
    <3>3. Len(v.pending) = 0
      BY <2>11, <3>1, <3>2
    <3>4. g = v
      <4>1. Len(v.pending) < 2
        BY <3>3
      <4>2. Waits(v)
        BY <2>7, <4>1 DEF Waits
      <4> QED BY <2>8, <4>2
    <3>5. v = Deliver(c, m)
      BY <1>6, <3>2 DEF Accept
    <3>6. v.messages = Append(w.messages, m)
      BY <2>9, <2>10, <3>5, Delivered
    <3>7. m[1] # Letter(Resume)
      BY <2>10, <3>1, <3>2, OwnParts
    <3>8. Resumes(v.messages) = Resumes(w.messages)
      BY <1>8, <2>10, <3>6, <3>7, OneUncounted DEF IsResume
    <3> QED BY <3>4, <3>8 DEF g
  <2>13. CASE Len(p) # 0
    <3>1. PICK j \in 3..k : q[j][1] # "letter"
      <4>1. CASE Len(p) = 1
        <5>1. q[2] = OwnUnits[1] /\ q[3] = OwnUnits[2]
          BY <1>4, <4>1
        <5>2. k = 3
          BY <1>9, <5>1, OwnParts
        <5> QED BY <5>1, <5>2, OwnParts
      <4>2. CASE Len(p) # 1
        <5>1. Len(p) >= 2
          BY <1>0, <1>1, <2>13, <4>2, Zenon
        <5>2. q[1] = p[1] /\ q[2] = p[2]
          BY <1>1, <1>4, <5>1
        <5>3. Len(p) < k
          BY <1>1, <1>7, <5>1, <5>2 DEF Size, k
        <5>4. Len(p) + 1 \in 3..k /\ Len(p) + 1 \in 1..Len(p) + 3 /\ ~(Len(p) + 1 <= Len(p))
              /\ (Len(p) + 1) - Len(p) = 1
          BY <1>1, <1>9, <5>1, <5>3
        <5>5. q[Len(p) + 1] = OwnUnits[1]
          BY <1>4, <5>4
        <5> QED BY <5>4, <5>5, OwnParts
      <4> QED BY <4>1, <4>2
    <3>2. Resumes(v.messages) = Resumes(w.messages)
      <4>1. j - 2 \in 1..Len(m) /\ m[j - 2] = q[j]
        <5>1. j - 2 \in 1..k - 2 /\ (j - 2) + 2 = j
          BY <1>9
        <5> QED BY <2>10, <5>1
      <4>2. Resumes(Accept(c, kind, m).messages) = Resumes(c.messages)
        BY <2>9, <2>10, <3>1, <4>1, MixedUncounted
      <4> QED BY <1>6, <2>9, <4>2
    <3>3. Len(p) < k
      <4>1. CASE Len(p) = 1
        BY <1>9, <4>1
      <4>2. CASE Len(p) # 1
        <5>1. Len(p) >= 2
          BY <1>0, <1>1, <2>13, <4>2, Zenon
        <5>2. q[1] = p[1] /\ q[2] = p[2]
          BY <1>1, <1>4, <5>1
        <5> QED BY <1>1, <1>7, <5>1, <5>2 DEF Size, k
      <4> QED BY <4>1, <4>2
    <3>4. Waits(v)
      <4> SUFFICES ASSUME ~Waits(v) PROVE FALSE
        OBVIOUS
      <4>1. Len(v.pending) = 2 /\ k = Len(p) + 1
        <5>1. Len(v.pending) >= 2
          BY <1>1, <1>4, <1>9, <2>5, <2>7, <2>11 DEF Waits
        <5> QED BY <1>1, <1>4, <1>9, <2>5, <2>11, <3>3, <5>1
      <4>2. v.pending[1] = OwnUnits[2]
        <5>1. v.pending[1] = q[k + 1]
          BY <2>11, <4>1
        <5>2. k + 1 \in 1..Len(p) + 3 /\ ~(k + 1 <= Len(p)) /\ (k + 1) - Len(p) = 2
          BY <1>1, <4>1
        <5> QED BY <1>4, <5>1, <5>2
      <4>3. Malformed(v.pending)
        BY <4>2, OwnParts DEF Malformed
      <4>4. One(v) = Cleared(v)
        BY <2>7, <4>3 DEF One
      <4>5. One(v) \in Wires /\ Decoded(One(v)) = g
        BY <2>3, <2>6, <2>7, EveryDecisionStands DEF Stands
      <4>6. Grows(One(v), g)
        BY <4>5, Decodes
      <4>7. One(v).failures = v.failures + 1
        BY <2>7, <4>4, Clearing
      <4>8. Grows(u, v)
        BY <2>2, <2>6 DEF Stands
      <4>9. g.failures = w.failures /\ v.failures \in Nat
        BY <2>7 DEF g, Wires
      <4> QED BY <1>3, <1>8, <4>6, <4>7, <4>8, <4>9 DEF Grows
    <3> QED BY <2>8, <3>2, <3>4 DEF g
  <2> QED BY <2>12, <2>13
<1> QED BY <1>10, <1>11

\* An owner's frame never makes the observer count a request to resume.
LEMMA OwnUncounted ==
  ASSUME NEW w \in Wires, Waits(w), Feed(w, OwnUnits).failures = w.failures
  PROVE  Resumes(Feed(w, OwnUnits).messages) = Resumes(w.messages)
<1>1. CASE w.mode = "WebSocketFrames"
  BY <1>1, OwnAmongFrames
<1>2. CASE w.mode # "WebSocketFrames"
  BY <1>2, OwnAmongLines
<1> QED BY <1>1, <1>2

----------------------------------------------------------------------------
(* Types.                                                                   *)

Typed == TypeOK /\ taken \in Nat

LEMMA FreshWire == Fresh \in Wires /\ Waits(Fresh) /\ Fresh.failures = 0 /\ Fresh.messages = <<>> /\ Resumes(<<>>) = 0
<1> DEFINE e == <<>>
<1>1. e \in Seq(Units) /\ e \in Seq(Seq(Units)) /\ Len(e) = 0 /\ DOMAIN e = {} /\ "Unknown" \in Modes
  BY DEF Modes
<1>2. IsPrefix(e, <<Get[1]>>)
  BY <1>1, Opening
<1>3. Fresh = [mode |-> "Unknown", pending |-> e, fragmented |-> {}, messages |-> e, failures |-> 0]
  BY DEF Fresh
<1> HIDE DEF e
<1>4. Fresh \in Wires
  BY <1>1, <1>3 DEF Wires
<1>5. Waits(Fresh) /\ Fresh.failures = 0 /\ Fresh.messages = e
  BY <1>2, <1>3 DEF Waits
<1>6. Resumes(e) = 0
  <2>1. {i \in DOMAIN e : IsResume(e[i])} = {}
    BY <1>1
  <2> QED BY <2>1, FS_EmptySet DEF Resumes
<1> QED BY <1>4, <1>5, <1>6 DEF e

LEMMA TypedFirst == Init => Typed
<1> SUFFICES ASSUME Init PROVE Typed
  OBVIOUS
<1>1. sent \in Streams /\ socket = ClientUnits /\ socket \in Seq(Units)
  BY ClientSendsUnits DEF Init
<1>2. wire \in Wires
  BY FreshWire DEF Init
<1>3. 0 \in 0..MaxOwn
  BY ForwardingAssumption
<1>4. <<>> \in Seq(Units) /\ Len(socket) \in Nat
  BY <1>1
<1>5. taken + Len(socket) + (IF inputPc = "gate" THEN Len(chunk) ELSE 0) = Len(ClientUnits)
  BY <1>1, <1>4 DEF Init
<1> QED BY <1>1, <1>2, <1>3, <1>4, <1>5 DEF Typed, TypeOK, Init

\* What is observed is counted.
LEMMA Observing ==
  ASSUME wire \in Wires, attempts \in Nat, NEW c \in Seq(Units), ObserveUnits(c)
  PROVE  /\ wire' \in Wires /\ Grows(wire, wire') /\ Waits(wire') /\ attempts' \in Nat
         /\ attempts' = attempts + Resumes(wire'.messages) - Resumes(wire.messages)
         /\ Resumes(wire.messages) \in Nat /\ Resumes(wire'.messages) \in Nat
<1>1. wire' = Feed(wire, c) /\ attempts' = attempts + Resumes(wire'.messages) - Resumes(wire.messages)
  BY DEF ObserveUnits
<1>2. wire' \in Wires /\ Grows(wire, wire') /\ Waits(wire')
  BY <1>1, Feeding
<1>3. wire.messages \in Messages /\ wire'.messages \in Messages
  BY <1>2 DEF Wires, Messages
<1>4. /\ Resumes(wire.messages) \in Nat /\ Resumes(wire'.messages) \in Nat
      /\ Resumes(wire.messages) <= Resumes(wire'.messages)
  BY <1>2, <1>3, MoreResumes DEF Grows
<1> QED BY <1>1, <1>2, <1>4

\* Units keep being units when they are read or written.
LEMMA PipeTyped ==
  ASSUME full \in BOOLEAN, written \in Seq(Units), NEW c \in Seq(Units), Pipe(c)
  PROVE  full' \in BOOLEAN /\ written' \in Seq(Units)
<1>1. CASE relay /\ ~full /\ full' = TRUE /\ written' = written \o c
  BY <1>1
<1>2. CASE ~relay /\ UNCHANGED <<full, written>>
  BY <1>2
<1> QED BY <1>1, <1>2 DEF Pipe

\* What TypeOK says beside the count of the units the client sent: of what flows, and of where
\* everyone is.
Flows ==
    /\ sent \in Streams /\ socket \in Seq(Units) /\ chunk \in Seq(Units) /\ taken \in Nat
    /\ wire \in Wires /\ attempts \in Nat /\ prepared \in Nat /\ written \in Seq(Units)

Places ==
    /\ inputPc \in {"read", "gate", "prepare", "write", "ended"}
    /\ gate \in {"free", "input", "owner"} /\ spoiled \in BOOLEAN
    /\ ownerPc \in {"loop", "write", "join input", "join output", "detached"}
    /\ injected \in 0..MaxOwn /\ full \in BOOLEAN /\ relay \in BOOLEAN /\ shut \in BOOLEAN
    /\ reply \in BOOLEAN /\ outputPc \in {"read", "write", "ended"}

LEMMA Retyped ==
  ASSUME Flows', Places',
         taken' + Len(socket') + (IF inputPc' = "gate" THEN Len(chunk') ELSE 0) = Len(ClientUnits')
  PROVE  Typed'
BY DEF Flows, Places, Typed, TypeOK

LEMMA TypedNext == Typed /\ [Next]_vars => Typed'
<1> SUFFICES ASSUME Typed, [Next]_vars PROVE Typed'
  OBVIOUS
<1> DEFINE rest == (IF inputPc = "gate" THEN Len(chunk) ELSE 0)
<1>0. /\ sent \in Streams /\ socket \in Seq(Units) /\ chunk \in Seq(Units) /\ taken \in Nat
      /\ taken + Len(socket) + rest = Len(ClientUnits)
      /\ inputPc \in {"read", "gate", "prepare", "write", "ended"}
      /\ wire \in Wires /\ attempts \in Nat /\ prepared \in Nat
      /\ gate \in {"free", "input", "owner"} /\ spoiled \in BOOLEAN
      /\ ownerPc \in {"loop", "write", "join input", "join output", "detached"}
      /\ injected \in 0..MaxOwn /\ full \in BOOLEAN /\ written \in Seq(Units)
      /\ relay \in BOOLEAN /\ shut \in BOOLEAN
      /\ reply \in BOOLEAN /\ outputPc \in {"read", "write", "ended"}
  BY DEF Typed, TypeOK
<1>01. Len(socket) \in Nat /\ Len(chunk) \in Nat
  <2>1. socket \in Seq(Units) /\ chunk \in Seq(Units)
    BY <1>0
  <2> QED BY <2>1
<1>02. taken \in Nat /\ taken + Len(socket) + rest = Len(ClientUnits)
  BY <1>0
<1>00. OwnUnits = Encode(OwnFrame) /\ OwnUnits \in Seq(Units)
  BY OwnEncoded
<1>1. CASE Read
  <2>1. CASE \E n \in 1..Len(socket) :
               /\ chunk' = SubSeq(socket, 1, n) /\ socket' = SubSeq(socket, n + 1, Len(socket))
               /\ inputPc' = "gate"
    <3>1. PICK n \in 1..Len(socket) :
               /\ chunk' = SubSeq(socket, 1, n) /\ socket' = SubSeq(socket, n + 1, Len(socket))
               /\ inputPc' = "gate"
      BY <2>1
    <3>2. /\ chunk' \in Seq(Units) /\ Len(chunk') = n
          /\ socket' \in Seq(Units) /\ Len(socket') = Len(socket) - n
      <4>01. socket \in Seq(Units)
        BY <1>0
      <4>02. n \in 0..Len(socket) /\ n \in Nat /\ 0 + 1 = 1
        BY <1>01
      <4>1. socket \in Seq(Units) /\ n \in 0..Len(socket) /\ n \in Nat /\ 0 + 1 = 1
        BY <4>01, <4>02
      <4>2. /\ SubSeq(socket, 0 + 1, n) \in Seq(Units) /\ Len(SubSeq(socket, 0 + 1, n)) = n
        BY <4>1, Cut
      <4>3. /\ SubSeq(socket, n + 1, Len(socket)) \in Seq(Units)
            /\ Len(SubSeq(socket, n + 1, Len(socket))) = Len(socket) - n
        BY <1>01, <4>1, Cut
      <4> QED BY <3>1, <4>1, <4>2, <4>3
    <3>3. inputPc = "read" /\ taken' = taken /\ ClientUnits' = ClientUnits
      BY <1>1 DEF Read, ClientUnits
    <3>4. taken' + Len(socket') + rest' = Len(ClientUnits')
      <4>1. rest = 0 /\ rest' = n
        BY <3>1, <3>2, <3>3
      <4>2. n \in Nat
        BY <1>01
      <4> HIDE DEF rest
      <4> QED BY <1>01, <1>02, <3>2, <3>3, <4>1, <4>2
    <3>9. Flows' /\ Places'
      <4>1. inputPc' = "gate" /\ chunk' \in Seq(Units) /\ socket' \in Seq(Units)
        BY <3>1, <3>2
      <4>2. UNCHANGED <<sent, taken, attempts, prepared, wire, gate, owner, full, written, relay, output>>
        BY <1>1 DEF Read
      <4>3. /\ sent' = sent /\ taken' = taken /\ attempts' = attempts /\ prepared' = prepared
            /\ wire' = wire /\ gate' = gate /\ ownerPc' = ownerPc /\ injected' = injected
            /\ spoiled' = spoiled /\ shut' = shut /\ full' = full /\ written' = written
            /\ relay' = relay /\ reply' = reply /\ outputPc' = outputPc
        BY <4>2 DEF owner, output
      <4>8. Flows'
        BY <1>0, <4>1, <4>3 DEF Flows
      <4>9. Places'
        BY <1>0, <4>1, <4>3 DEF Places
      <4> QED BY <4>8, <4>9
    <3> QED BY <3>4, <3>9, Retyped
  <2>2. CASE inputPc' = "ended" /\ UNCHANGED <<chunk, socket>>
    <3>1. inputPc = "read" /\ taken' = taken /\ ClientUnits' = ClientUnits
      BY <1>1 DEF Read, ClientUnits
    <3>2. taken' + Len(socket') + rest' = Len(ClientUnits')
      BY <1>0, <2>2, <3>1
    <3>9. Flows' /\ Places'
      <4>1. inputPc' = "ended" /\ chunk' \in Seq(Units) /\ socket' \in Seq(Units)
        BY <1>0, <2>2
      <4>2. UNCHANGED <<sent, taken, attempts, prepared, wire, gate, owner, full, written, relay, output>>
        BY <1>1 DEF Read
      <4>3. /\ sent' = sent /\ taken' = taken /\ attempts' = attempts /\ prepared' = prepared
            /\ wire' = wire /\ gate' = gate /\ ownerPc' = ownerPc /\ injected' = injected
            /\ spoiled' = spoiled /\ shut' = shut /\ full' = full /\ written' = written
            /\ relay' = relay /\ reply' = reply /\ outputPc' = outputPc
        BY <4>2 DEF owner, output
      <4>8. Flows'
        BY <1>0, <4>1, <4>3 DEF Flows
      <4>9. Places'
        BY <1>0, <4>1, <4>3 DEF Places
      <4> QED BY <4>8, <4>9
    <3> QED BY <3>2, <3>9, Retyped
  <2> QED BY <1>1, <2>1, <2>2 DEF Read
<1>2. CASE ReadShut
  <2>1. taken' + Len(socket') + rest' = Len(ClientUnits')
    BY <1>0, <1>2 DEF ReadShut, ClientUnits
  <2>8. Flows'
    BY <1>0, <1>2 DEF Flows, ReadShut, owner, output
  <2>9. Places'
    BY <1>0, <1>2 DEF Places, ReadShut, owner, output
  <2> QED BY <2>1, <2>8, <2>9, Retyped
<1>3. CASE Observe
  <2>1. wire' \in Wires /\ attempts' \in Nat
    BY <1>0, <1>3, Observing DEF Observe
  <2>2. taken' + Len(socket') + rest' = Len(ClientUnits') /\ taken' \in Nat
    <3>1. /\ inputPc = "gate" /\ taken' = taken + Len(chunk) /\ socket' = socket
          /\ inputPc' \in {"write", "prepare"} /\ ClientUnits' = ClientUnits
      BY <1>3 DEF Observe, ClientUnits
    <3>2. rest = Len(chunk) /\ rest' = 0
      BY <3>1
    <3> HIDE DEF rest
    <3> QED BY <1>01, <1>02, <3>1, <3>2
  <2>8. Flows'
    BY <1>0, <1>3, <2>1, <2>2 DEF Flows, Observe, owner, output
  <2>9. Places'
    BY <1>0, <1>3, <2>1, <2>2 DEF Places, Observe, owner, output
  <2> QED BY <2>2, <2>8, <2>9, Retyped
<1>4. CASE Prepare
  <2>1. taken' + Len(socket') + rest' = Len(ClientUnits')
    BY <1>0, <1>4 DEF Prepare, ClientUnits
  <2>2. prepared' \in Nat /\ attempts' \in Nat
    <3>1. attempts \in Nat /\ prepared \in Nat
      BY <1>0
    <3>2. prepared' = prepared + attempts /\ attempts' = 0
      BY <1>4 DEF Prepare
    <3> QED BY <3>1, <3>2
  <2>8. Flows'
    BY <1>0, <1>4, <2>2 DEF Flows, Prepare, owner, output
  <2>9. Places'
    BY <1>0, <1>4, <2>2 DEF Places, Prepare, owner, output
  <2> QED BY <2>1, <2>8, <2>9, Retyped
<1>5. CASE WriteChunk
  <2>1. taken' + Len(socket') + rest' = Len(ClientUnits')
    BY <1>0, <1>5 DEF WriteChunk, ClientUnits
  <2>2. full' \in BOOLEAN /\ written' \in Seq(Units)
    BY <1>0, <1>5, PipeTyped DEF WriteChunk
  <2>3. chunk' \in Seq(Units)
    BY <1>5 DEF WriteChunk
  <2>8. Flows'
    BY <1>0, <1>5, <2>2, <2>3 DEF Flows, WriteChunk, owner, output
  <2>9. Places'
    BY <1>0, <1>5, <2>2, <2>3 DEF Places, WriteChunk, owner, output
  <2> QED BY <2>1, <2>8, <2>9, Retyped
<1>6. CASE ReadReply \/ WriteReply \/ WriteFails
  <2>1. taken' + Len(socket') + rest' = Len(ClientUnits')
    BY <1>0, <1>6 DEF ReadReply, WriteReply, WriteFails, ClientUnits, input
  <2>9. Flows' /\ Places'
    <3>1. /\ UNCHANGED <<sent, socket, input, wire, gate, owner, full, written, relay>>
          /\ reply' \in BOOLEAN /\ outputPc' \in {"read", "write", "ended"}
      BY <1>0, <1>6 DEF ReadReply, WriteReply, WriteFails
    <3>8. Flows'
      BY <1>0, <3>1 DEF Flows, input, owner
    <3>9. Places'
      BY <1>0, <3>1 DEF Places, input, owner
    <3> QED BY <3>8, <3>9
  <2> QED BY <2>1, <2>9, Retyped
<1>7. CASE Unsubscribe
  <2>1. wire' \in Wires /\ attempts' \in Nat
    <3>1. ObserveUnits(OwnUnits)
      BY <1>00, <1>7 DEF Unsubscribe
    <3> QED BY <1>0, <1>00, <3>1, Observing
  <2>2. injected' \in 0..MaxOwn
    BY <1>0, <1>7, ForwardingAssumption DEF Unsubscribe
  <2>3. spoiled' \in BOOLEAN
    BY <1>0, <1>7 DEF Unsubscribe
  <2>4. taken' + Len(socket') + rest' = Len(ClientUnits')
    BY <1>0, <1>7 DEF Unsubscribe, ClientUnits
  <2>8. Flows'
    BY <1>0, <1>7, <2>1, <2>2, <2>3 DEF Flows, Unsubscribe, output
  <2>9. Places'
    BY <1>0, <1>7, <2>1, <2>2, <2>3 DEF Places, Unsubscribe, output
  <2> QED BY <2>4, <2>8, <2>9, Retyped
<1>8. CASE WriteFrame
  <2>1. taken' + Len(socket') + rest' = Len(ClientUnits')
    BY <1>0, <1>8 DEF WriteFrame, ClientUnits, input
  <2>2. full' \in BOOLEAN /\ written' \in Seq(Units)
    <3>1. Pipe(OwnUnits)
      BY <1>00, <1>8 DEF WriteFrame
    <3> QED BY <1>0, <1>00, <3>1, PipeTyped
  <2>8. Flows'
    BY <1>0, <1>8, <2>2 DEF Flows, WriteFrame, input, output
  <2>9. Places'
    BY <1>0, <1>8, <2>2 DEF Places, WriteFrame, input, output
  <2> QED BY <2>1, <2>8, <2>9, Retyped
<1>9. CASE Drop
  <2>1. taken' + Len(socket') + rest' = Len(ClientUnits')
    BY <1>0, <1>9 DEF Drop, ClientUnits, input
  <2>8. Flows'
    BY <1>0, <1>9 DEF Flows, Drop, input, output
  <2>9. Places'
    BY <1>0, <1>9 DEF Places, Drop, input, output
  <2> QED BY <2>1, <2>8, <2>9, Retyped
<1>10. CASE JoinInput \/ JoinOutput
  <2>1. taken' + Len(socket') + rest' = Len(ClientUnits')
    BY <1>0, <1>10 DEF JoinInput, JoinOutput, ClientUnits, input
  <2>8. Flows'
    BY <1>0, <1>10 DEF Flows, JoinInput, JoinOutput, input, output
  <2>9. Places'
    BY <1>0, <1>10 DEF Places, JoinInput, JoinOutput, input, output
  <2> QED BY <2>1, <2>8, <2>9, Retyped
<1>11. CASE Relay \/ Reply \/ ProxyDies
  <2>1. taken' + Len(socket') + rest' = Len(ClientUnits')
    BY <1>0, <1>11 DEF Relay, Reply, ProxyDies, ClientUnits, input
  <2>9. Flows' /\ Places'
    <3>1. /\ UNCHANGED <<sent, socket, input, wire, gate, owner, written, outputPc>>
          /\ full' \in BOOLEAN /\ relay' \in BOOLEAN /\ reply' \in BOOLEAN
      BY <1>0, <1>11 DEF Relay, Reply, ProxyDies, output
    <3>8. Flows'
      BY <1>0, <3>1 DEF Flows, input, owner
    <3>9. Places'
      BY <1>0, <3>1 DEF Places, input, owner
    <3> QED BY <3>8, <3>9
  <2> QED BY <2>1, <2>9, Retyped
<1>12. CASE UNCHANGED vars
  <2>1. /\ sent' = sent /\ socket' = socket /\ taken' = taken /\ chunk' = chunk /\ inputPc' = inputPc
        /\ attempts' = attempts /\ prepared' = prepared /\ wire' = wire /\ gate' = gate
        /\ ownerPc' = ownerPc /\ injected' = injected /\ spoiled' = spoiled /\ shut' = shut
        /\ full' = full /\ written' = written /\ relay' = relay /\ reply' = reply /\ outputPc' = outputPc
    BY <1>12 DEF vars, input, owner, output
  <2>2. ClientUnits' = ClientUnits
    BY <2>1 DEF ClientUnits
  <2>9. Flows' /\ Places'
    <3>1. sent' \in Streams /\ wire' \in Wires /\ attempts' \in Nat /\ prepared' \in Nat /\ taken' \in Nat
      BY <1>0, <2>1
    <3>2. socket' \in Seq(Units) /\ chunk' \in Seq(Units) /\ written' \in Seq(Units)
      BY <1>0, <2>1
    <3>3. /\ inputPc' \in {"read", "gate", "prepare", "write", "ended"}
          /\ gate' \in {"free", "input", "owner"} /\ outputPc' \in {"read", "write", "ended"}
          /\ ownerPc' \in {"loop", "write", "join input", "join output", "detached"}
      BY <1>0, <2>1
    <3>4. /\ spoiled' \in BOOLEAN /\ injected' \in 0..MaxOwn /\ full' \in BOOLEAN
          /\ relay' \in BOOLEAN /\ shut' \in BOOLEAN /\ reply' \in BOOLEAN
      BY <1>0, <2>1
    <3>8. Flows'
      BY <3>1, <3>2, <3>3, <3>4 DEF Flows
    <3>9. Places'
      BY <3>1, <3>2, <3>3, <3>4 DEF Places
    <3> QED BY <3>8, <3>9
  <2>3. taken' + Len(socket') + rest' = Len(ClientUnits')
    BY <1>0, <2>1, <2>2
  <2> QED BY <2>3, <2>9, Retyped
<1> QED BY <1>1, <1>2, <1>3, <1>4, <1>5, <1>6, <1>7, <1>8, <1>9, <1>10, <1>11, <1>12 DEF Next

\* Every reachable state of the attachment has the types of its variables: the observer's buffer
\* is one that observe_client_message and the gate of src/src/session.rs can leave behind, and
\* what the client sent is what was observed, what was read and what is still in the socket.
THEOREM ForwardingTypeCorrect == Spec => []TypeOK
<1>1. Typed => TypeOK
  BY DEF Typed
<1> QED BY <1>1, TypedFirst, TypedNext, PTL DEF Spec

-----------------------------------------------------------------------------
(* What was observed and what was written.                                  *)

\* What the observer would be had it read what was written to the proxy's pipe.
Seen == Feed(Fresh, written)

\* Who holds the gate is about to write what it has observed.
GateHeld ==
    /\ gate = "input" <=> inputPc \in {"prepare", "write"}
    /\ gate = "owner" <=> ownerPc = "write"

\* While the proxy lives the observer is ahead by what the holder of the gate has still to write.
Following ==
    wire.failures = 0 =>
        /\ relay /\ gate = "free" => wire = Seen
        /\ relay /\ gate = "input" => wire = Feed(Seen, chunk)
        /\ relay /\ gate = "owner" => wire = Feed(Seen, OwnUnits)
        /\ ~relay => IsPrefix(Seen.messages, wire.messages)

\* The resumes observed are handed over, but for those the input copier is about to hand over.
Handed ==
    wire.failures = 0 =>
        /\ prepared + attempts = Resumes(wire.messages)
        /\ inputPc # "prepare" => attempts = 0
        /\ Resumes(Seen.messages) <= prepared

Ahead == Typed /\ Waits(wire) /\ GateHeld /\ Following /\ Handed

\* An observer that has read nothing is a fresh one.
LEMMA NothingFed == Feed(Fresh, <<>>) = Fresh
<1> DEFINE e == <<>>
<1>1. e \in Seq(Units) /\ Fresh.pending = e /\ e \o e = e /\ Len(e) = 0
  BY DEF Fresh
<1>2. Fresh \in Wires /\ Waits(Fresh)
  BY FreshWire
<1> HIDE DEF e
<1>3. Push(Fresh, e) = Fresh
  <2> DEFINE u == Push(Fresh, e)
  <2>1. /\ u \in Wires /\ u.pending = Fresh.pending /\ u.mode = Fresh.mode
        /\ u.messages = Fresh.messages /\ u.failures = Fresh.failures /\ u.fragmented = Fresh.fragmented
    BY <1>1, <1>2, Pushed
  <2> HIDE DEF u
  <2>2. u = Fresh
    BY <1>2, <2>1, SameWire
  <2> QED BY <2>2 DEF u
<1>4. Decoded(Push(Fresh, e)) = Fresh
  BY <1>2, <1>3, AtRest
<1>5. ~(0 > MaxWire)
  BY WireAssumption
<1>6. Feed(Fresh, e) = Fresh
  BY <1>1, <1>2, <1>4, <1>5, FeedIs
<1> QED BY <1>6 DEF e

LEMMA SeenIs ==
  ASSUME written \in Seq(Units)
  PROVE  Seen \in Wires /\ Seen.failures \in Nat /\ Seen.messages \in Messages /\ Resumes(Seen.messages) \in Nat
<1>1. Seen \in Wires
  BY FreshWire, Feeding DEF Seen
<1>2. Seen.failures \in Nat /\ Seen.messages \in Messages
  BY <1>1 DEF Wires, Messages
<1>3. Resumes(Seen.messages) \in Nat
  <2>1. IsPrefix(Seen.messages, Seen.messages)
    BY <1>2, PrefixSelf DEF Messages
  <2> QED BY <1>2, <2>1, MoreResumes
<1> QED BY <1>1, <1>2, <1>3

\* What is observed puts the observer ahead of what was written.
LEMMA Observed ==
  ASSUME Typed, Following, gate = "free", NEW c \in Seq(Units), ObserveUnits(c), wire'.failures = 0
  PROVE  /\ wire.failures = 0 /\ (relay => wire' = Feed(Seen, c))
         /\ ~relay => IsPrefix(Seen.messages, wire'.messages)
<1>1. wire \in Wires /\ attempts \in Nat /\ written \in Seq(Units) /\ relay \in BOOLEAN
  BY DEF Typed, TypeOK
<1>2. wire' \in Wires /\ Grows(wire, wire') /\ wire' = Feed(wire, c)
  BY <1>1, Observing DEF ObserveUnits
<1>3. wire.failures = 0
  <2>1. wire.failures \in Nat /\ wire.failures <= wire'.failures
    BY <1>1, <1>2 DEF Wires, Grows
  <2>2. wire.failures \in Nat /\ wire.failures <= 0
    BY <2>1
  <2> QED BY <2>2
<1>4. relay => wire' = Feed(Seen, c)
  BY <1>2, <1>3 DEF Following
<1>5. ASSUME ~relay PROVE IsPrefix(Seen.messages, wire'.messages)
  <2>1. IsPrefix(Seen.messages, wire.messages)
    BY <1>3, <1>5 DEF Following
  <2>2. IsPrefix(wire.messages, wire'.messages)
    BY <1>2 DEF Grows
  <2>3. /\ Seen.messages \in Messages /\ wire.messages \in Messages /\ wire'.messages \in Messages
    BY <1>1, <1>2, SeenIs DEF Wires, Messages
  <2> QED BY <2>1, <2>2, <2>3, PrefixTrans DEF Messages
<1> QED BY <1>3, <1>4, <1>5

\* What is written was observed: nothing is left to write.
LEMMA Piped ==
  ASSUME Typed, wire.failures = 0, NEW c \in Seq(Units), relay => wire = Feed(Seen, c), Pipe(c)
  PROVE  (relay => Seen' = wire) /\ (~relay => Seen' = Seen)
<1>1. written \in Seq(Units)
  BY DEF Typed, TypeOK
<1>2. ASSUME relay PROVE Seen' = wire
  <2>1. written' = written \o c
    BY <1>2 DEF Pipe
  <2>2. wire = Feed(Feed(Fresh, written), c)
    BY <1>2 DEF Seen
  <2>3. Feed(Fresh, written \o c) = Feed(Feed(Fresh, written), c)
    <3>1. Feed(Feed(Fresh, written), c).failures = Fresh.failures
      BY <2>2, FreshWire
    <3> QED BY <1>1, <3>1, FreshWire, ChunksDoNotMatter
  <2> QED BY <2>1, <2>2, <2>3 DEF Seen
<1>3. ASSUME ~relay PROVE Seen' = Seen
  BY <1>3 DEF Pipe, Seen
<1> QED BY <1>2, <1>3

LEMMA GateNext == Typed /\ GateHeld /\ [Next]_vars => GateHeld'
<1> SUFFICES ASSUME Typed, GateHeld, [Next]_vars PROVE GateHeld'
  OBVIOUS
<1>1. CASE Read \/ ReadShut \/ Observe \/ Prepare \/ WriteChunk
  BY <1>1 DEF GateHeld, Read, ReadShut, Observe, Prepare, WriteChunk, owner
<1>2. CASE ReadReply \/ WriteReply \/ WriteFails
  BY <1>2 DEF GateHeld, ReadReply, WriteReply, WriteFails, input, owner
<1>3. CASE Unsubscribe \/ WriteFrame \/ Drop \/ JoinInput \/ JoinOutput
  BY <1>3 DEF GateHeld, Unsubscribe, WriteFrame, Drop, JoinInput, JoinOutput, input
<1>4. CASE Relay \/ Reply \/ ProxyDies \/ UNCHANGED vars
  BY <1>4 DEF GateHeld, Relay, Reply, ProxyDies, vars, input, owner
<1> QED BY <1>1, <1>2, <1>3, <1>4 DEF Next

LEMMA FollowingNext == Typed /\ GateHeld /\ Following /\ [Next]_vars => Following'
<1> SUFFICES ASSUME Typed, GateHeld, Following, [Next]_vars PROVE Following'
  OBVIOUS
<1>0. /\ wire \in Wires /\ written \in Seq(Units) /\ chunk \in Seq(Units) /\ relay \in BOOLEAN
      /\ gate \in {"free", "input", "owner"}
  BY DEF Typed, TypeOK
<1>01. OwnUnits = Encode(OwnFrame) /\ OwnUnits \in Seq(Units)
  BY OwnEncoded
<1>02. ASSUME written' = written PROVE Seen' = Seen
  BY <1>02 DEF Seen
<1>1. ASSUME wire' = wire, written' = written, relay' = relay, gate' = gate,
             gate = "input" => chunk' = chunk
      PROVE  Following'
  BY <1>02, <1>1 DEF Following
<1>2. CASE Read \/ ReadShut \/ Prepare
  <2>1. gate = "input" => chunk' = chunk
    BY <1>2 DEF Read, ReadShut, Prepare, GateHeld
  <2>2. wire' = wire /\ written' = written /\ relay' = relay /\ gate' = gate
    BY <1>2 DEF Read, ReadShut, Prepare
  <2> QED BY <1>1, <2>1, <2>2
<1>3. CASE ReadReply \/ WriteReply \/ WriteFails \/ JoinInput \/ JoinOutput \/ Relay \/ Reply \/ UNCHANGED vars
  <2>1. wire' = wire /\ written' = written /\ relay' = relay /\ gate' = gate /\ chunk' = chunk
    BY <1>3 DEF ReadReply, WriteReply, WriteFails, JoinInput, JoinOutput, Relay, Reply, vars, input, owner
  <2> QED BY <1>1, <2>1
<1>4. CASE Observe
  <2> SUFFICES ASSUME wire'.failures = 0
               PROVE  /\ relay' /\ gate' = "free" => wire' = Seen'
                      /\ relay' /\ gate' = "input" => wire' = Feed(Seen', chunk')
                      /\ relay' /\ gate' = "owner" => wire' = Feed(Seen', OwnUnits)
                      /\ ~relay' => IsPrefix(Seen'.messages, wire'.messages)
    BY DEF Following
  <2>1. /\ gate = "free" /\ ObserveUnits(chunk) /\ gate' = "input" /\ chunk' = chunk
        /\ written' = written /\ relay' = relay
    BY <1>4 DEF Observe
  <2>2. (relay => wire' = Feed(Seen, chunk)) /\ (~relay => IsPrefix(Seen.messages, wire'.messages))
    BY <1>0, <2>1, Observed
  <2> QED BY <1>02, <2>1, <2>2
<1>5. CASE Unsubscribe
  <2> SUFFICES ASSUME wire'.failures = 0
               PROVE  /\ relay' /\ gate' = "free" => wire' = Seen'
                      /\ relay' /\ gate' = "input" => wire' = Feed(Seen', chunk')
                      /\ relay' /\ gate' = "owner" => wire' = Feed(Seen', OwnUnits)
                      /\ ~relay' => IsPrefix(Seen'.messages, wire'.messages)
    BY DEF Following
  <2>1. /\ gate = "free" /\ ObserveUnits(OwnUnits) /\ gate' = "owner"
        /\ written' = written /\ relay' = relay
    BY <1>01, <1>5 DEF Unsubscribe
  <2>2. (relay => wire' = Feed(Seen, OwnUnits)) /\ (~relay => IsPrefix(Seen.messages, wire'.messages))
    BY <1>01, <2>1, Observed
  <2> QED BY <1>02, <2>1, <2>2
<1>6. ASSUME NEW c \in Seq(Units), wire.failures = 0 => (relay => wire = Feed(Seen, c)), Pipe(c),
             wire' = wire, relay' = relay, gate' = "free"
      PROVE  Following'
  <2> SUFFICES ASSUME wire.failures = 0
               PROVE  (relay => wire = Seen') /\ (~relay => IsPrefix(Seen'.messages, wire.messages))
    BY <1>6 DEF Following
  <2>1. (relay => Seen' = wire) /\ (~relay => Seen' = Seen)
    BY <1>6, Piped
  <2> QED BY <2>1 DEF Following
<1>7. CASE WriteChunk
  <2>1. inputPc = "write" /\ Pipe(chunk) /\ wire' = wire /\ relay' = relay /\ gate' = "free"
    BY <1>7 DEF WriteChunk
  <2>2. gate = "input"
    BY <2>1 DEF GateHeld
  <2> QED BY <1>0, <1>6, <2>1, <2>2 DEF Following
<1>8. CASE WriteFrame
  <2>1. ownerPc = "write" /\ Pipe(OwnUnits) /\ wire' = wire /\ relay' = relay /\ gate' = "free"
    BY <1>01, <1>8 DEF WriteFrame
  <2>2. gate = "owner"
    BY <2>1 DEF GateHeld
  <2> QED BY <1>01, <1>6, <2>1, <2>2 DEF Following
<1>9. CASE Drop \/ ProxyDies
  <2>1. wire' = wire /\ written' = written /\ ~relay'
    BY <1>9 DEF Drop, ProxyDies
  <2> SUFFICES ASSUME wire.failures = 0 PROVE IsPrefix(Seen.messages, wire.messages)
    BY <1>02, <2>1 DEF Following
  <2>2. Seen \in Wires /\ Seen.messages \in Messages
    BY <1>0, SeenIs
  <2>3. ASSUME NEW c \in Seq(Units) PROVE IsPrefix(Seen.messages, Feed(Seen, c).messages)
    BY <2>2, Feeding DEF Grows
  <2>4. IsPrefix(Seen.messages, Seen.messages)
    BY <2>2, PrefixSelf DEF Messages
  <2> QED BY <1>0, <1>01, <2>3, <2>4 DEF Following
<1> QED BY <1>2, <1>3, <1>4, <1>5, <1>7, <1>8, <1>9 DEF Next

LEMMA WaitsNext == Typed /\ Waits(wire) /\ [Next]_vars => Waits(wire)'
<1> SUFFICES ASSUME Typed, Waits(wire), [Next]_vars PROVE Waits(wire)'
  OBVIOUS
<1>0. wire \in Wires /\ attempts \in Nat /\ chunk \in Seq(Units)
  BY DEF Typed, TypeOK
<1>1. ASSUME NEW c \in Seq(Units), ObserveUnits(c) PROVE Waits(wire)'
  BY <1>0, <1>1, Observing
<1>2. CASE Observe
  BY <1>0, <1>1, <1>2 DEF Observe
<1>3. CASE Unsubscribe
  BY <1>1, <1>3, OwnEncoded DEF Unsubscribe
<1>4. CASE ~(Observe \/ Unsubscribe)
  <2>1. wire' = wire
    BY <1>4 DEF Next, Read, ReadShut, Prepare, WriteChunk, ReadReply, WriteReply, WriteFails,
                WriteFrame, Drop, JoinInput, JoinOutput, Relay, Reply, ProxyDies, vars
  <2> QED BY <2>1
<1> QED BY <1>2, <1>3, <1>4

LEMMA HandedNext == Ahead /\ [Next]_vars => Handed'
<1> SUFFICES ASSUME Ahead, [Next]_vars PROVE Handed'
  OBVIOUS
<1>0. /\ wire \in Wires /\ written \in Seq(Units) /\ chunk \in Seq(Units) /\ relay \in BOOLEAN
      /\ attempts \in Nat /\ prepared \in Nat /\ Waits(wire) /\ Typed /\ GateHeld /\ Following /\ Handed
  BY DEF Ahead, Typed, TypeOK
<1>01. OwnUnits = Encode(OwnFrame) /\ OwnUnits \in Seq(Units)
  BY OwnEncoded
<1>02. ASSUME written' = written PROVE Seen' = Seen
  BY <1>02 DEF Seen
<1>03. Resumes(Seen.messages) \in Nat
  BY <1>0, SeenIs
<1>1. ASSUME wire' = wire, written' = written, attempts' = attempts, prepared' = prepared,
             inputPc' # "prepare" => inputPc # "prepare"
      PROVE  Handed'
  BY <1>0, <1>02, <1>1 DEF Handed
<1>2. CASE Read \/ ReadShut
  BY <1>1, <1>2 DEF Read, ReadShut
<1>3. CASE ReadReply \/ WriteReply \/ WriteFails \/ Drop \/ JoinInput \/ JoinOutput
           \/ Relay \/ Reply \/ ProxyDies \/ UNCHANGED vars
  <2>1. wire' = wire /\ written' = written /\ attempts' = attempts /\ prepared' = prepared /\ inputPc' = inputPc
    BY <1>3 DEF ReadReply, WriteReply, WriteFails, Drop, JoinInput, JoinOutput, Relay, Reply,
                ProxyDies, vars, input
  <2> QED BY <1>1, <2>1
<1>4. CASE Observe
  <2> SUFFICES ASSUME wire'.failures = 0
               PROVE  /\ prepared' + attempts' = Resumes(wire'.messages)
                      /\ inputPc' # "prepare" => attempts' = 0
                      /\ Resumes(Seen'.messages) <= prepared'
    BY DEF Handed
  <2>1. /\ gate = "free" /\ ObserveUnits(chunk) /\ prepared' = prepared /\ written' = written
        /\ inputPc' = IF attempts' = 0 THEN "write" ELSE "prepare"
    BY <1>4 DEF Observe
  <2>2. wire.failures = 0
    BY <1>0, <2>1, Observed
  <2>3. /\ attempts' = attempts + Resumes(wire'.messages) - Resumes(wire.messages)
        /\ Resumes(wire.messages) \in Nat /\ Resumes(wire'.messages) \in Nat
    BY <1>0, <2>1, Observing
  <2>4. prepared + attempts = Resumes(wire.messages) /\ Resumes(Seen.messages) <= prepared
    BY <1>0, <2>2 DEF Handed
  <2>5. prepared + attempts' = Resumes(wire'.messages)
    <3>1. attempts' \in Nat
      BY <1>0, <2>1, Observing
    <3> DEFINE q == Resumes(wire.messages)
               r == Resumes(wire'.messages)
               b == attempts'
    <3>2. /\ prepared \in Nat /\ attempts \in Nat /\ b \in Nat /\ q \in Nat /\ r \in Nat
          /\ prepared + attempts = q /\ b = attempts + r - q
      BY <1>0, <2>3, <2>4, <3>1
    <3> HIDE DEF q, r, b
    <3>3. prepared + b = r
      BY <3>2
    <3> QED BY <3>3 DEF q, r, b
  <2> QED BY <1>02, <2>1, <2>4, <2>5
<1>5. CASE Prepare
  <2> SUFFICES ASSUME wire.failures = 0
               PROVE  /\ prepared' + attempts' = Resumes(wire.messages)
                      /\ inputPc' # "prepare" => attempts' = 0
                      /\ Resumes(Seen.messages) <= prepared'
    BY <1>02, <1>5 DEF Handed, Prepare
  <2>1. prepared' = prepared + attempts /\ attempts' = 0
    BY <1>5 DEF Prepare
  <2>2. prepared + attempts = Resumes(wire.messages) /\ Resumes(Seen.messages) <= prepared
    BY <1>0 DEF Handed
  <2>3. prepared' + 0 = prepared + attempts /\ Resumes(Seen.messages) <= prepared + attempts
    BY <1>0, <1>03, <2>1, <2>2
  <2> QED BY <2>1, <2>2, <2>3
<1>6. CASE Unsubscribe
  <2> SUFFICES ASSUME wire'.failures = 0
               PROVE  /\ prepared' + attempts' = Resumes(wire'.messages)
                      /\ inputPc' # "prepare" => attempts' = 0
                      /\ Resumes(Seen'.messages) <= prepared'
    BY DEF Handed
  <2>1. /\ gate = "free" /\ ObserveUnits(OwnUnits) /\ prepared' = prepared /\ written' = written
        /\ inputPc' = inputPc
    BY <1>01, <1>6 DEF Unsubscribe
  <2>2. wire.failures = 0
    BY <1>0, <1>01, <2>1, Observed
  <2>3. /\ attempts' = attempts + Resumes(wire'.messages) - Resumes(wire.messages)
        /\ Resumes(wire.messages) \in Nat /\ wire' = Feed(wire, OwnUnits)
    BY <1>0, <1>01, <2>1, Observing DEF ObserveUnits
  <2>4. Resumes(wire'.messages) = Resumes(wire.messages)
    BY <1>0, <2>2, <2>3, OwnUncounted
  <2>5. attempts' = attempts
    BY <1>0, <2>3, <2>4
  <2> QED BY <1>0, <1>02, <2>1, <2>2, <2>4, <2>5 DEF Handed
<1>7. ASSUME NEW c \in Seq(Units), wire.failures = 0 => (relay => wire = Feed(Seen, c)), Pipe(c),
             inputPc # "prepare", inputPc' # "prepare",
             wire' = wire, attempts' = attempts, prepared' = prepared
      PROVE  Handed'
  <2> SUFFICES ASSUME wire.failures = 0
               PROVE  /\ prepared + attempts = Resumes(wire.messages) /\ attempts = 0
                      /\ Resumes(Seen'.messages) <= prepared
    BY <1>7 DEF Handed
  <2>1. (relay => Seen' = wire) /\ (~relay => Seen' = Seen)
    BY <1>0, <1>7, Piped
  <2>2. /\ prepared + attempts = Resumes(wire.messages) /\ attempts = 0
        /\ Resumes(Seen.messages) <= prepared
    BY <1>0, <1>7 DEF Handed
  <2>3. Resumes(wire.messages) <= prepared
    BY <1>0, <2>2
  <2> QED BY <1>0, <2>1, <2>2, <2>3
<1>8. CASE WriteChunk
  <2>1. /\ inputPc = "write" /\ Pipe(chunk) /\ wire' = wire /\ attempts' = attempts
        /\ prepared' = prepared /\ inputPc' # "prepare"
    BY <1>8 DEF WriteChunk
  <2>2. gate = "input"
    BY <1>0, <2>1 DEF GateHeld
  <2> QED BY <1>0, <1>7, <2>1, <2>2 DEF Following
<1>9. CASE WriteFrame
  <2>1. /\ ownerPc = "write" /\ Pipe(OwnUnits) /\ wire' = wire /\ attempts' = attempts
        /\ prepared' = prepared /\ inputPc' = inputPc
    BY <1>01, <1>9 DEF WriteFrame, input
  <2>2. gate = "owner" /\ inputPc # "prepare"
    BY <1>0, <2>1 DEF GateHeld
  <2> QED BY <1>0, <1>01, <1>7, <2>1, <2>2 DEF Following
<1> QED BY <1>2, <1>3, <1>4, <1>5, <1>6, <1>8, <1>9 DEF Next

LEMMA AheadFirst == Init => Ahead
<1> SUFFICES ASSUME Init PROVE Ahead
  OBVIOUS
<1>1. wire = Fresh /\ gate = "free" /\ inputPc = "read" /\ ownerPc = "loop" /\ relay = TRUE
      /\ attempts = 0 /\ prepared = 0
  BY DEF Init
<1>2. Seen = Fresh
  BY NothingFed DEF Init, Seen
<1>3. Typed
  BY TypedFirst
<1>4. Waits(wire) /\ wire.messages = <<>> /\ Resumes(wire.messages) = 0
  BY <1>1, FreshWire
<1>5. GateHeld
  BY <1>1 DEF GateHeld
<1>6. Following
  BY <1>1, <1>2 DEF Following
<1>7. Handed
  <2>1. prepared + attempts = 0 /\ Resumes(Seen.messages) <= prepared
    BY <1>1, <1>2, <1>4
  <2> QED BY <1>1, <1>4, <2>1 DEF Handed
<1> QED BY <1>3, <1>4, <1>5, <1>6, <1>7 DEF Ahead

LEMMA AheadNext == Ahead /\ [Next]_vars => Ahead'
<1> SUFFICES ASSUME Ahead, [Next]_vars PROVE Ahead'
  OBVIOUS
<1>1. Typed /\ Waits(wire) /\ GateHeld /\ Following /\ Handed
  BY DEF Ahead
<1>2. Typed'
  BY <1>1, TypedNext
<1>3. Waits(wire)'
  BY <1>1, WaitsNext
<1>4. GateHeld'
  BY <1>1, GateNext
<1>5. Following'
  BY <1>1, FollowingNext
<1>6. Handed'
  BY HandedNext
<1> QED BY <1>2, <1>3, <1>4, <1>5, <1>6 DEF Ahead

\* The order of copy_observed and forward_client_chunk, observe and then write under one gate:
\* what the server can read the observer has read before, message by message, for every stream of
\* the client's, cut into chunks anywhere, with unsubscribe frames of unsubscribe_idle_threads put
\* in between, and whenever the proxy dies.
THEOREM ObserverIsAhead == Spec => []AheadOfServer
<1>1. Ahead => AheadOfServer
  <2> SUFFICES ASSUME Ahead, wire.failures = 0 PROVE IsPrefix(Seen.messages, wire.messages)
    BY DEF AheadOfServer, Seen
  <2>1. /\ wire \in Wires /\ written \in Seq(Units) /\ chunk \in Seq(Units) /\ relay \in BOOLEAN
        /\ gate \in {"free", "input", "owner"} /\ Following
    BY DEF Ahead, Typed, TypeOK
  <2>2. Seen \in Wires /\ Seen.messages \in Messages
    BY <2>1, SeenIs
  <2>3. ASSUME NEW c \in Seq(Units) PROVE IsPrefix(Seen.messages, Feed(Seen, c).messages)
    BY <2>2, Feeding DEF Grows
  <2>4. IsPrefix(Seen.messages, Seen.messages)
    BY <2>2, PrefixSelf DEF Messages
  <2> QED BY <2>1, <2>3, <2>4, OwnEncoded DEF Following
<1> QED BY <1>1, AheadFirst, AheadNext, PTL DEF Spec

\* forward_client_chunk hands every thread/resume it has observed to the takeover before it writes
\* the chunk that completes it: no thread/resume reaches the server unprepared, and an unsubscribe
\* frame is never taken for one.
THEOREM TakeoverComesFirst == Spec => []ResumeIsPrepared
<1>1. Ahead => ResumeIsPrepared
  BY DEF Ahead, Handed, ResumeIsPrepared, Seen
<1> QED BY <1>1, AheadFirst, AheadNext, PTL DEF Spec

-----------------------------------------------------------------------------
(* What the client sends, frame by frame.                                   *)

LEMMA FlattenedBy ==
  ASSUME NEW S, NEW ss \in Seq(Seq(S)), Len(ss) # 0
  PROVE  \E f : Joins(f, ss, Len(ss)) /\ FlattenSeq(ss) = f[Len(ss)]
<1>1. Len(ss) \in Nat
  OBVIOUS
<1> DEFINE joined == CHOOSE f : f = [i \in 1..Len(ss) |-> IF i = 1 THEN ss[i] ELSE f[i - 1] \o ss[i]]
<1>2. FlattenSeq(ss) = joined[Len(ss)]
  BY Zenon DEF FlattenSeq
<1>3. \E f : f = [i \in 1..Len(ss) |-> IF i = 1 THEN ss[i] ELSE f[i - 1] \o ss[i]]
  BY <1>1, JoinsExist, Zenon DEF Joins
<1>4. Joins(joined, ss, Len(ss))
  BY <1>3, Zenon DEF Joins
<1> HIDE DEF joined
<1> QED BY <1>2, <1>4

LEMMA JoinsAgree ==
  ASSUME NEW ss, NEW tt, NEW f, NEW g, NEW n \in Nat, NEW m \in Nat
  PROVE  n <= m /\ Joins(f, ss, n) /\ Joins(g, tt, m) /\ (\A i \in 1..n : ss[i] = tt[i])
           => \A i \in 1..n : f[i] = g[i]
<1> SUFFICES ASSUME n <= m, Joins(f, ss, n), Joins(g, tt, m), \A i \in 1..n : ss[i] = tt[i]
             PROVE  \A i \in 1..n : f[i] = g[i]
  OBVIOUS
<1> DEFINE N == {k \in Nat : k \in 1..n => f[k] = g[k]}
<1>1. \A i \in 1..n : f[i] = IF i = 1 THEN ss[i] ELSE f[i - 1] \o ss[i]
  BY Zenon DEF Joins
<1>2. \A i \in 1..m : g[i] = IF i = 1 THEN tt[i] ELSE g[i - 1] \o tt[i]
  BY Zenon DEF Joins
<1>3. 0 \in N
  OBVIOUS
<1>4. ASSUME NEW k \in N PROVE k + 1 \in N
  <2>1. k \in Nat /\ k + 1 \in Nat /\ (k \in 1..n => f[k] = g[k])
    OBVIOUS
  <2>2. ASSUME k + 1 \in 1..n PROVE f[k + 1] = g[k + 1]
    <3>1. k + 1 \in 1..m /\ ss[k + 1] = tt[k + 1]
      BY <2>1, <2>2
    <3>2. CASE k = 0
      BY <1>1, <1>2, <2>2, <3>1, <3>2
    <3>3. CASE k # 0
      <4>1. k \in 1..n /\ k + 1 # 1 /\ (k + 1) - 1 = k
        BY <2>1, <2>2, <3>3
      <4>2. f[k + 1] = f[k] \o ss[k + 1] /\ g[k + 1] = g[k] \o tt[k + 1]
        BY <1>1, <1>2, <2>2, <3>1, <4>1
      <4> QED BY <2>1, <3>1, <4>1, <4>2
    <3> QED BY <3>2, <3>3
  <2> QED BY <2>1, <2>2
<1>5. N = Nat
  <2>1. N \subseteq Nat
    OBVIOUS
  <2> HIDE DEF N
  <2> QED BY <1>3, <1>4, <2>1, NatSet
<1> QED BY <1>5

LEMMA FlattenedMore ==
  ASSUME NEW S, NEW ss \in Seq(Seq(S)), NEW e \in Seq(S)
  PROVE  FlattenSeq(Append(ss, e)) = FlattenSeq(ss) \o e
<1> DEFINE tt == Append(ss, e)
           n == Len(ss)
<1>1. tt \in Seq(Seq(S)) /\ n \in Nat /\ Len(tt) = n + 1 /\ tt[n + 1] = e /\ \A i \in 1..n : tt[i] = ss[i]
  OBVIOUS
<1> HIDE DEF tt
<1>2. Len(tt) # 0
  BY <1>1
<1>3. PICK g : Joins(g, tt, Len(tt)) /\ FlattenSeq(tt) = g[Len(tt)]
  BY <1>1, <1>2, FlattenedBy
<1>4. \A i \in 1..Len(tt) : g[i] = IF i = 1 THEN tt[i] ELSE g[i - 1] \o tt[i]
  BY <1>3, Zenon DEF Joins
<1>5. CASE n = 0
  <2>1. FlattenSeq(ss) = ss
    BY <1>5, Zenon DEF FlattenSeq, n
  <2>2. ss = <<>>
    BY <1>5
  <2>3. g[1] = e
    BY <1>1, <1>4, <1>5
  <2>4. FlattenSeq(tt) = e
    BY <1>1, <1>3, <1>5, <2>3
  <2>5. <<>> \o e = e
    OBVIOUS
  <2> QED BY <2>1, <2>2, <2>4, <2>5 DEF tt
<1>6. CASE n # 0
  <2>1. PICK f : Joins(f, ss, Len(ss)) /\ FlattenSeq(ss) = f[Len(ss)]
    BY <1>6, FlattenedBy
  <2>2. n <= Len(tt) /\ Len(tt) \in Nat /\ n \in 1..n
    BY <1>1, <1>6
  <2>3. \A i \in 1..n : f[i] = g[i]
    <3> DEFINE m == Len(tt)
               ll == ss
    <3>1. Joins(f, ll, n) /\ Joins(g, tt, m)
      BY <1>3, <2>1
    <3>2. n \in Nat /\ m \in Nat /\ n <= m
      BY <1>1, <2>2
    <3>3. \A i \in 1..n : ll[i] = tt[i]
      BY <1>1
    <3> HIDE DEF n, m, ll
    <3> QED BY <3>1, <3>2, <3>3, JoinsAgree
  <2>4. g[n + 1] = g[n] \o tt[n + 1]
    <3>1. n + 1 \in 1..Len(tt) /\ n + 1 # 1 /\ (n + 1) - 1 = n
      BY <1>1, <1>6
    <3> QED BY <1>4, <3>1
  <2>5. FlattenSeq(tt) = g[n] \o e
    BY <1>1, <1>3, <2>4
  <2>6. FlattenSeq(ss) = g[n]
    BY <2>1, <2>2, <2>3
  <2> QED BY <2>5, <2>6 DEF tt
<1> QED BY <1>5, <1>6

\* The first n of the sequences F, one after the other.
Joined(F, n) == FlattenSeq([j \in 1..n |-> F[j]])

LEMMA JoinedNone == ASSUME NEW F PROVE Joined(F, 0) = <<>>
<1> DEFINE e == [j \in 1..0 |-> F[j]]
<1>1. e = <<>> /\ Len(e) = 0
  OBVIOUS
<1>2. FlattenSeq(e) = e
  <2> HIDE DEF e
  <2> QED BY <1>1, Zenon DEF FlattenSeq
<1> QED BY <1>1, <1>2 DEF Joined

LEMMA JoinedMore ==
  ASSUME NEW S, NEW F, NEW n \in Nat, \A i \in 1..n + 1 : F[i] \in Seq(S)
  PROVE  /\ Joined(F, n) \in Seq(S) /\ Joined(F, n + 1) \in Seq(S)
         /\ Joined(F, n + 1) = Joined(F, n) \o F[n + 1]
<1> DEFINE ss == [j \in 1..n |-> F[j]]
           tt == [j \in 1..n + 1 |-> F[j]]
<1>1. ss \in Seq(Seq(S)) /\ tt \in Seq(Seq(S)) /\ F[n + 1] \in Seq(S)
  OBVIOUS
<1>2. tt = Append(ss, F[n + 1])
  OBVIOUS
<1>3. Joined(F, n) = FlattenSeq(ss) /\ Joined(F, n + 1) = FlattenSeq(tt)
  BY DEF Joined
<1> HIDE DEF ss, tt
<1> QED BY <1>1, <1>2, <1>3, Flattened, FlattenedMore

Parts(fs) == [i \in DOMAIN fs |-> Encode(fs[i])]

\* The units of the first k frames, and how many there are.
Upto(fs, k) == Joined(Parts(fs), k)
Offset(fs, k) == Len(Upto(fs, k))
All(fs) == Upto(fs, Len(fs))

LEMMA StreamIs ==
  ASSUME NEW fs \in Streams
  PROVE  /\ fs \in Seq(Frames) /\ IsStream(fs) /\ DOMAIN fs = 1..Len(fs) /\ Len(fs) \in Nat
         /\ \A i \in 1..Len(fs) : fs[i] \in Frames /\ (fs[i].kind # "line" => Len(fs[i].payload) <= MaxWire)
<1>1. fs \in Seq(Frames) /\ IsStream(fs)
  BY ForwardingAssumption
<1>2. DOMAIN fs = 1..Len(fs) /\ Len(fs) \in Nat /\ \A i \in 1..Len(fs) : fs[i] \in Frames
  BY <1>1
<1>3. \A i \in 1..Len(fs) : fs[i].kind # "line" => Len(fs[i].payload) <= MaxWire
  BY <1>1, <1>2 DEF IsStream
<1> QED BY <1>1, <1>2, <1>3

LEMMA PayloadIs ==
  ASSUME NEW f \in Frames
  PROVE  /\ f.payload \in Seq(Units) /\ Len(f.payload) \in Nat
         /\ \A i \in 1..Len(f.payload) :
               f.payload[i] \in Units /\ f.payload[i][1] = "letter" /\ f.payload[i] # Newline /\ f.payload[i] # Get[1]
<1> DEFINE p == f.payload
           L == {Letter(c) : c \in Letters}
<1>1. p \in Seq(L)
  BY DEF Frames
<1>2. L \subseteq Units
  BY DEF Units
<1>3. \A u \in L : u[1] = "letter" /\ u # Newline /\ u # Get[1]
  BY DEF Letter, Newline, Get
<1> HIDE DEF p, L
<1>4. p \in Seq(Units)
  BY <1>1, <1>2, SeqMonotonic
<1>5. Len(p) \in Nat /\ \A i \in 1..Len(p) : p[i] \in L
  BY <1>1
<1> QED BY <1>2, <1>3, <1>4, <1>5 DEF p

LEMMA HandshakeIs ==
  ASSUME NEW f \in Frames, f.kind = "handshake"
  PROVE  /\ Len(Encode(f)) = 3
         /\ Encode(f)[1] = Get[1] /\ Encode(f)[2] = Get[2] /\ Encode(f)[3] = Blank
<1>1. Encode(f) = Get \o <<Blank>>
  BY DEF Encode
<1>2. Get = <<Get[1], Get[2]>>
  BY DEF Get
<1> DEFINE a == Get[1]
           b == Get[2]
           c == Blank
<1>3. Encode(f) = <<a, b>> \o <<c>>
  BY <1>1, <1>2
<1> HIDE DEF a, b, c
<1> DEFINE h == <<a, b>>
           t == <<c>>
           S == {a, b, c}
<1>4. h \in Seq(S) /\ Len(h) = 2 /\ h[1] = a /\ h[2] = b /\ t \in Seq(S) /\ Len(t) = 1 /\ t[1] = c
  OBVIOUS
<1> HIDE DEF h, t, S
<1>5. Len(h \o t) = 3 /\ (h \o t)[1] = a /\ (h \o t)[2] = b /\ (h \o t)[3] = c
  <2> DEFINE z == h \o t
  <2>1. Len(z) = Len(h) + Len(t) /\ \A i \in 1..Len(h) + Len(t) : z[i] = IF i <= Len(h) THEN h[i] ELSE t[i - Len(h)]
    BY <1>4, ConcatProperties
  <2> HIDE DEF z
  <2>2. \A i \in 1..3 : z[i] = IF i <= 2 THEN h[i] ELSE t[i - 2]
    BY <1>4, <2>1
  <2>3. Len(z) = 3 /\ z[1] = h[1] /\ z[2] = h[2] /\ z[3] = t[1]
    BY <1>4, <2>1, <2>2
  <2> QED BY <1>4, <2>3 DEF z
<1>6. Encode(f) = h \o t
  BY <1>3 DEF h, t
<1> QED BY <1>5, <1>6 DEF a, b, c

LEMMA LineIs ==
  ASSUME NEW f \in Frames, f.kind = "line"
  PROVE  /\ Len(Encode(f)) = Len(f.payload) + 1
         /\ \A i \in 1..Len(f.payload) : Encode(f)[i] = f.payload[i]
         /\ Encode(f)[Len(f.payload) + 1] = Newline
<1>1. Encode(f) = Append(f.payload, Newline)
  BY DEF Encode
<1>2. f.payload \in Seq(Units) /\ Newline \in Units
  BY PayloadIs DEF Units
<1> QED BY <1>1, <1>2

LEMMA LongIs ==
  ASSUME NEW f \in Frames, f.kind = "long"
  PROVE  Len(Encode(f)) = 2 /\ Encode(f)[1] = First("text") /\ Encode(f)[2] = Length(MaxWire + 1)
<1>1. Encode(f) = <<First("text"), Length(MaxWire + 1)>>
  BY DEF Encode
<1> QED BY <1>1

LEMMA FrameIs ==
  ASSUME NEW f \in Frames, f.kind \notin {"handshake", "line", "long"}
  PROVE  /\ Len(Encode(f)) = 2 + Len(f.payload) /\ f.kind \in Kinds
         /\ Encode(f)[1] = First(f.kind) /\ Encode(f)[2] = Length(Len(f.payload))
         /\ \A i \in 1..Len(f.payload) : Encode(f)[2 + i] = f.payload[i]
<1> DEFINE a == First(f.kind)
           b == Length(Len(f.payload))
           p == f.payload
           S == Units \cup {a, b}
<1>1. Encode(f) = <<a, b>> \o p
  BY DEF Encode
<1>2. p \in Seq(Units)
  BY PayloadIs
<1>3. f.kind \in Kinds
  BY DEF Frames
<1>4. a \in S /\ b \in S /\ Units \subseteq S
  OBVIOUS
<1> HIDE DEF a, b, S, p
<1>5. p \in Seq(S)
  BY <1>2, <1>4, SeqMonotonic
<1>6. <<a, b>> \in Seq(S) /\ Len(<<a, b>>) = 2 /\ <<a, b>>[1] = a /\ <<a, b>>[2] = b
  BY <1>4
<1>7. /\ Len(<<a, b>> \o p) = 2 + Len(p) /\ (<<a, b>> \o p)[1] = a /\ (<<a, b>> \o p)[2] = b
      /\ \A i \in 1..Len(p) : (<<a, b>> \o p)[2 + i] = p[i]
  <2> DEFINE h == <<a, b>>
             s == h \o p
  <2>1. h \in Seq(S) /\ Len(h) = 2 /\ h[1] = a /\ h[2] = b /\ Len(p) \in Nat
    BY <1>5, <1>6
  <2> HIDE DEF h
  <2>2. Len(s) = Len(h) + Len(p) /\ \A i \in 1..Len(h) + Len(p) : s[i] = IF i <= Len(h) THEN h[i] ELSE p[i - Len(h)]
    BY <1>5, <2>1, ConcatProperties
  <2> HIDE DEF s
  <2>3. Len(s) = 2 + Len(p) /\ s[1] = a /\ s[2] = b
    BY <2>1, <2>2
  <2>4. ASSUME NEW i \in 1..Len(p) PROVE s[2 + i] = p[i]
    <3>1. 2 + i \in 1..Len(h) + Len(p) /\ ~(2 + i <= Len(h)) /\ (2 + i) - Len(h) = i
      BY <2>1
    <3> QED BY <2>2, <3>1
  <2> QED BY <2>3, <2>4 DEF h, s
<1> QED BY <1>1, <1>3, <1>7 DEF a, b, p

LEMMA PartIs ==
  ASSUME NEW fs \in Streams, NEW i \in 1..Len(fs)
  PROVE  /\ Encode(fs[i]) \in Seq(Units) /\ Len(Encode(fs[i])) \in Nat /\ Len(Encode(fs[i])) >= 1
         /\ Parts(fs)[i] = Encode(fs[i])
<1>1. fs[i] \in Frames /\ (fs[i].kind # "line" => Len(fs[i].payload) <= MaxWire)
  BY StreamIs
<1>2. Encode(fs[i]) \in Seq(Units)
  BY <1>1, Encodes
<1>3. Parts(fs)[i] = Encode(fs[i])
  BY StreamIs DEF Parts
<1>4. Len(fs[i].payload) \in Nat
  BY <1>1, PayloadIs
<1>5. Len(Encode(fs[i])) >= 1
  BY <1>1, <1>4, HandshakeIs, LineIs, LongIs, FrameIs
<1> QED BY <1>2, <1>3, <1>5

LEMMA UptoMore ==
  ASSUME NEW fs \in Streams, NEW k \in 0..Len(fs) - 1
  PROVE  /\ Upto(fs, k) \in Seq(Units) /\ Upto(fs, k + 1) \in Seq(Units)
         /\ Upto(fs, k + 1) = Upto(fs, k) \o Encode(fs[k + 1])
         /\ Offset(fs, k) \in Nat /\ Offset(fs, k + 1) = Offset(fs, k) + Len(Encode(fs[k + 1]))
         /\ k + 1 \in 1..Len(fs)
<1>1. Len(fs) \in Nat /\ k \in Nat /\ k + 1 \in 1..Len(fs) /\ \A i \in 1..k + 1 : i \in 1..Len(fs)
  BY StreamIs
<1> DEFINE F == Parts(fs)
<1>2. \A i \in 1..k + 1 : F[i] \in Seq(Units)
  BY <1>1, PartIs
<1>3. F[k + 1] = Encode(fs[k + 1]) /\ Encode(fs[k + 1]) \in Seq(Units)
  BY <1>1, PartIs
<1> HIDE DEF F
<1>4. /\ Joined(F, k) \in Seq(Units) /\ Joined(F, k + 1) \in Seq(Units)
      /\ Joined(F, k + 1) = Joined(F, k) \o F[k + 1]
  BY <1>1, <1>2, JoinedMore
<1>5. Upto(fs, k) = Joined(F, k) /\ Upto(fs, k + 1) = Joined(F, k + 1)
  BY DEF Upto, F
<1> DEFINE a == Upto(fs, k)
           b == Encode(fs[k + 1])
<1>6. a \in Seq(Units) /\ b \in Seq(Units) /\ Upto(fs, k + 1) = a \o b
  BY <1>3, <1>4, <1>5
<1> HIDE DEF a, b
<1>7. Len(a \o b) = Len(a) + Len(b) /\ Len(a) \in Nat
  BY <1>6
<1> QED BY <1>1, <1>4, <1>5, <1>6, <1>7 DEF a, b, Offset

LEMMA UptoPrefix ==
  ASSUME NEW fs \in Streams, NEW k \in 0..Len(fs), NEW j \in 0..k
  PROVE  /\ Upto(fs, j) \in Seq(Units) /\ Offset(fs, j) \in Nat
         /\ Offset(fs, j) <= Offset(fs, k) /\ (j < k => Offset(fs, j) < Offset(fs, k))
         /\ \A i \in 1..Offset(fs, j) : Upto(fs, k)[i] = Upto(fs, j)[i]
<1> DEFINE n == Len(fs)
           O(i) == Offset(fs, i)
           U(i) == Upto(fs, i)
           Good(i, l) == /\ U(i) \in Seq(Units) /\ O(i) \in Nat /\ O(i) <= O(l) /\ (i < l => O(i) < O(l))
                         /\ \A q \in 1..O(i) : U(l)[q] = U(i)[q]
           N == {l \in Nat : l <= n => \A i \in 0..l : Good(i, l)}
<1>1. n \in Nat
  BY StreamIs
<1>2. U(0) = <<>> /\ O(0) = 0
  BY JoinedNone DEF Upto, Offset
<1>3. \A l \in 0..n - 1 : /\ U(l) \in Seq(Units) /\ U(l + 1) \in Seq(Units)
                          /\ U(l + 1) = U(l) \o Encode(fs[l + 1])
                          /\ O(l) \in Nat /\ O(l + 1) = O(l) + Len(Encode(fs[l + 1]))
                          /\ Encode(fs[l + 1]) \in Seq(Units) /\ Len(Encode(fs[l + 1])) \in Nat
                          /\ Len(Encode(fs[l + 1])) >= 1
  BY UptoMore, PartIs
<1>4. \A l : O(l) = Len(U(l))
  BY DEF Offset
<1> HIDE DEF O, U
<1>5. 0 \in N
  <2>0. <<>> \in Seq(Units) /\ 1..0 = {}
    OBVIOUS
  <2>01. U(0) \in Seq(Units)
    BY <1>2, <2>0, Zenon
  <2>02. O(0) \in Nat /\ O(0) <= O(0) /\ ~(0 < 0)
    BY <1>2
  <2>1. Good(0, 0)
    BY <2>01, <2>02
  <2>2. \A i \in 0..0 : i = 0
    OBVIOUS
  <2> QED BY <2>1, <2>2
<1>6. ASSUME NEW l \in N PROVE l + 1 \in N
  <2> SUFFICES ASSUME l + 1 <= n PROVE \A i \in 0..l + 1 : Good(i, l + 1)
    OBVIOUS
  <2>1. l \in Nat /\ l \in 0..n - 1 /\ \A i \in 0..l : Good(i, l)
    BY <1>1
  <2> DEFINE e == Encode(fs[l + 1])
  <2>2. /\ U(l) \in Seq(Units) /\ U(l + 1) \in Seq(Units) /\ U(l + 1) = U(l) \o e
        /\ O(l) \in Nat /\ O(l + 1) = O(l) + Len(e) /\ e \in Seq(Units) /\ Len(e) \in Nat /\ Len(e) >= 1
    BY <1>3, <2>1
  <2> HIDE DEF e
  <2>3. \A q \in 1..O(l) : U(l + 1)[q] = U(l)[q]
    <3> DEFINE a == U(l)
    <3>1. a \in Seq(Units) /\ e \in Seq(Units) /\ O(l) = Len(a)
      BY <1>4, <2>2
    <3> HIDE DEF a
    <3>2. \A q \in 1..Len(a) : (a \o e)[q] = a[q]
      BY <3>1
    <3> QED BY <2>2, <3>1, <3>2 DEF a
  <2>4. ASSUME NEW i \in 0..l PROVE Good(i, l + 1)
    <3>1. /\ U(i) \in Seq(Units) /\ O(i) \in Nat /\ O(i) <= O(l)
          /\ \A q \in 1..O(i) : U(l)[q] = U(i)[q]
      BY <2>1
    <3> DEFINE x == O(i)
               y == O(l)
               z == O(l + 1)
    <3>2. y \in Nat /\ z \in Nat /\ y < z
      <4> DEFINE g == Len(e)
      <4>1. y \in Nat /\ g \in Nat /\ g >= 1 /\ z = y + g
        BY <2>2
      <4> HIDE DEF g, y, z
      <4> QED BY <4>1
    <3>3. x \in Nat /\ x <= y
      BY <3>1
    <3> HIDE DEF x, y, z
    <3>4. x <= z /\ x < z /\ \A q \in 1..x : q \in 1..y
      BY <3>2, <3>3
    <3>5. \A q \in 1..O(i) : U(l + 1)[q] = U(i)[q]
      <4>1. ASSUME NEW q \in 1..x PROVE U(l + 1)[q] = U(i)[q]
        <5>1. q \in 1..O(l) /\ q \in 1..O(i)
          BY <3>4 DEF x, y
        <5> QED BY <2>3, <3>1, <5>1
      <4> QED BY <4>1 DEF x
    <3> QED BY <3>1, <3>4, <3>5 DEF x, z
  <2>5. Good(l + 1, l + 1)
    <3>1. O(l + 1) \in Nat
      BY <2>2
    <3> QED BY <2>1, <2>2, <3>1
  <2>6. ASSUME NEW i \in 0..l + 1 PROVE Good(i, l + 1)
    <3> HIDE DEF Good
    <3>1. CASE i = l + 1
      BY <2>5, <3>1
    <3>2. CASE i # l + 1
      <4>1. i \in 0..l
        BY <2>1, <3>2
      <4> QED BY <2>4, <4>1, Zenon
    <3> QED BY <3>1, <3>2, Zenon
  <2> QED BY <2>6
<1>7. N = Nat
  <2>1. N \subseteq Nat
    OBVIOUS
  <2> HIDE DEF N
  <2> QED BY <1>5, <1>6, <2>1, NatSet
<1>8. k \in Nat /\ k <= n
  BY <1>1
<1>9. Good(j, k)
  BY <1>7, <1>8
<1> QED BY <1>9 DEF O, U

\* Where a frame is in the stream.
LEMMA Piece ==
  ASSUME NEW fs \in Streams, NEW k \in 0..Len(fs) - 1
  PROVE  /\ Offset(fs, k) \in Nat /\ Offset(fs, k + 1) = Offset(fs, k) + Len(Encode(fs[k + 1]))
         /\ Offset(fs, k + 1) <= Len(All(fs)) /\ All(fs) \in Seq(Units)
         /\ \A i \in 1..Len(Encode(fs[k + 1])) : All(fs)[Offset(fs, k) + i] = Encode(fs[k + 1])[i]
<1> DEFINE n == Len(fs)
           a == Upto(fs, k)
           e == Encode(fs[k + 1])
           o == Offset(fs, k)
           p == Offset(fs, k + 1)
<1>1. n \in Nat /\ k + 1 \in 0..n /\ n \in 0..n /\ k + 1 \in 1..n
  BY StreamIs
<1>2. a \in Seq(Units) /\ Upto(fs, k + 1) = a \o e /\ o \in Nat /\ p = o + Len(e) /\ o = Len(a)
  BY UptoMore DEF Offset
<1>3. e \in Seq(Units) /\ Len(e) \in Nat
  BY <1>1, PartIs
<1>4. p <= Len(All(fs)) /\ \A i \in 1..p : All(fs)[i] = Upto(fs, k + 1)[i]
  BY <1>1, UptoPrefix DEF All, Offset
<1>5. All(fs) \in Seq(Units)
  BY <1>1, UptoPrefix DEF All
<1> HIDE DEF a, e, o, p
<1>6. \A i \in 1..Len(e) : o + i \in 1..p /\ (a \o e)[o + i] = e[i]
  BY <1>2, <1>3
<1>7. \A i \in 1..Len(e) : All(fs)[o + i] = e[i]
  BY <1>2, <1>4, <1>6
<1> QED BY <1>2, <1>4, <1>5, <1>7 DEF e, o, p

LEMMA ClientUnitsAre == ASSUME sent \in Streams PROVE ClientUnits = All(sent)
<1>1. DOMAIN sent = 1..Len(sent) /\ Len(sent) \in Nat
  BY StreamIs
<1>2. [i \in DOMAIN sent |-> Encode(sent[i])] = [j \in 1..Len(sent) |-> Parts(sent)[j]]
  BY <1>1 DEF Parts
<1> QED BY <1>2 DEF ClientUnits, All, Upto, Joined

\* As Complete and Boundary put it.
LEMMA OffsetIs ==
  ASSUME NEW fs \in Streams, NEW k \in 0..Len(fs)
  PROVE  Len(FlattenSeq([j \in 1..k |-> Encode(fs[j])])) = Offset(fs, k)
<1>1. DOMAIN fs = 1..Len(fs) /\ Len(fs) \in Nat
  BY StreamIs
<1>2. [j \in 1..k |-> Encode(fs[j])] = [j \in 1..k |-> Parts(fs)[j]]
  BY <1>1 DEF Parts
<1> QED BY <1>2 DEF Offset, Upto, Joined

-----------------------------------------------------------------------------
(* Fragments.                                                               *)

LEMMA MaxIs ==
  ASSUME NEW n \in Nat, NEW S \in SUBSET (1..n), S # {}
  PROVE  /\ Max(S) \in S /\ \A i \in S : i <= Max(S)
         /\ \A m \in S : (\A i \in S : i <= m) => Max(S) = m
<1>1. \E m \in S : \A i \in S : i <= m
  <2> DEFINE D == {d \in Nat : \E i \in S : d = n - i}
  <2>1. D \subseteq Nat /\ D # {}
    <3>1. PICK i \in S : TRUE
      OBVIOUS
    <3>2. n - i \in Nat
      OBVIOUS
    <3> QED BY <3>2
  <2>2. PICK d \in D : \A e \in D : <<e, d>> \notin OpToRel(<, Nat)
    <3> HIDE DEF D
    <3> QED BY <2>1, NatLessThanWellFounded, WFMin
  <2>3. PICK m \in S : d = n - m
    BY <2>2
  <2>4. ASSUME NEW i \in S PROVE i <= m
    <3>0. i \in 1..n
      OBVIOUS
    <3>01. n - i \in Nat
      BY <3>0
    <3>02. n - i \in D
      BY <3>01
    <3>1. n - i \in D /\ n - i \in Nat /\ d \in Nat
      BY <2>2, <3>01, <3>02
    <3>2. ~(n - i < d)
      BY <2>2, <3>1 DEF OpToRel
    <3> QED BY <2>3, <3>1, <3>2
  <2> QED BY <2>4
<1>2. \E m \in S : \A i \in S : m >= i
  BY <1>1
<1>3. Max(S) \in S /\ \A i \in S : Max(S) >= i
  BY <1>2, Zenon DEF Max
<1> DEFINE x == Max(S)
<1>4. x \in S /\ \A i \in S : x >= i
  BY <1>3
<1>5. \A i \in S : i \in Nat
  OBVIOUS
<1> HIDE DEF x
<1>6. \A m \in S : (\A i \in S : i <= m) => x = m
  <2> SUFFICES ASSUME NEW m \in S, \A i \in S : i <= m PROVE x = m
    OBVIOUS
  <2>1. x <= m /\ x >= m /\ x \in Nat /\ m \in Nat
    BY <1>4, <1>5
  <2> QED BY <2>1
<1>7. \A i \in S : i <= x
  BY <1>4, <1>5
<1> QED BY <1>4, <1>6, <1>7 DEF x

Starts(fs, k) == {j \in 1..k : fs[j].kind = "start"}

LEMMA OpenAfterIs ==
  ASSUME NEW fs \in Streams, NEW k \in 0..Len(fs)
  PROVE  OpenAfter(SubSeq(fs, 1, k)) <=>
           Starts(fs, k) # {} /\ \A i \in 1..k : fs[i].kind = "last" => i < Begun(fs, k)
<1> DEFINE s == SubSeq(fs, 1, k)
<1>1. fs \in Seq(Frames) /\ Len(fs) \in Nat
  BY StreamIs
<1>2. DOMAIN s = 1..k /\ \A i \in 1..k : s[i] = fs[i]
  BY <1>1
<1> HIDE DEF s
<1>3. {i \in DOMAIN s : s[i].kind = "start"} = Starts(fs, k)
  BY <1>2 DEF Starts
<1>4. Begun(fs, k) = Max(Starts(fs, k))
  BY DEF Begun, Starts
<1>5. OpenAfter(s) <=> Starts(fs, k) # {} /\ \A i \in 1..k : fs[i].kind = "last" => i < Max(Starts(fs, k))
  BY <1>2, <1>3 DEF OpenAfter
<1> QED BY <1>4, <1>5 DEF s

\* The message that has begun and not ended, as fragmented_text keeps it.
Opened(fs, k) == IF OpenAfter(SubSeq(fs, 1, k)) THEN {Since(fs, Begun(fs, k), k)} ELSE {}

LEMMA DataIs ==
  ASSUME NEW fs \in Streams, NEW i \in 1..Len(fs)
  PROVE  /\ Data(fs[i]) \in Seq(Units) /\ fs[i].payload \in Seq(Units)
         /\ fs[i].kind # "control" => Data(fs[i]) = fs[i].payload
         /\ fs[i].kind = "control" => Data(fs[i]) = <<>>
<1>1. fs[i] \in Frames
  BY StreamIs
<1>2. fs[i].payload \in Seq(Units) /\ <<>> \in Seq(Units)
  BY <1>1, PayloadIs
<1> QED BY <1>2 DEF Data

LEMMA SinceMore ==
  ASSUME NEW fs \in Streams, NEW j \in 1..Len(fs), NEW i \in j..Len(fs) - 1
  PROVE  /\ Since(fs, j, i) \in Seq(Units)
         /\ Since(fs, j, i + 1) = Since(fs, j, i) \o Data(fs[i + 1])
<1> DEFINE n == i + 1 - j
           F == [k \in 1..n + 1 |-> Data(fs[j + k - 1])]
<1>1. Len(fs) \in Nat
  BY StreamIs
<1>2. n \in Nat /\ i + 1 + 1 - j = n + 1 /\ j + (n + 1) - 1 = i + 1
  BY <1>1
<1>3. \A k \in 1..n + 1 : F[k] \in Seq(Units)
  <2> SUFFICES ASSUME NEW k \in 1..n + 1 PROVE Data(fs[j + k - 1]) \in Seq(Units)
    OBVIOUS
  <2>1. j + k - 1 \in 1..Len(fs)
    BY <1>1
  <2> QED BY <2>1, DataIs
<1>4. Since(fs, j, i) = Joined(F, n) /\ Since(fs, j, i + 1) = Joined(F, n + 1) /\ F[n + 1] = Data(fs[i + 1])
  <2>1. [k \in 1..n |-> Data(fs[j + k - 1])] = [k \in 1..n |-> F[k]]
    BY <1>2
  <2>2. [k \in 1..n + 1 |-> Data(fs[j + k - 1])] = [k \in 1..n + 1 |-> F[k]]
    BY <1>2
  <2>3. n + 1 \in 1..n + 1
    BY <1>2
  <2>4. F[n + 1] = Data(fs[j + (n + 1) - 1])
    BY <2>3
  <2>5. F[n + 1] = Data(fs[i + 1])
    BY <1>2, <2>4
  <2>6. Since(fs, j, i + 1) = FlattenSeq([k \in 1..n + 1 |-> Data(fs[j + k - 1])])
    BY <1>2 DEF Since
  <2>7. Since(fs, j, i) = FlattenSeq([k \in 1..n |-> Data(fs[j + k - 1])])
    BY DEF Since
  <2> QED BY <2>1, <2>2, <2>5, <2>6, <2>7 DEF Joined
<1> HIDE DEF F, n
<1> QED BY <1>2, <1>3, <1>4, JoinedMore

LEMMA SinceOne ==
  ASSUME NEW fs \in Streams, NEW j \in 1..Len(fs)
  PROVE  Since(fs, j, j) = Data(fs[j]) /\ Since(fs, j, j) \in Seq(Units)
<1> DEFINE F == [k \in 1..1 |-> Data(fs[j + k - 1])]
           d == Data(fs[j])
<1>1. Len(fs) \in Nat /\ j + 1 - j = 1 /\ j + 1 - 1 = j /\ 0 \in Nat /\ 0 + 1 = 1 /\ 1..1 = {1}
  BY StreamIs
<1>2. d \in Seq(Units)
  BY DataIs
<1>3. F[1] = d /\ F = [k \in 1..1 |-> F[k]]
  BY <1>1
<1>4. Since(fs, j, j) = Joined(F, 1)
  <2>1. Since(fs, j, j) = FlattenSeq(F)
    BY <1>1 DEF Since
  <2> HIDE DEF F
  <2> QED BY <1>3, <2>1 DEF Joined
<1> HIDE DEF F, d
<1>5. Joined(F, 0) = <<>>
  BY JoinedNone
<1>6. Joined(F, 1) = Joined(F, 0) \o F[1]
  <2>1. \A i \in 1..0 + 1 : F[i] \in Seq(Units)
    BY <1>1, <1>2, <1>3
  <2>2. Joined(F, 0 + 1) = Joined(F, 0) \o F[0 + 1]
    BY <1>1, <2>1, JoinedMore
  <2> QED BY <1>1, <2>2
<1>7. <<>> \o d = d
  BY <1>2
<1> QED BY <1>2, <1>3, <1>4, <1>5, <1>6, <1>7 DEF d

LEMMA OpenedFirst == ASSUME NEW fs \in Streams PROVE Opened(fs, 0) = {}
<1>1. Starts(fs, 0) = {} /\ 0 \in 0..Len(fs)
  BY StreamIs DEF Starts
<1> QED BY <1>1, OpenAfterIs DEF Opened

\* How a frame changes the open message.
LEMMA OpenedNext ==
  ASSUME NEW fs \in Streams, NEW k \in 0..Len(fs) - 1
  PROVE  LET f == fs[k + 1]
         IN  /\ f.kind = "start" => Opened(fs, k + 1) = {f.payload}
             /\ f.kind \in {"more", "last"} =>
                   /\ Opened(fs, k) = {Since(fs, Begun(fs, k), k)}
                   /\ Since(fs, Begun(fs, k), k) \in Seq(Units)
                   /\ Text(fs, k + 1) = Since(fs, Begun(fs, k), k) \o f.payload
                   /\ Opened(fs, k + 1) = IF f.kind = "more" THEN {Text(fs, k + 1)} ELSE {}
             /\ f.kind = "control" => Opened(fs, k + 1) = Opened(fs, k)
             /\ f.kind \in {"text", "line", "handshake"} => Opened(fs, k) = {} /\ Opened(fs, k + 1) = {}
<1> DEFINE f == fs[k + 1]
           B == Starts(fs, k)
           C == Starts(fs, k + 1)
           b == Begun(fs, k)
           c == Begun(fs, k + 1)
           open == OpenAfter(SubSeq(fs, 1, k))
           opened == OpenAfter(SubSeq(fs, 1, k + 1))
<1>0. /\ Len(fs) \in Nat /\ k \in Nat /\ k \in 0..Len(fs) /\ k + 1 \in 0..Len(fs) /\ k + 1 \in 1..Len(fs)
      /\ IsStream(fs) /\ DOMAIN fs = 1..Len(fs)
  BY StreamIs
<1>1. b = Max(B) /\ c = Max(C)
  BY DEF Begun, Starts
<1>2. open <=> B # {} /\ \A i \in 1..k : fs[i].kind = "last" => i < b
  BY <1>0, OpenAfterIs
<1>3. opened <=> C # {} /\ \A i \in 1..k + 1 : fs[i].kind = "last" => i < c
  BY <1>0, OpenAfterIs
<1>4. /\ Opened(fs, k) = IF open THEN {Since(fs, b, k)} ELSE {}
      /\ Opened(fs, k + 1) = IF opened THEN {Since(fs, c, k + 1)} ELSE {}
  BY DEF Opened
<1>5. Data(f) \in Seq(Units) /\ f.payload \in Seq(Units) /\ (f.kind # "control" => Data(f) = f.payload)
      /\ (f.kind = "control" => Data(f) = <<>>)
  BY <1>0, DataIs
<1>6. /\ f.kind \in {"more", "last"} => open
      /\ f.kind \in {"text", "start", "long"} => ~open
      /\ f.kind = "handshake" => k = 0
      /\ f.kind = "line" => \A i \in 1..k : fs[i].kind = "line"
  <2>1. /\ f.kind \in {"more", "last"} => OpenAfter(SubSeq(fs, 1, (k + 1) - 1))
        /\ f.kind \in {"text", "start", "long"} => ~OpenAfter(SubSeq(fs, 1, (k + 1) - 1))
        /\ f.kind = "handshake" => k + 1 = 1
    BY <1>0 DEF IsStream
  <2>2. (k + 1) - 1 = k
    BY <1>0
  <2>3. f.kind = "line" => \A i \in 1..k : fs[i].kind = "line"
    <3>1. \A i \in DOMAIN fs : fs[1].kind = "line" <=> fs[i].kind = "line"
      BY <1>0 DEF IsStream
    <3>2. \A i \in 1..k : i \in DOMAIN fs
      BY <1>0
    <3> QED BY <1>0, <3>1, <3>2
  <2> QED BY <1>0, <2>1, <2>2, <2>3
<1>7. C = IF f.kind = "start" THEN B \cup {k + 1} ELSE B
  BY <1>0 DEF Starts
<1>8. B \in SUBSET (1..k) /\ C \in SUBSET (1..k + 1)
  BY DEF Starts
<1>9. B # {} => b \in 1..k
  BY <1>0, <1>1, <1>8, MaxIs
<1> HIDE DEF f, B, C, b, c, open, opened
<1>10. ASSUME f.kind = "start" PROVE Opened(fs, k + 1) = {f.payload}
  <2>1. c = k + 1 /\ C # {}
    <3>1. k + 1 \in C /\ \A i \in C : i <= k + 1
      BY <1>0, <1>7, <1>8, <1>10
    <3>2. k + 1 \in Nat
      BY <1>0
    <3> QED BY <1>1, <1>8, <3>1, <3>2, MaxIs
  <2>2. \A i \in 1..k + 1 : fs[i].kind = "last" => i < c
    BY <1>0, <1>10, <2>1 DEF f
  <2>3. Opened(fs, k + 1) = {Since(fs, k + 1, k + 1)}
    BY <1>3, <1>4, <2>1, <2>2
  <2>4. Since(fs, k + 1, k + 1) = Data(f)
    BY <1>0, SinceOne DEF f
  <2> QED BY <1>5, <1>10, <2>3, <2>4
<1>11. ASSUME f.kind # "start" PROVE C = B /\ c = b
  BY <1>1, <1>7, <1>11
<1>12. ASSUME f.kind # "start", open
       PROVE  /\ Since(fs, b, k) \in Seq(Units) /\ Since(fs, b, k + 1) = Since(fs, b, k) \o Data(f)
              /\ Opened(fs, k) = {Since(fs, b, k)}
              /\ Opened(fs, k + 1) = IF f.kind = "last" THEN {} ELSE {Since(fs, b, k + 1)}
  <2>1. b \in 1..k /\ b \in 1..Len(fs) /\ k \in b..Len(fs) - 1 /\ b < k + 1
    BY <1>0, <1>2, <1>9, <1>12
  <2>2. Since(fs, b, k) \in Seq(Units) /\ Since(fs, b, k + 1) = Since(fs, b, k) \o Data(f)
    BY <2>1, SinceMore DEF f
  <2>3. Opened(fs, k) = {Since(fs, b, k)}
    BY <1>4, <1>12
  <2>4. opened <=> f.kind # "last"
    <3>1. C # {} /\ c = b /\ \A i \in 1..k : fs[i].kind = "last" => i < b
      BY <1>2, <1>11, <1>12
    <3>2. \A i \in 1..k + 1 : i \in 1..k \/ i = k + 1
      BY <1>0
    <3>3. k + 1 \in 1..k + 1 /\ ~(k + 1 < b)
      BY <1>0, <2>1
    <3> QED BY <1>3, <3>1, <3>2, <3>3 DEF f
  <2> QED BY <1>4, <1>11, <1>12, <2>2, <2>3, <2>4
<1>13. ASSUME f.kind \in {"more", "last"}
       PROVE  /\ Opened(fs, k) = {Since(fs, b, k)} /\ Since(fs, b, k) \in Seq(Units)
              /\ Text(fs, k + 1) = Since(fs, b, k) \o f.payload
              /\ Opened(fs, k + 1) = IF f.kind = "more" THEN {Text(fs, k + 1)} ELSE {}
  <2>1. open /\ f.kind # "start" /\ f.kind # "control"
    BY <1>6, <1>13
  <2>2. Text(fs, k + 1) = Since(fs, b, k + 1)
    <3>1. Text(fs, k + 1) = Since(fs, c, k + 1)
      BY <1>13 DEF Text, f, c
    <3> QED BY <1>11, <2>1, <3>1
  <2> QED BY <1>5, <1>12, <1>13, <2>1, <2>2
<1>14. ASSUME f.kind = "control" PROVE Opened(fs, k + 1) = Opened(fs, k)
  <2>1. CASE open
    <3> DEFINE t == Since(fs, b, k)
    <3>1. t \in Seq(Units) /\ Since(fs, b, k + 1) = t \o <<>> /\ Opened(fs, k) = {t}
          /\ Opened(fs, k + 1) = {Since(fs, b, k + 1)}
      BY <1>5, <1>12, <1>14, <2>1
    <3> HIDE DEF t
    <3>2. t \o <<>> = t
      BY <3>1
    <3> QED BY <3>1, <3>2
  <2>2. CASE ~open
    <3>1. ~opened
      <4>1. C = B /\ c = b
        BY <1>11, <1>14
      <4>2. \A i \in 1..k : i \in 1..k + 1
        BY <1>0
      <4> QED BY <1>2, <1>3, <2>2, <4>1, <4>2
    <3> QED BY <1>4, <2>2, <3>1
  <2> QED BY <2>1, <2>2
<1>15. ASSUME f.kind \in {"text", "line", "handshake"} PROVE Opened(fs, k) = {} /\ Opened(fs, k + 1) = {}
  <2>1. C = B /\ c = b
    BY <1>11, <1>15
  <2>2. ~open
    <3>1. CASE f.kind = "text"
      BY <1>6, <3>1
    <3>2. CASE f.kind = "line"
      <4>1. B = {}
        BY <1>6, <3>2 DEF B, Starts
      <4> QED BY <1>2, <4>1
    <3>3. CASE f.kind = "handshake"
      <4>1. B = {}
        BY <1>6, <3>3 DEF B, Starts
      <4> QED BY <1>2, <4>1
    <3> QED BY <1>15, <3>1, <3>2, <3>3
  <2>3. ~opened
    <3>1. \A i \in 1..k : i \in 1..k + 1
      BY <1>0
    <3> QED BY <1>2, <1>3, <2>1, <2>2, <3>1
  <2> QED BY <1>4, <2>2, <2>3
<1> QED BY <1>10, <1>13, <1>14, <1>15 DEF f, b

-----------------------------------------------------------------------------
(* The messages of the first frames.                                        *)

\* Where the message of a fragment begins.
LEMMA BegunIs ==
  ASSUME NEW fs \in Streams, NEW i \in 1..Len(fs), fs[i].kind \in {"more", "last"}
  PROVE  Begun(fs, i) \in 1..i
<1> DEFINE k == i - 1
<1>1. /\ Len(fs) \in Nat /\ k \in 0..Len(fs) /\ k \in Nat /\ IsStream(fs) /\ DOMAIN fs = 1..Len(fs)
      /\ 1..k \subseteq 1..i
  BY StreamIs
<1>2. OpenAfter(SubSeq(fs, 1, k))
  BY <1>1 DEF IsStream
<1> HIDE DEF k
<1>3. Starts(fs, k) # {}
  BY <1>1, <1>2, OpenAfterIs
<1>4. Starts(fs, i) # {} /\ Starts(fs, i) \in SUBSET (1..i) /\ i \in Nat
  BY <1>1, <1>3 DEF Starts
<1>5. Begun(fs, i) = Max(Starts(fs, i))
  BY DEF Begun, Starts
<1>6. Max(Starts(fs, i)) \in Starts(fs, i)
  BY <1>4, MaxIs
<1> QED BY <1>4, <1>5, <1>6

Ownless == Units \ {Letter(Own)}

\* The client sends nothing of the owner's.
LEMMA TextIs ==
  ASSUME NEW fs \in Streams, NEW i \in 1..Len(fs)
  PROVE  Text(fs, i) \in Seq(Ownless) /\ Text(fs, i) \in Seq(Units) /\ Text(fs, i) # <<Letter(Own)>>
<1>0. Len(fs) \in Nat /\ IsStream(fs) /\ DOMAIN fs = 1..Len(fs)
  BY StreamIs
<1>1. ASSUME NEW j \in 1..Len(fs) PROVE fs[j].payload \in Seq(Ownless) /\ Data(fs[j]) \in Seq(Ownless)
  <2> DEFINE p == fs[j].payload
  <2>1. fs[j] \in Frames
    BY StreamIs
  <2>2. p \in Seq(Units) /\ DOMAIN p = 1..Len(p)
    BY <2>1, PayloadIs
  <2>3. \A k \in DOMAIN p : p[k] # Letter(Own)
    BY <1>0 DEF IsStream
  <2>4. \A k \in 1..Len(p) : p[k] \in Ownless
    <3>1. \A k \in 1..Len(p) : p[k] \in Units
      BY <2>2
    <3> QED BY <2>2, <2>3, <3>1 DEF Ownless
  <2>5. p \in Seq(Ownless)
    <3> HIDE DEF p
    <3> QED BY <2>2, <2>4
  <2>6. <<>> \in Seq(Ownless)
    OBVIOUS
  <2> QED BY <2>5, <2>6 DEF Data
<1>2. Text(fs, i) \in Seq(Ownless)
  <2>1. CASE fs[i].kind \in {"more", "last"}
    <3> DEFINE b == Begun(fs, i)
               n == i + 1 - b
               ss == [k \in 1..n |-> Data(fs[b + k - 1])]
    <3>1. b \in 1..i
      BY <2>1, BegunIs
    <3>2. Text(fs, i) = FlattenSeq(ss)
      BY <2>1 DEF Text, Since
    <3> HIDE DEF b
    <3>3. n \in Nat /\ \A k \in 1..n : b + k - 1 \in 1..Len(fs)
      BY <1>0, <3>1
    <3>4. \A k \in 1..n : Data(fs[b + k - 1]) \in Seq(Ownless)
      BY <1>1, <3>3
    <3>5. ss \in Seq(Seq(Ownless))
      <4> HIDE DEF n
      <4> QED BY <3>3, <3>4
    <3> HIDE DEF ss
    <3> QED BY <3>2, <3>5, Flattened
  <2>2. CASE fs[i].kind \notin {"more", "last"}
    BY <1>1, <2>2 DEF Text
  <2> QED BY <2>1, <2>2
<1> DEFINE t == Text(fs, i)
           u == Letter(Own)
<1>3. t \in Seq(Ownless) /\ Ownless \subseteq Units /\ u \notin Ownless
  BY <1>2 DEF Ownless
<1> HIDE DEF t, u
<1>4. t \in Seq(Units)
  BY <1>3, SeqMonotonic
<1>5. t # <<u>>
  <2> SUFFICES ASSUME t = <<u>> PROVE FALSE
    OBVIOUS
  <2>1. Len(<<u>>) = 1 /\ <<u>>[1] = u
    OBVIOUS
  <2>2. Len(t) = 1 /\ t[1] = u
    BY <2>1
  <2>3. t[1] \in Ownless
    BY <1>3, <2>2
  <2> QED BY <1>3, <2>2, <2>3
<1> QED BY <1>3, <1>4, <1>5 DEF t, u

LEMMA TextOfPart ==
  ASSUME NEW fs \in Streams, NEW k \in 0..Len(fs), NEW i \in 1..k
  PROVE  Text(SubSeq(fs, 1, k), i) = Text(fs, i)
<1> DEFINE s == SubSeq(fs, 1, k)
           b == Begun(fs, i)
<1>1. fs \in Seq(Frames) /\ Len(fs) \in Nat /\ i \in 1..Len(fs)
  BY StreamIs
<1>2. \A j \in 1..k : s[j] = fs[j]
  BY <1>1
<1> HIDE DEF s
<1>3. Begun(s, i) = b
  <2>1. {j \in 1..i : s[j].kind = "start"} = {j \in 1..i : fs[j].kind = "start"}
    BY <1>1, <1>2
  <2> QED BY <2>1 DEF Begun
<1>4. ASSUME fs[i].kind \in {"more", "last"} PROVE Text(s, i) = Text(fs, i)
  <2>1. b \in 1..i
    BY <1>1, <1>4, BegunIs
  <2>2. Text(s, i) = Since(s, b, i) /\ Text(fs, i) = Since(fs, b, i)
    BY <1>2, <1>3, <1>4 DEF Text
  <2> HIDE DEF b
  <2>3. \A q \in 1..i + 1 - b : b + q - 1 \in 1..k
    BY <1>1, <2>1
  <2>4. [q \in 1..i + 1 - b |-> Data(s[b + q - 1])] = [q \in 1..i + 1 - b |-> Data(fs[b + q - 1])]
    BY <1>2, <2>3
  <2>5. Since(s, b, i) = FlattenSeq([q \in 1..i + 1 - b |-> Data(s[b + q - 1])])
    BY Zenon DEF Since
  <2>6. Since(fs, b, i) = FlattenSeq([q \in 1..i + 1 - b |-> Data(fs[b + q - 1])])
    BY Zenon DEF Since
  <2> QED BY <2>2, <2>4, <2>5, <2>6, Zenon
<1>5. ASSUME fs[i].kind \notin {"more", "last"} PROVE Text(s, i) = Text(fs, i)
  BY <1>2, <1>5 DEF Text
<1>6. Text(s, i) = Text(fs, i)
  BY <1>4, <1>5
<1> QED BY <1>6 DEF s

EndsIn(fs, k) == {i \in 1..k : fs[i].kind \in {"line", "text", "last"}}

\* The n-th frame that completes a message.
Nth(E, n) == CHOOSE i \in E : Cardinality({j \in E : j <= i}) = n

Told(fs, k) == [n \in 1..Cardinality(EndsIn(fs, k)) |-> Text(fs, Nth(EndsIn(fs, k), n))]

LEMMA NthIs ==
  ASSUME NEW n \in Nat, NEW E \in SUBSET (1..n), NEW m \in 1..Cardinality(E)
  PROVE  Nth(E, m) \in E
<1> DEFINE C(i) == Cardinality({j \in E : j <= i})
           N == {i \in Nat : i <= n => \A q \in 1..C(i) : \E e \in E : e <= i /\ C(e) = q}
<1>0. \A e \in E : e \in 1..n
  OBVIOUS
<1>1. IsFiniteSet(E) /\ \A i : IsFiniteSet({j \in E : j <= i}) /\ C(i) \in Nat
  <2>1. IsFiniteSet(1..n)
    BY FS_Interval
  <2>2. \A S : S \subseteq 1..n => IsFiniteSet(S)
    BY <2>1, FS_Subset
  <2>3. \A i : {j \in E : j <= i} \subseteq 1..n
    BY <1>0, Zenon
  <2> QED BY <2>2, <2>3, FS_CardinalityType
<1>2. C(0) = 0
  <2>0. \A e \in E : ~(e <= 0)
    BY <1>0
  <2>1. {j \in E : j <= 0} = {}
    BY <2>0, Zenon
  <2> QED BY <2>1, FS_EmptySet
<1>3. \A i \in Nat : C(i + 1) = IF i + 1 \in E THEN C(i) + 1 ELSE C(i)
  <2> SUFFICES ASSUME NEW i \in Nat PROVE C(i + 1) = IF i + 1 \in E THEN C(i) + 1 ELSE C(i)
    OBVIOUS
  <2> DEFINE A == {j \in E : j <= i}
             B == {j \in E : j <= i + 1}
  <2>1. IsFiniteSet(A) /\ i + 1 \notin A
    BY <1>1
  <2>2. B = IF i + 1 \in E THEN A \cup {i + 1} ELSE A
    <3>1. \A e \in E : e <= i + 1 <=> e <= i \/ e = i + 1
      BY <1>0
    <3>2. i + 1 <= i + 1
      OBVIOUS
    <3> QED BY <3>1, <3>2, Zenon
  <2> HIDE DEF A, B
  <2>3. Cardinality(A \cup {i + 1}) = Cardinality(A) + 1
    BY <2>1, FS_AddElement
  <2>4. Cardinality(B) = IF i + 1 \in E THEN Cardinality(A) + 1 ELSE Cardinality(A)
    BY <2>2, <2>3
  <2> QED BY <2>4 DEF A, B
<1>4. C(n) = Cardinality(E)
  <2>0. \A e \in E : e <= n
    BY <1>0
  <2>1. {j \in E : j <= n} = E
    BY <2>0, Zenon
  <2> QED BY <2>1
<1>5. \A i : C(i) \in Nat
  BY <1>1
<1> HIDE DEF C
<1>6. 0 \in N
  BY <1>2
<1>7. ASSUME NEW i \in N PROVE i + 1 \in N
  <2> SUFFICES ASSUME i + 1 <= n, NEW q \in 1..C(i + 1) PROVE \E e \in E : e <= i + 1 /\ C(e) = q
    OBVIOUS
  <2>1. i \in Nat /\ \A r \in 1..C(i) : \E e \in E : e <= i /\ C(e) = r
    OBVIOUS
  <2>2. CASE q \in 1..C(i)
    BY <2>1, <2>2
  <2>3. CASE q \notin 1..C(i)
    <3>1. i + 1 \in E /\ q = C(i + 1)
      <4>1. q \in Nat /\ 1 <= q /\ q <= C(i + 1) /\ C(i) \in Nat /\ C(i + 1) \in Nat /\ ~(q <= C(i))
        BY <1>5, <2>3
      <4>2. C(i + 1) = IF i + 1 \in E THEN C(i) + 1 ELSE C(i)
        BY <1>3, <2>1
      <4> QED BY <4>1, <4>2
    <3> QED BY <2>1, <3>1
  <2> QED BY <2>2, <2>3
<1>8. N = Nat
  <2>1. N \subseteq Nat
    OBVIOUS
  <2> HIDE DEF N
  <2> QED BY <1>6, <1>7, <2>1, NatSet
<1>9. \E e \in E : C(e) = m
  BY <1>4, <1>8
<1> QED BY <1>9 DEF Nth, C

LEMMA NthStays ==
  ASSUME NEW k \in Nat, NEW E \in SUBSET (1..k)
  PROVE  LET F == E \cup {k + 1}
         IN  /\ Cardinality(E) \in Nat /\ Cardinality(F) = Cardinality(E) + 1
             /\ \A n \in 1..Cardinality(E) : Nth(F, n) = Nth(E, n)
             /\ Nth(F, Cardinality(E) + 1) = k + 1
<1> DEFINE F == E \cup {k + 1}
           c == Cardinality(E)
<1>1. IsFiniteSet(E) /\ k + 1 \notin E /\ \A e \in E : e \in Nat /\ e <= k
  <2>1. IsFiniteSet(1..k) /\ E \subseteq 1..k
    BY FS_Interval
  <2>2. IsFiniteSet(E)
    BY <2>1, FS_Subset
  <2>3. \A e \in E : e \in 1..k
    OBVIOUS
  <2> QED BY <2>2, <2>3
<1>2. c \in Nat /\ Cardinality(F) = c + 1
  BY <1>1, FS_CardinalityType, FS_AddElement
<1>3. \A i \in E : {j \in F : j <= i} = {j \in E : j <= i}
  <2>1. \A i \in E : ~(k + 1 <= i)
    BY <1>1
  <2> QED BY <2>1
<1>4. {j \in F : j <= k + 1} = F
  <2>1. \A j \in F : j <= k + 1
    BY <1>1
  <2> QED BY <2>1
<1>5. \A i \in E : Cardinality({j \in E : j <= i}) \in Nat /\ Cardinality({j \in E : j <= i}) <= c
  <2>1. \A i \in E : {j \in E : j <= i} \subseteq E
    OBVIOUS
  <2> QED BY <1>1, <2>1, FS_Subset, FS_CardinalityType
<1>6. ASSUME NEW n \in 1..c PROVE Nth(F, n) = Nth(E, n)
  <2>1. \A i : i \in F /\ Cardinality({j \in F : j <= i}) = n <=> i \in E /\ Cardinality({j \in E : j <= i}) = n
    <3> SUFFICES ASSUME NEW i
                 PROVE  i \in F /\ Cardinality({j \in F : j <= i}) = n <=> i \in E /\ Cardinality({j \in E : j <= i}) = n
      OBVIOUS
    <3>1. CASE i \in E
      BY <1>3, <3>1
    <3>2. CASE i = k + 1
      <4>1. Cardinality({j \in F : j <= i}) = c + 1
        BY <1>2, <1>4, <3>2
      <4>2. c + 1 # n
        BY <1>2
      <4> QED BY <1>1, <3>2, <4>1, <4>2
    <3>3. CASE i \notin F
      BY <3>3
    <3> QED BY <3>1, <3>2, <3>3
  <2>2. Nth(F, n) = CHOOSE i : i \in F /\ Cardinality({j \in F : j <= i}) = n
    BY Zenon DEF Nth
  <2>3. Nth(E, n) = CHOOSE i : i \in E /\ Cardinality({j \in E : j <= i}) = n
    BY Zenon DEF Nth
  <2> HIDE DEF F
  <2> QED BY <2>1, <2>2, <2>3, Zenon
<1>7. Nth(F, c + 1) = k + 1
  <2>1. \A i \in F : Cardinality({j \in F : j <= i}) = c + 1 <=> i = k + 1
    <3> SUFFICES ASSUME NEW i \in F PROVE Cardinality({j \in F : j <= i}) = c + 1 <=> i = k + 1
      OBVIOUS
    <3>1. CASE i \in E
      <4>1. Cardinality({j \in F : j <= i}) <= c /\ Cardinality({j \in F : j <= i}) \in Nat
        BY <1>3, <1>5, <3>1
      <4> QED BY <1>1, <1>2, <3>1, <4>1
    <3>2. CASE i = k + 1
      BY <1>2, <1>4, <3>2
    <3> QED BY <3>1, <3>2
  <2>2. k + 1 \in F
    OBVIOUS
  <2> HIDE DEF F, c
  <2> QED BY <2>1, <2>2 DEF Nth
<1> QED BY <1>2, <1>6, <1>7

LEMMA ToldIs ==
  ASSUME NEW fs \in Streams, NEW k \in 0..Len(fs)
  PROVE  Meant(SubSeq(fs, 1, k)) = Told(fs, k) /\ Told(fs, k) \in Messages
         /\ Len(Told(fs, k)) = Cardinality(EndsIn(fs, k)) /\ Cardinality(EndsIn(fs, k)) \in Nat
<1> DEFINE s == SubSeq(fs, 1, k)
           E == EndsIn(fs, k)
           c == Cardinality(E)
<1>1. fs \in Seq(Frames) /\ Len(fs) \in Nat /\ k \in Nat
  BY StreamIs
<1>2. DOMAIN s = 1..k /\ \A j \in 1..k : s[j] = fs[j]
  BY <1>1
<1> HIDE DEF s
<1>3. Ends(s) = E
  BY <1>2 DEF Ends, EndsIn
<1>4. E \in SUBSET (1..k) /\ c \in Nat
  <2>1. E \subseteq 1..k /\ IsFiniteSet(1..k)
    BY FS_Interval DEF EndsIn
  <2> QED BY <2>1, FS_Subset, FS_CardinalityType
<1>5. ASSUME NEW n \in 1..c
      PROVE  Text(s, Nth(E, n)) = Text(fs, Nth(E, n)) /\ Text(fs, Nth(E, n)) \in Seq(Units)
  <2> DEFINE i == Nth(E, n)
  <2>1. i \in E
    BY <1>1, <1>4, NthIs
  <2>2. i \in 1..k
    BY <1>4, <2>1
  <2> HIDE DEF i
  <2>3. i \in 1..Len(fs)
    BY <1>1, <2>2
  <2> QED BY <2>2, <2>3, TextOfPart, TextIs DEF i, s
<1>6. Meant(s) = [n \in 1..c |-> Text(s, Nth(E, n))]
  BY <1>3 DEF Meant, Nth
<1>7. Told(fs, k) = [n \in 1..c |-> Text(fs, Nth(E, n))]
  BY DEF Told
<1> HIDE DEF E, c
<1>8. Meant(s) = Told(fs, k)
  BY <1>5, <1>6, <1>7
<1>9. Told(fs, k) \in Seq(Seq(Units)) /\ Len(Told(fs, k)) = c
  BY <1>4, <1>5, <1>7
<1> QED BY <1>4, <1>8, <1>9 DEF Messages, s, E, c

\* A frame that completes a message adds its text.
LEMMA ToldNext ==
  ASSUME NEW fs \in Streams, NEW k \in 0..Len(fs) - 1
  PROVE  Told(fs, k + 1) = IF fs[k + 1].kind \in {"line", "text", "last"}
                           THEN Append(Told(fs, k), Text(fs, k + 1)) ELSE Told(fs, k)
<1> DEFINE E == EndsIn(fs, k)
           F == EndsIn(fs, k + 1)
           c == Cardinality(E)
           x == Text(fs, k + 1)
<1>1. Len(fs) \in Nat /\ k \in Nat /\ k \in 0..Len(fs) /\ k + 1 \in 0..Len(fs) /\ k + 1 \in 1..Len(fs)
  BY StreamIs
<1>2. F = IF fs[k + 1].kind \in {"line", "text", "last"} THEN E \cup {k + 1} ELSE E
  BY <1>1 DEF EndsIn
<1>3. Told(fs, k) = [n \in 1..c |-> Text(fs, Nth(E, n))]
  BY DEF Told
<1>4. Told(fs, k + 1) = [n \in 1..Cardinality(F) |-> Text(fs, Nth(F, n))]
  BY DEF Told
<1>5. E \in SUBSET (1..k)
  BY DEF EndsIn
<1>6. c \in Nat /\ Told(fs, k) \in Messages /\ Len(Told(fs, k)) = c
  BY <1>1, ToldIs
<1> HIDE DEF E, F, c
<1>7. CASE fs[k + 1].kind \in {"line", "text", "last"}
  <2>1. /\ F = E \cup {k + 1} /\ Cardinality(F) = c + 1
        /\ \A n \in 1..c : Nth(F, n) = Nth(E, n)
        /\ Nth(F, c + 1) = k + 1
    BY <1>1, <1>2, <1>5, <1>7, NthStays DEF c
  <2> DEFINE t == Told(fs, k)
             y == x
  <2>2. t \in Messages /\ Len(t) = c /\ \A n \in 1..c : t[n] = Text(fs, Nth(E, n))
    BY <1>3, <1>6
  <2>3. y \in Seq(Units) /\ y = Text(fs, k + 1)
    BY <1>1, TextIs
  <2> HIDE DEF t, y
  <2>4. Append(t, y) = [n \in 1..c + 1 |-> IF n = c + 1 THEN y ELSE t[n]]
    <3>1. t \in Seq(Seq(Units))
      BY <2>2 DEF Messages
    <3> QED BY <1>6, <2>2, <2>3, <3>1
  <2>5. \A n \in 1..c + 1 : Text(fs, Nth(F, n)) = IF n = c + 1 THEN y ELSE t[n]
    <3> SUFFICES ASSUME NEW n \in 1..c + 1 PROVE Text(fs, Nth(F, n)) = IF n = c + 1 THEN y ELSE t[n]
      OBVIOUS
    <3>1. CASE n = c + 1
      BY <2>1, <2>3, <3>1
    <3>2. CASE n # c + 1
      <4>1. n \in 1..c
        BY <1>6, <3>2
      <4> QED BY <2>1, <2>2, <3>2, <4>1
    <3> QED BY <3>1, <3>2
  <2>6. Told(fs, k + 1) = Append(t, y)
    BY <1>4, <2>1, <2>4, <2>5
  <2> QED BY <1>7, <2>6 DEF t, y
<1>8. CASE fs[k + 1].kind \notin {"line", "text", "last"}
  BY <1>2, <1>3, <1>4, <1>8 DEF c
<1> QED BY <1>7, <1>8

LEMMA ToldFirst == ASSUME NEW fs \in Streams PROVE Told(fs, 0) = <<>>
<1>1. EndsIn(fs, 0) = {}
  BY DEF EndsIn
<1>2. Cardinality(EndsIn(fs, 0)) = 0
  BY <1>1, FS_EmptySet
<1> QED BY <1>2 DEF Told

LEMMA OthersNext ==
  ASSUME NEW s \in Messages, NEW m \in Seq(Units)
  PROVE  Others(Append(s, m)) = IF m = <<Letter(Own)>> THEN Others(s) ELSE Append(Others(s), m)
<1> DEFINE o == <<Letter(Own)>>
           Part(x) == IF x = o THEN <<>> ELSE <<x>>
           a == Append(s, m)
           F == [i \in DOMAIN s |-> Part(s[i])]
           G == [i \in DOMAIN a |-> Part(a[i])]
           T == Seq(Units)
<1>0. <<>> \in Seq(T) /\ \A x \in T : <<x>> \in Seq(T)
  OBVIOUS
<1>1. Others(s) = FlattenSeq(F) /\ Others(a) = FlattenSeq(G)
  BY DEF Others
<1>2. s \in Seq(T) /\ m \in T
  BY DEF Messages
<1> HIDE DEF o, T
<1>3. \A x \in T : Part(x) \in Seq(T)
  BY <1>0
<1>4. m \in T /\ Part(m) = IF m = o THEN <<>> ELSE <<m>>
  BY <1>2
<1> HIDE DEF Part
<1>5. F \in Seq(Seq(T)) /\ Part(m) \in Seq(T)
  <2> DEFINE U == Seq(T)
  <2>1. DOMAIN s = 1..Len(s) /\ Len(s) \in Nat /\ \A i \in 1..Len(s) : s[i] \in T
    BY <1>2
  <2>2. \A i \in 1..Len(s) : Part(s[i]) \in U
    BY <1>3, <2>1
  <2>3. Part(m) \in U
    BY <1>3, <1>4
  <2> HIDE DEF U
  <2>4. F \in Seq(U)
    BY <2>1, <2>2
  <2> QED BY <2>3, <2>4 DEF U
<1>6. G = Append(F, Part(m))
  BY <1>2
<1> HIDE DEF F, G
<1>7. FlattenSeq(G) = FlattenSeq(F) \o Part(m)
  BY <1>5, <1>6, FlattenedMore
<1>8. FlattenSeq(F) \in Seq(T)
  BY <1>5, Flattened
<1>9. \A t \in Seq(T) : t \o <<>> = t /\ t \o <<m>> = Append(t, m)
  BY <1>4
<1>10. Others(a) = IF m = o THEN Others(s) ELSE Append(Others(s), m)
  BY <1>1, <1>4, <1>7, <1>8, <1>9
<1> QED BY <1>10 DEF a, o

LEMMA OthersFirst == Others(<<>>) = <<>>
<1> DEFINE e == [i \in DOMAIN <<>> |-> IF <<>>[i] = <<Letter(Own)>> THEN <<>> ELSE <<<<>>[i]>>]
<1>1. e = <<>> /\ Len(e) = 0
  OBVIOUS
<1>2. FlattenSeq(e) = e
  <2> HIDE DEF e
  <2> QED BY <1>1, Zenon DEF FlattenSeq
<1> QED BY <1>1, <1>2 DEF Others

-----------------------------------------------------------------------------
(* The observer in the middle of a stream.                                  *)

Lines(fs) == fs[1].kind = "line"

\* After n units of a stream w has read k frames, and x of the owner's in between.
Mid(w, fs, k, n, x) ==
    /\ k \in 0..Len(fs) /\ n \in Offset(fs, k)..Len(All(fs)) /\ x \in Nat
    /\ w.pending = SubSeq(All(fs), Offset(fs, k) + 1, n)
    /\ w.mode = "Unknown" => k = 0
    /\ w.mode = "JsonLines" => Lines(fs)
    /\ w.mode = "WebSocketHandshake" => k = 0 /\ ~Lines(fs)
    /\ w.mode = "WebSocketFrames" => k > 0 /\ ~Lines(fs)
    /\ w.fragmented = Opened(fs, k)
    /\ Others(w.messages) = Told(fs, k)
    /\ Len(w.messages) = Len(Told(fs, k)) + x

Strange(fs, i) ==
    \/ fs[i].kind \in {"reserved", "unknown", "long"}
    \/ Len(Encode(fs[i])) - 1 > MaxWire
    \/ Len(Text(fs, i)) > MaxWire

LEMMA MidIs ==
  ASSUME NEW fs \in Streams, NEW w \in Wires, NEW k, NEW n, NEW x, Mid(w, fs, k, n, x)
  PROVE  /\ k \in 0..Len(fs) /\ Len(fs) \in Nat /\ n \in Nat /\ Offset(fs, k) \in Nat
         /\ Offset(fs, k) <= n /\ n <= Len(All(fs)) /\ All(fs) \in Seq(Units) /\ Len(All(fs)) \in Nat
         /\ Len(w.pending) = n - Offset(fs, k)
         /\ \A i \in 1..n - Offset(fs, k) : w.pending[i] = All(fs)[Offset(fs, k) + i]
         /\ n > Offset(fs, k) => k \in 0..Len(fs) - 1
<1> DEFINE a == All(fs)
           o == Offset(fs, k)
<1>1. k \in 0..Len(fs) /\ n \in o..Len(a) /\ w.pending = SubSeq(a, o + 1, n) /\ Len(fs) \in Nat
  BY StreamIs DEF Mid
<1>2. o \in Nat
  <2>1. k \in 0..k
    BY <1>1
  <2> QED BY <1>1, <2>1, UptoPrefix
<1>3. a \in Seq(Units)
  <2>1. Len(fs) \in 0..Len(fs)
    BY <1>1
  <2> QED BY <2>1, UptoPrefix DEF All
<1>4. k = Len(fs) => o = Len(a)
  BY DEF All, Offset
<1> HIDE DEF a, o
<1>5. n \in Nat /\ o <= n /\ n <= Len(a) /\ Len(a) \in Nat
  BY <1>1, <1>2, <1>3
<1>6. Len(SubSeq(a, o + 1, n)) = n - o /\ \A i \in 1..n - o : SubSeq(a, o + 1, n)[i] = a[o + i]
  BY <1>2, <1>3, <1>5
<1>7. n > o => k \in 0..Len(fs) - 1
  BY <1>1, <1>2, <1>4, <1>5
<1> QED BY <1>1, <1>2, <1>3, <1>5, <1>6, <1>7 DEF a, o

\* What is pending begins with the next frame.
LEMMA NextPending ==
  ASSUME NEW fs \in Streams, NEW w \in Wires, NEW k, NEW n, NEW x, Mid(w, fs, k, n, x),
         k \in 0..Len(fs) - 1
  PROVE  LET e == Encode(fs[k + 1])
         IN  /\ e \in Seq(Units) /\ Len(e) \in Nat /\ Len(e) >= 1 /\ fs[k + 1] \in Frames
             /\ k + 1 \in 1..Len(fs)
             /\ \A i \in 1..Len(e) : i <= Len(w.pending) => w.pending[i] = e[i]
             /\ Offset(fs, k + 1) = Offset(fs, k) + Len(e)
<1> DEFINE e == Encode(fs[k + 1])
<1>1. k + 1 \in 1..Len(fs) /\ Len(fs) \in Nat
  BY StreamIs
<1>2. e \in Seq(Units) /\ Len(e) \in Nat /\ Len(e) >= 1 /\ fs[k + 1] \in Frames
  BY <1>1, PartIs, StreamIs
<1>3. /\ Offset(fs, k) \in Nat /\ Offset(fs, k + 1) = Offset(fs, k) + Len(e)
      /\ \A i \in 1..Len(e) : All(fs)[Offset(fs, k) + i] = e[i]
  BY Piece
<1>4. /\ Len(w.pending) = n - Offset(fs, k) /\ n \in Nat
      /\ \A i \in 1..n - Offset(fs, k) : w.pending[i] = All(fs)[Offset(fs, k) + i]
  BY MidIs
<1> HIDE DEF e
<1>5. ASSUME NEW i \in 1..Len(e), i <= Len(w.pending) PROVE w.pending[i] = e[i]
  <2> DEFINE o == Offset(fs, k)
  <2>1. o \in Nat /\ i \in Nat /\ 1 <= i /\ i <= n - o
    BY <1>2, <1>3, <1>4, <1>5
  <2>2. w.pending[i] = All(fs)[o + i]
    <3>1. i \in 1..n - o
      <4> HIDE DEF o
      <4> QED BY <1>4, <2>1
    <3> QED BY <1>4, <3>1
  <2>3. All(fs)[o + i] = e[i]
    BY <1>3
  <2> QED BY <2>2, <2>3
<1> QED BY <1>1, <1>2, <1>3, <1>5 DEF e

\* What a stream holds after its first i units, up to the j-th.
Between(s, i, j) == SubSeq(s, i + 1, j)

\* A frame is taken off what is pending.
LEMMA PendingRest ==
  ASSUME NEW fs \in Streams, NEW w \in Wires, NEW k, NEW n, NEW x, Mid(w, fs, k, n, x),
         k \in 0..Len(fs) - 1, Len(Encode(fs[k + 1])) <= Len(w.pending)
  PROVE  /\ Between(w.pending, Len(Encode(fs[k + 1])), Len(w.pending)) = Between(All(fs), Offset(fs, k + 1), n)
         /\ n \in Offset(fs, k + 1)..Len(All(fs)) /\ k + 1 \in 0..Len(fs)
<1> DEFINE e == Encode(fs[k + 1])
           l == Len(e)
           p == w.pending
           a == All(fs)
           o == Offset(fs, k)
           q == Offset(fs, k + 1)
<1>1. l \in Nat /\ l >= 1 /\ q = o + l /\ k + 1 \in 1..Len(fs)
  BY NextPending
<1>2. /\ o \in Nat /\ n \in Nat /\ n <= Len(a) /\ a \in Seq(Units) /\ Len(p) = n - o
      /\ \A i \in 1..n - o : p[i] = a[o + i]
  BY MidIs
<1>3. p \in Seq(Units) /\ l <= Len(p)
  BY DEF Wires
<1> HIDE DEF l, p, a, o, q
<1>4. q \in Nat /\ q <= n /\ n \in q..Len(a)
  BY <1>1, <1>2, <1>3
<1> DEFINE s == SubSeq(p, l + 1, Len(p))
           t == SubSeq(a, q + 1, n)
<1>5. s \in Seq(Units) /\ Len(s) = n - q /\ \A i \in 1..n - q : s[i] = a[q + i]
  <2>1. s \in Seq(Units) /\ Len(s) = Len(p) - l /\ \A i \in 1..Len(p) - l : s[i] = p[l + i]
    BY <1>1, <1>3
  <2>2. Len(p) - l = n - q
    BY <1>1, <1>2
  <2>3. \A i \in 1..n - q : l + i \in 1..n - o /\ o + (l + i) = q + i
    BY <1>1, <1>2, <1>4
  <2> HIDE DEF s
  <2> QED BY <1>2, <2>1, <2>2, <2>3
<1>6. t \in Seq(Units) /\ Len(t) = n - q /\ \A i \in 1..n - q : t[i] = a[q + i]
  <2>1. q \in Nat /\ n \in Nat /\ q <= n /\ n <= Len(a) /\ n \in 0..Len(a)
    BY <1>2, <1>4
  <2>2. Len(t) = n - q /\ \A i \in 1..n - q : t[i] = a[q + i]
    BY <1>2, <2>1
  <2>3. t \in Seq(Units)
    BY <1>2, <2>1, Cut
  <2> QED BY <2>2, <2>3
<1> HIDE DEF s, t
<1>7. s = t
  BY <1>5, <1>6, SeqEqual
<1>8. k + 1 \in 0..Len(fs)
  BY <1>1
<1>9. Between(p, l, Len(p)) = Between(a, q, n)
  BY <1>7 DEF s, t, Between
<1> QED BY <1>4, <1>8, <1>9 DEF l, p, a, q

-----------------------------------------------------------------------------
(* One decision.                                                            *)

\* What a decision makes of the stream: it reads on, or it fails for a cause.
Decided(w, v, fs, n, x) ==
    \/ v.failures = w.failures /\ \E k : Mid(v, fs, k, n, x)
    \/ v.failures > w.failures /\ \E i \in DOMAIN fs : Strange(fs, i)

LEMMA ModeDecided ==
  ASSUME NEW fs \in Streams, NEW w \in Wires, NEW k, NEW n, NEW x, Mid(w, fs, k, n, x),
         ~Waits(w), w.mode = "Unknown"
  PROVE  Decided(w, One(w), fs, n, x)
<1> DEFINE p == w.pending
           m == IF IsPrefix(Get, p) THEN "WebSocketHandshake" ELSE "JsonLines"
           v == [w EXCEPT !.mode = m]
           e == Encode(fs[k + 1])
<1>1. p \in Seq(Units) /\ Len(p) \in Nat
  BY DEF Wires
<1>2. ~IsPrefix(p, <<Get[1]>>)
  BY DEF Waits
<1>3. /\ ~(Len(p) = 0 \/ (Len(p) = 1 /\ p[1] = Get[1]))
      /\ IsPrefix(Get, p) <=> Len(p) >= 2 /\ p[1] = Get[1] /\ p[2] = Get[2]
  BY <1>1, <1>2, Opening
<1>4. One(w) = v
  BY <1>2 DEF One, SelectMode
<1>5. v \in Wires /\ v.mode = m /\ v.pending = w.pending /\ v.failures = w.failures
      /\ v.messages = w.messages /\ v.fragmented = w.fragmented
  BY DEF Wires, Modes
<1>6. k = 0 /\ k \in 0..Len(fs) - 1 /\ IsStream(fs) /\ DOMAIN fs = 1..Len(fs) /\ Len(fs) \in Nat
  <2>1. k = 0
    BY DEF Mid
  <2>2. Len(p) = n - Offset(fs, k) /\ n \in Nat /\ Offset(fs, k) \in Nat /\ (n > Offset(fs, k) => k \in 0..Len(fs) - 1)
    BY MidIs
  <2> QED BY <1>1, <1>3, <2>1, <2>2, StreamIs
<1>7. /\ Len(e) \in Nat /\ Len(e) >= 1 /\ fs[k + 1] \in Frames
      /\ \A i \in 1..Len(e) : i <= Len(p) => p[i] = e[i]
  BY <1>6, NextPending
<1>8. fs[1] \in Frames /\ k + 1 = 1 /\ e = Encode(fs[1])
  BY <1>6, <1>7
<1> HIDE DEF e, p
<1>9. m = IF Lines(fs) THEN "JsonLines" ELSE "WebSocketHandshake"
  <2>1. CASE Lines(fs)
    <3>1. fs[1].kind = "line"
      BY <2>1 DEF Lines
    <3>2. e[1] # Get[1]
      <4>1. /\ Len(e) = Len(fs[1].payload) + 1
            /\ \A i \in 1..Len(fs[1].payload) : e[i] = fs[1].payload[i]
            /\ e[Len(fs[1].payload) + 1] = Newline
        BY <1>8, <3>1, LineIs
      <4>2. Len(fs[1].payload) \in Nat /\ \A i \in 1..Len(fs[1].payload) : fs[1].payload[i] # Get[1]
        BY <1>8, PayloadIs
      <4>3. Newline # Get[1]
        BY DEF Newline, Get
      <4>4. CASE Len(fs[1].payload) = 0
        BY <4>1, <4>3, <4>4
      <4>5. CASE Len(fs[1].payload) # 0
        <5>1. 1 \in 1..Len(fs[1].payload)
          BY <4>2, <4>5
        <5> QED BY <4>1, <4>2, <5>1
      <4> QED BY <4>4, <4>5
    <3>3. p[1] = e[1]
      BY <1>1, <1>3, <1>7
    <3> QED BY <1>3, <2>1, <3>2, <3>3
  <2>2. CASE ~Lines(fs)
    <3>1. fs[1].kind = "handshake"
      <4>1. 1 \in DOMAIN fs
        BY <1>6
      <4>2. fs[1].kind = "handshake" <=> 1 = 1 /\ fs[1].kind # "line"
        BY <1>6, <4>1 DEF IsStream
      <4> QED BY <2>2, <4>2 DEF Lines
    <3>2. Len(e) = 3 /\ e[1] = Get[1] /\ e[2] = Get[2]
      BY <1>8, <3>1, HandshakeIs
    <3>3. p[1] = Get[1]
      BY <1>1, <1>3, <1>7, <3>2
    <3>4. Len(p) >= 2
      <4>1. Len(p) # 0 /\ Len(p) # 1
        BY <1>3, <3>3, Zenon
      <4>2. Len(p) \in Nat
        BY <1>1
      <4> DEFINE l == Len(p)
      <4>3. l \in Nat /\ l # 0 /\ l # 1
        BY <4>1, <4>2
      <4> HIDE DEF l
      <4>4. l >= 2
        BY <4>3
      <4> QED BY <4>4 DEF l
    <3>5. p[2] = Get[2]
      BY <1>7, <3>2, <3>4
    <3> QED BY <1>3, <2>2, <3>3, <3>4, <3>5
  <2> QED BY <2>1, <2>2
<1> HIDE DEF v, m
<1>10. Mid(v, fs, k, n, x)
  <2>1. /\ k \in 0..Len(fs) /\ n \in Offset(fs, k)..Len(All(fs)) /\ x \in Nat
        /\ w.pending = SubSeq(All(fs), Offset(fs, k) + 1, n)
        /\ w.fragmented = Opened(fs, k) /\ Others(w.messages) = Told(fs, k)
        /\ Len(w.messages) = Len(Told(fs, k)) + x
    BY DEF Mid
  <2> QED BY <1>5, <1>6, <1>9, <2>1 DEF Mid
<1> QED BY <1>4, <1>5, <1>10 DEF Decided

LEMMA HandshakeDecided ==
  ASSUME NEW fs \in Streams, NEW w \in Wires, NEW k, NEW n, NEW x, Mid(w, fs, k, n, x),
         ~Waits(w), w.mode = "WebSocketHandshake"
  PROVE  Decided(w, One(w), fs, n, x)
<1> DEFINE p == w.pending
           j == Find(p, Blank)
           v == Chop(w, j)
           u == [v EXCEPT !.mode = "WebSocketFrames"]
           e == Encode(fs[k + 1])
<1>1. p \in Seq(Units) /\ Len(p) \in Nat /\ j # 0
  BY DEF Wires, Waits
<1>2. j \in 1..Len(p) /\ p[j] = Blank /\ \A i \in 1..Len(p) : p[i] = Blank => j <= i
  BY <1>1, Found
<1>3. One(w) = u
  BY <1>1 DEF One, FinishHandshake
<1>4. k = 0 /\ ~Lines(fs) /\ k \in 0..Len(fs) - 1 /\ IsStream(fs) /\ DOMAIN fs = 1..Len(fs) /\ Len(fs) \in Nat
  <2>1. k = 0 /\ ~Lines(fs)
    BY DEF Mid
  <2>2. Len(p) = n - Offset(fs, k) /\ n \in Nat /\ Offset(fs, k) \in Nat /\ (n > Offset(fs, k) => k \in 0..Len(fs) - 1)
    BY MidIs
  <2> QED BY <1>1, <1>2, <2>1, <2>2, StreamIs
<1>5. /\ Len(e) \in Nat /\ fs[k + 1] \in Frames /\ k + 1 = 1
      /\ \A i \in 1..Len(e) : i <= Len(p) => p[i] = e[i]
  BY <1>4, NextPending
<1>6. fs[k + 1].kind = "handshake"
  <2>1. 1 \in DOMAIN fs
    BY <1>4
  <2>2. fs[1].kind = "handshake" <=> 1 = 1 /\ fs[1].kind # "line"
    BY <1>4, <2>1 DEF IsStream
  <2> QED BY <1>4, <1>5, <2>2 DEF Lines
<1>7. Len(e) = 3 /\ e[1] = Get[1] /\ e[2] = Get[2] /\ e[3] = Blank
  BY <1>5, <1>6, HandshakeIs
<1>8. Get[1] # Blank /\ Get[2] # Blank
  BY DEF Get, Blank
<1> HIDE DEF e, p, j
<1>9. j = 3 /\ 3 <= Len(p)
  <2>1. j # 1 /\ j # 2
    BY <1>1, <1>2, <1>5, <1>7, <1>8
  <2>2. j >= 3 /\ Len(p) >= 3
    BY <1>1, <1>2, <2>1
  <2>3. p[3] = Blank
    BY <1>5, <1>7, <2>2
  <2>4. j <= 3
    BY <1>1, <1>2, <2>2, <2>3
  <2> QED BY <1>2, <2>2, <2>4
<1>10. /\ v \in Wires /\ v.pending = SubSeq(p, j + 1, Len(p)) /\ v.messages = w.messages
       /\ v.failures = w.failures /\ v.fragmented = w.fragmented
  <2>1. j \in 0..Len(w.pending)
    BY <1>1, <1>2 DEF p
  <2> QED BY <2>1, Chopped DEF p
<1> HIDE DEF v
<1>11. u.mode = "WebSocketFrames" /\ u.pending = v.pending /\ u.messages = v.messages
       /\ u.failures = v.failures /\ u.fragmented = v.fragmented
  BY <1>10 DEF Wires
<1> HIDE DEF u
<1>12. /\ SubSeq(p, j + 1, Len(p)) = SubSeq(All(fs), Offset(fs, k + 1) + 1, n)
       /\ n \in Offset(fs, k + 1)..Len(All(fs)) /\ k + 1 \in 0..Len(fs)
  <2>1. /\ SubSeq(p, Len(e) + 1, Len(p)) = SubSeq(All(fs), Offset(fs, k + 1) + 1, n)
        /\ n \in Offset(fs, k + 1)..Len(All(fs)) /\ k + 1 \in 0..Len(fs)
    <3>1. Len(e) <= Len(p)
      BY <1>7, <1>9
    <3>2. /\ Between(p, Len(e), Len(p)) = Between(All(fs), Offset(fs, k + 1), n)
          /\ n \in Offset(fs, k + 1)..Len(All(fs)) /\ k + 1 \in 0..Len(fs)
      BY <1>4, <3>1, PendingRest DEF e, p
    <3> QED BY <3>2 DEF Between
  <2> QED BY <1>7, <1>9, <2>1
<1>13. Opened(fs, k) = {} /\ Opened(fs, k + 1) = {} /\ Told(fs, k + 1) = Told(fs, k)
  BY <1>4, <1>6, OpenedNext, ToldNext
<1>14. Mid(u, fs, k + 1, n, x)
  <2>1. x \in Nat /\ w.fragmented = Opened(fs, k) /\ Others(w.messages) = Told(fs, k)
        /\ Len(w.messages) = Len(Told(fs, k)) + x
    BY DEF Mid
  <2>2. u.pending = SubSeq(All(fs), Offset(fs, k + 1) + 1, n)
    BY <1>10, <1>11, <1>12
  <2>3. u.fragmented = Opened(fs, k + 1) /\ Others(u.messages) = Told(fs, k + 1)
        /\ Len(u.messages) = Len(Told(fs, k + 1)) + x
    BY <1>10, <1>11, <1>13, <2>1
  <2>4. u.mode = "WebSocketFrames" /\ k + 1 > 0 /\ ~Lines(fs)
    BY <1>4, <1>11
  <2> QED BY <1>12, <2>1, <2>2, <2>3, <2>4 DEF Mid
<1> QED BY <1>3, <1>10, <1>11, <1>14 DEF Decided

\* A frame that is taken as it is meant.
LEMMA MidTakes ==
  ASSUME NEW fs \in Streams, NEW w \in Wires, NEW k, NEW n, NEW x, Mid(w, fs, k, n, x),
         w.mode \in {"JsonLines", "WebSocketFrames"},
         k \in 0..Len(fs) - 1, Len(Encode(fs[k + 1])) <= Len(w.pending), NEW v,
         v.mode = w.mode, v.fragmented = Opened(fs, k + 1),
         v.pending = SubSeq(w.pending, Len(Encode(fs[k + 1])) + 1, Len(w.pending)),
         v.messages = IF fs[k + 1].kind \in {"line", "text", "last"}
                      THEN Append(w.messages, Text(fs, k + 1)) ELSE w.messages
  PROVE  Mid(v, fs, k + 1, n, x)
<1> DEFINE t == Text(fs, k + 1)
           ends == fs[k + 1].kind \in {"line", "text", "last"}
<1>1. /\ v.pending = SubSeq(All(fs), Offset(fs, k + 1) + 1, n)
      /\ n \in Offset(fs, k + 1)..Len(All(fs)) /\ k + 1 \in 0..Len(fs)
  <2> DEFINE l == Len(Encode(fs[k + 1]))
             rest == Between(w.pending, l, Len(w.pending))
             left == Between(All(fs), Offset(fs, k + 1), n)
  <2>1. /\ rest = left /\ n \in Offset(fs, k + 1)..Len(All(fs)) /\ k + 1 \in 0..Len(fs)
    BY PendingRest
  <2>2. v.pending = rest
    BY DEF Between
  <2> HIDE DEF rest, left
  <2>3. v.pending = left
    BY <2>1, <2>2
  <2> QED BY <2>1, <2>3 DEF left, Between
<1>2. k \in Nat /\ k + 1 \in 1..Len(fs) /\ Len(fs) \in Nat
  BY StreamIs
<1>3. /\ x \in Nat /\ Others(w.messages) = Told(fs, k) /\ Len(w.messages) = Len(Told(fs, k)) + x
      /\ w.mode = "JsonLines" => Lines(fs)
      /\ w.mode = "WebSocketFrames" => ~Lines(fs)
  BY DEF Mid
<1>4. Told(fs, k + 1) = IF ends THEN Append(Told(fs, k), t) ELSE Told(fs, k)
  BY ToldNext
<1>5. t \in Seq(Units) /\ t # <<Letter(Own)>>
  BY <1>2, TextIs
<1>6. w.messages \in Messages
  BY DEF Wires, Messages
<1>7. Others(Append(w.messages, t)) = Append(Others(w.messages), t)
  <2>1. Others(Append(w.messages, t)) = IF t = <<Letter(Own)>> THEN Others(w.messages) ELSE Append(Others(w.messages), t)
    <3> HIDE DEF t
    <3> QED BY <1>5, <1>6, OthersNext
  <2> QED BY <1>5, <2>1
<1>8. Told(fs, k) \in Messages
  <2>1. k \in 0..Len(fs)
    BY <1>2
  <2> QED BY <2>1, ToldIs
<1>9. Len(Append(w.messages, t)) = Len(w.messages) + 1 /\ Len(Append(Told(fs, k), t)) = Len(Told(fs, k)) + 1
      /\ Len(w.messages) \in Nat /\ Len(Told(fs, k)) \in Nat
  <2> DEFINE a == w.messages
             b == Told(fs, k)
  <2>1. a \in Seq(Seq(Units)) /\ b \in Seq(Seq(Units)) /\ t \in Seq(Units)
    BY <1>5, <1>6, <1>8 DEF Messages
  <2> HIDE DEF a, b, t
  <2> QED BY <2>1 DEF a, b
<1>10. v.messages = IF ends THEN Append(w.messages, t) ELSE w.messages
  OBVIOUS
<1> HIDE DEF t, ends
<1>11. Others(v.messages) = Told(fs, k + 1)
  BY <1>3, <1>4, <1>7, <1>10
<1>12. Len(v.messages) = Len(Told(fs, k + 1)) + x
  <2>1. CASE ends
    <3>1. Len(v.messages) = Len(w.messages) + 1
      BY <1>9, <1>10, <2>1
    <3>2. Len(Told(fs, k + 1)) = Len(Told(fs, k)) + 1
      BY <1>4, <1>9, <2>1
    <3> DEFINE a == Len(w.messages)
               b == Len(Told(fs, k))
    <3>3. a \in Nat /\ b \in Nat /\ x \in Nat /\ a = b + x
      BY <1>3, <1>9
    <3>4. Len(v.messages) = a + 1 /\ Len(Told(fs, k + 1)) = b + 1
      BY <3>1, <3>2
    <3> HIDE DEF a, b
    <3>5. a + 1 = (b + 1) + x
      BY <3>3
    <3> QED BY <3>4, <3>5
  <2>2. CASE ~ends
    BY <1>3, <1>4, <1>10, <2>2
  <2> QED BY <2>1, <2>2
<1>13. k + 1 > 0
  BY <1>2
<1> QED BY <1>1, <1>3, <1>11, <1>12, <1>13 DEF Mid

LEMMA LineDecided ==
  ASSUME NEW fs \in Streams, NEW w \in Wires, NEW k, NEW n, NEW x, Mid(w, fs, k, n, x),
         ~Waits(w), w.mode = "JsonLines"
  PROVE  Decided(w, One(w), fs, n, x)
<1> DEFINE p == w.pending
           j == Find(p, Newline)
           f == fs[k + 1]
           e == Encode(f)
           y == f.payload
           u == Chop(w, j)
           m == SubSeq(p, 1, j - 1)
           v == Deliver(u, m)
<1>1. p \in Seq(Units) /\ Len(p) \in Nat /\ j # 0
  BY DEF Wires, Waits
<1>2. j \in 1..Len(p) /\ p[j] = Newline /\ \A i \in 1..Len(p) : p[i] = Newline => j <= i
  BY <1>1, Found
<1>3. One(w) = v
  BY DEF One, TakeLine
<1>4. Lines(fs) /\ k \in 0..Len(fs) - 1 /\ IsStream(fs) /\ DOMAIN fs = 1..Len(fs) /\ Len(fs) \in Nat
  <2>1. Lines(fs)
    BY DEF Mid
  <2>2. Len(p) = n - Offset(fs, k) /\ n \in Nat /\ Offset(fs, k) \in Nat /\ (n > Offset(fs, k) => k \in 0..Len(fs) - 1)
    BY MidIs
  <2> QED BY <1>1, <1>2, <2>1, <2>2, StreamIs
<1>5. /\ Len(e) \in Nat /\ f \in Frames /\ k + 1 \in 1..Len(fs)
      /\ \A i \in 1..Len(e) : i <= Len(p) => p[i] = e[i]
  BY <1>4, NextPending
<1>6. f.kind = "line"
  <2>1. \A i \in DOMAIN fs : fs[1].kind = "line" <=> fs[i].kind = "line"
    BY <1>4 DEF IsStream
  <2> QED BY <1>4, <1>5, <2>1 DEF Lines
<1>7. /\ Len(e) = Len(y) + 1 /\ \A i \in 1..Len(y) : e[i] = y[i]
      /\ e[Len(y) + 1] = Newline
  BY <1>5, <1>6, LineIs
<1>8. y \in Seq(Units) /\ Len(y) \in Nat /\ \A i \in 1..Len(y) : y[i] # Newline
  BY <1>5, PayloadIs
<1> HIDE DEF e, p, j, y
<1>9. j = Len(y) + 1 /\ Len(e) <= Len(p)
  <2>1. j > Len(y)
    <3> SUFFICES ASSUME j <= Len(y) PROVE FALSE
      BY <1>1, <1>2, <1>8
    <3>1. j \in 1..Len(y) /\ j \in 1..Len(e)
      BY <1>1, <1>2, <1>7, <1>8
    <3>2. p[j] = e[j] /\ e[j] = y[j]
      BY <1>1, <1>2, <1>5, <1>7, <3>1
    <3> QED BY <1>2, <1>8, <3>1, <3>2
  <2>2. Len(y) + 1 <= Len(p) /\ Len(y) + 1 \in 1..Len(p) /\ Len(y) + 1 \in 1..Len(e)
    BY <1>1, <1>2, <1>7, <1>8, <2>1
  <2>3. p[Len(y) + 1] = Newline
    BY <1>5, <1>7, <2>2
  <2>4. j <= Len(y) + 1
    BY <1>2, <2>2, <2>3
  <2> QED BY <1>1, <1>2, <1>7, <1>8, <2>1, <2>2, <2>4
<1>10. m = y
  <2>1. j - 1 = Len(y) /\ Len(y) <= Len(p)
    BY <1>1, <1>7, <1>8, <1>9
  <2>2. m \in Seq(Units) /\ Len(m) = Len(y) /\ \A i \in 1..Len(y) : m[i] = p[i]
    <3>1. m = SubSeq(p, 1, Len(y))
      BY <2>1
    <3> HIDE DEF m
    <3> QED BY <1>1, <1>8, <2>1, <3>1
  <2>3. \A i \in 1..Len(y) : m[i] = y[i]
    <3>1. \A i \in 1..Len(y) : i \in 1..Len(e) /\ i <= Len(p)
      BY <1>1, <1>7, <1>8, <2>1
    <3> QED BY <1>5, <1>7, <2>2, <3>1
  <2> HIDE DEF m
  <2> QED BY <1>8, <2>2, <2>3, SeqEqual
<1>11. /\ u \in Wires /\ u.pending = SubSeq(p, j + 1, Len(p)) /\ u.messages = w.messages
       /\ u.failures = w.failures /\ u.fragmented = w.fragmented /\ u.mode = w.mode
  <2>1. j \in 0..Len(w.pending)
    BY <1>1, <1>2 DEF p
  <2> QED BY <2>1, Chopped DEF p
<1> HIDE DEF u, m
<1>12. /\ v.mode = u.mode /\ v.pending = u.pending /\ v.failures = u.failures
       /\ v.fragmented = u.fragmented /\ v.messages = Append(u.messages, m)
  <2>1. m \in Seq(Units)
    BY <1>8, <1>10
  <2> QED BY <1>11, <2>1, Delivered
<1> HIDE DEF v
<1>13. Opened(fs, k) = {} /\ Opened(fs, k + 1) = {}
  BY <1>4, <1>6, OpenedNext
<1>14. Text(fs, k + 1) = y
  BY <1>6 DEF Text, y
<1>15. Mid(v, fs, k + 1, n, x)
  <2>1. v.messages = IF fs[k + 1].kind \in {"line", "text", "last"}
                     THEN Append(w.messages, Text(fs, k + 1)) ELSE w.messages
    BY <1>6, <1>10, <1>11, <1>12, <1>14
  <2>2. Len(Encode(fs[k + 1])) <= Len(w.pending)
        /\ v.pending = SubSeq(w.pending, Len(Encode(fs[k + 1])) + 1, Len(w.pending))
    BY <1>7, <1>9, <1>11, <1>12 DEF e, p
  <2>3. v.fragmented = Opened(fs, k + 1)
    BY <1>11, <1>12, <1>13 DEF Mid
  <2>4. v.mode = w.mode /\ w.mode \in {"JsonLines", "WebSocketFrames"}
    BY <1>11, <1>12
  <2> QED BY <1>4, <2>1, <2>2, <2>3, <2>4, MidTakes
<1> QED BY <1>3, <1>11, <1>12, <1>15 DEF Decided

\* What a frame's first units say.
LEMMA Heads ==
  /\ \A q \in Kinds : KindOf(First(q)) = q
  /\ \A q \in Nat : LengthOf(Length(q)) = q
BY DEF KindOf, First, LengthOf, Length

LEMMA FrameDecided ==
  ASSUME NEW fs \in Streams, NEW w \in Wires, NEW k, NEW n, NEW x, Mid(w, fs, k, n, x),
         ~Waits(w), w.mode = "WebSocketFrames"
  PROVE  Decided(w, One(w), fs, n, x)
<1> DEFINE p == w.pending
           f == fs[k + 1]
           e == Encode(f)
           y == f.payload
           u == Chop(w, Size(p))
           m == SubSeq(p, 3, Size(p))
<1>1. p \in Seq(Units) /\ Len(p) \in Nat /\ Len(p) >= 2 /\ (Malformed(p) \/ Len(p) >= Size(p))
      /\ w.failures \in Nat
  <2>1. p \in Seq(Units) /\ Len(p) \in Nat /\ w.failures \in Nat
    BY DEF Wires
  <2>2. ~(Len(p) < 2) /\ (Malformed(p) \/ ~(Len(p) < Size(p)))
    BY DEF Waits
  <2>3. Len(p) >= 2
    BY <2>1, <2>2
  <2>4. Size(p) \in Nat
    <3>1. p[2] \in Units
      BY <2>1, <2>3
    <3> QED BY <3>1, LengthIsNumber DEF Size
  <2> QED BY <2>1, <2>2, <2>3, <2>4
<1>2. One(w) = IF Malformed(p) THEN Cleared(w) ELSE TakeFrame(w)
  BY DEF One
<1>3. k > 0 /\ k \in Nat /\ ~Lines(fs) /\ k \in 0..Len(fs) - 1 /\ IsStream(fs) /\ DOMAIN fs = 1..Len(fs) /\ Len(fs) \in Nat
  <2>1. k > 0 /\ ~Lines(fs)
    BY DEF Mid
  <2>2. Len(p) = n - Offset(fs, k) /\ n \in Nat /\ Offset(fs, k) \in Nat /\ (n > Offset(fs, k) => k \in 0..Len(fs) - 1)
    BY MidIs
  <2> QED BY <1>1, <2>1, <2>2, StreamIs
<1>4. /\ Len(e) \in Nat /\ f \in Frames /\ k + 1 \in 1..Len(fs)
      /\ \A i \in 1..Len(e) : i <= Len(p) => p[i] = e[i]
  BY <1>3, NextPending
<1>5. f.kind # "line" /\ f.kind # "handshake" /\ Len(y) <= MaxWire
  <2>1. fs[1].kind = "line" <=> f.kind = "line"
    BY <1>3, <1>4 DEF IsStream
  <2>2. f.kind = "handshake" <=> k + 1 = 1 /\ fs[1].kind # "line"
    BY <1>3, <1>4 DEF IsStream
  <2>3. k + 1 # 1
    BY <1>3
  <2>4. f.kind # "line"
    BY <1>3, <2>1 DEF Lines
  <2> QED BY <1>4, <2>2, <2>3, <2>4, StreamIs
<1>6. ASSUME NEW v, One(w) = v, v.failures = w.failures + 1, Strange(fs, k + 1)
      PROVE  Decided(w, One(w), fs, n, x)
  <2>1. v.failures > w.failures
    BY <1>1, <1>6
  <2>2. k + 1 \in DOMAIN fs
    BY <1>3, <1>4
  <2> QED BY <1>6, <2>1, <2>2 DEF Decided
<1>7. CASE f.kind \in {"long", "reserved"}
  <2>1. Malformed(p)
    <3>1. CASE f.kind = "long"
      <4>1. Len(e) = 2 /\ e[2] = Length(MaxWire + 1)
        BY <1>4, <3>1, LongIs
      <4>2. p[2] = Length(MaxWire + 1)
        BY <1>1, <1>4, <4>1
      <4>3. MaxWire \in Nat /\ MaxWire + 1 \in Nat /\ MaxWire + 1 > MaxWire
        BY WireAssumption
      <4>4. LengthOf(p[2]) = MaxWire + 1
        BY <4>2, <4>3, Heads
      <4> QED BY <4>3, <4>4 DEF Malformed
    <3>2. CASE f.kind = "reserved"
      <4>1. Len(e) = 2 + Len(y) /\ f.kind \in Kinds /\ e[1] = First(f.kind) /\ Len(y) \in Nat
        BY <1>4, <3>2, FrameIs, PayloadIs
      <4>2. p[1] = First(f.kind)
        <5>1. 1 \in 1..Len(e) /\ 1 <= Len(p)
          BY <1>1, <4>1
        <5> QED BY <1>4, <4>1, <5>1
      <4>3. KindOf(p[1]) = "reserved"
        BY <3>2, <4>1, <4>2, Heads
      <4> QED BY <4>3 DEF Malformed
    <3> QED BY <1>7, <3>1, <3>2
  <2>2. One(w) = Cleared(w) /\ Cleared(w).failures = w.failures + 1
    BY <1>2, <2>1, Clearing
  <2>3. Strange(fs, k + 1)
    BY <1>7 DEF Strange
  <2> QED BY <1>6, <2>2, <2>3
<1>8. CASE f.kind \notin {"long", "reserved"}
  <2>1. /\ Len(e) = 2 + Len(y) /\ f.kind \in Kinds /\ e[1] = First(f.kind) /\ e[2] = Length(Len(y))
        /\ \A i \in 1..Len(y) : e[2 + i] = y[i]
    BY <1>4, <1>5, <1>8, FrameIs
  <2>2. y \in Seq(Units) /\ Len(y) \in Nat
    BY <1>4, PayloadIs
  <2> DEFINE ly == Len(y)
             z == Size(p)
  <2>3. p[1] = First(f.kind) /\ p[2] = Length(Len(y))
    <3>1. 1 \in 1..Len(e) /\ 2 \in 1..Len(e) /\ 1 <= Len(p) /\ 2 <= Len(p)
      BY <1>1, <2>1, <2>2
    <3> QED BY <1>4, <2>1, <3>1
  <2>4. KindOf(p[1]) = f.kind /\ LengthOf(p[2]) = ly
    BY <2>1, <2>2, <2>3, Heads
  <2>5. ~Malformed(p) /\ z = 2 + ly /\ z = Len(e)
    <3>1. ~(ly > MaxWire)
      BY <1>5, <2>2, WireAssumption
    <3> QED BY <1>8, <2>1, <2>4, <3>1 DEF Malformed, Size
  <2>6. Len(p) >= z /\ z \in Nat /\ z \in 0..Len(p)
    BY <1>1, <2>2, <2>5
  <2>7. One(w) = Accept(u, f.kind, m)
    BY <1>2, <2>4, <2>5 DEF TakeFrame
  <2>8. /\ u \in Wires /\ u.pending = SubSeq(p, z + 1, Len(p)) /\ u.messages = w.messages
        /\ u.failures = w.failures /\ u.fragmented = w.fragmented /\ u.mode = w.mode
    BY <2>6, Chopped
  <2>9. m = y
    <3>1. m = SubSeq(p, 3, z)
      OBVIOUS
    <3> HIDE DEF m, p, y, z, e
    <3>2. m \in Seq(Units) /\ Len(m) = ly /\ \A i \in 1..ly : m[i] = p[2 + i]
      <4>1. z = 2 + ly /\ ly \in Nat /\ z <= Len(p)
        BY <2>2, <2>5, <2>6 DEF ly
      <4> HIDE DEF ly
      <4>2. 3 = 2 + 1
        OBVIOUS
      <4>3. m = SubSeq(p, 2 + 1, z)
        BY <3>1, <4>2
      <4>4. m \in Seq(Units)
        BY <1>1, <2>6, <4>3, Cut
      <4> QED BY <1>1, <3>1, <4>1, <4>4
    <3>3. \A i \in 1..ly : m[i] = y[i]
      <4>1. \A i \in 1..ly : 2 + i \in 1..Len(e) /\ 2 + i <= Len(p)
        BY <1>1, <2>1, <2>2, <2>5, <2>6 DEF ly
      <4> QED BY <1>4, <2>1, <3>2, <4>1 DEF ly
    <3> QED BY <2>2, <3>2, <3>3, SeqEqual DEF ly
  <2> DEFINE v == Accept(u, f.kind, y)
  <2>10. One(w) = v
    BY <2>7, <2>9
  <2>11. v.mode = u.mode /\ v.pending = u.pending
    BY <2>2, <2>8, Accepting
  <2>12. ASSUME v.failures = w.failures, v.fragmented = Opened(fs, k + 1),
                v.messages = IF f.kind \in {"line", "text", "last"}
                             THEN Append(w.messages, Text(fs, k + 1)) ELSE w.messages
         PROVE  Decided(w, One(w), fs, n, x)
    <3>1. Len(e) <= Len(p) /\ v.pending = SubSeq(p, Len(e) + 1, Len(p)) /\ v.mode = w.mode
      BY <1>1, <2>5, <2>6, <2>8, <2>11
    <3>2. w.mode \in {"JsonLines", "WebSocketFrames"}
      OBVIOUS
    <3> HIDE DEF v
    <3>3. Mid(v, fs, k + 1, n, x)
      BY <1>3, <2>12, <3>1, <3>2, MidTakes
    <3> QED BY <2>10, <2>12, <3>3 DEF Decided
  <2>13. w.fragmented = Opened(fs, k)
    BY DEF Mid
  <2> HIDE DEF p, u, m, y, z, e
  <2>14. CASE f.kind = "text"
    <3>1. v = Deliver(u, y)
      BY <2>14 DEF Accept
    <3>2. Opened(fs, k) = {} /\ Opened(fs, k + 1) = {}
      BY <1>3, <2>14, OpenedNext
    <3>3. Text(fs, k + 1) = y
      BY <2>14 DEF Text, y
    <3>4. v.failures = u.failures /\ v.fragmented = u.fragmented /\ v.messages = Append(u.messages, y)
      BY <2>2, <2>8, <3>1, Delivered
    <3> HIDE DEF v
    <3> QED BY <2>8, <2>12, <2>13, <2>14, <3>2, <3>3, <3>4
  <2>15. CASE f.kind = "start"
    <3>1. v = [u EXCEPT !.fragmented = {y}]
      BY <2>15 DEF Accept
    <3>2. Opened(fs, k + 1) = {y}
      BY <1>3, <2>15, OpenedNext DEF y
    <3>3. {y} \in SUBSET Seq(Units)
      BY <2>2
    <3>4. v.failures = u.failures /\ v.fragmented = {y} /\ v.messages = u.messages
      BY <2>8, <3>1, <3>3, Unfragmented
    <3> HIDE DEF v
    <3> QED BY <2>8, <2>12, <2>15, <3>2, <3>4
  <2>16. CASE f.kind = "control"
    <3>1. v = u
      BY <2>16 DEF Accept
    <3>2. Opened(fs, k + 1) = Opened(fs, k)
      BY <1>3, <2>16, OpenedNext
    <3> QED BY <2>8, <2>12, <2>13, <2>16, <3>1, <3>2
  <2>17. CASE f.kind = "unknown"
    <3>1. v = Failed(u)
      BY <2>17 DEF Accept
    <3>2. v.failures = w.failures + 1
      BY <2>8, <3>1, Failing
    <3>3. Strange(fs, k + 1)
      BY <2>17 DEF Strange
    <3> HIDE DEF v
    <3> QED BY <1>6, <2>10, <3>2, <3>3
  <2>18. CASE f.kind \in {"more", "last"}
    <3> DEFINE s == Since(fs, Begun(fs, k), k)
               t == Text(fs, k + 1)
    <3>1. /\ Opened(fs, k) = {s} /\ s \in Seq(Units) /\ t = s \o y
          /\ Opened(fs, k + 1) = IF f.kind = "more" THEN {t} ELSE {}
      BY <1>3, <2>18, OpenedNext DEF y
    <3> HIDE DEF s, t
    <3>2. u.fragmented = {s} /\ u.fragmented # {}
      BY <2>8, <2>13, <3>1
    <3>3. (CHOOSE g \in u.fragmented : TRUE) \o y = t
      BY <3>1, <3>2
    <3>4. v = IF Len(t) > MaxWire THEN Failed([u EXCEPT !.fragmented = {}])
              ELSE IF f.kind = "last" THEN Deliver([u EXCEPT !.fragmented = {}], t)
              ELSE [u EXCEPT !.fragmented = {t}]
      BY <2>18, <3>2, <3>3 DEF Accept
    <3>5. t \in Seq(Units)
      BY <2>2, <3>1
    <3> DEFINE r == [u EXCEPT !.fragmented = {}]
    <3>6. /\ r \in Wires /\ r.failures = u.failures /\ r.messages = u.messages /\ r.fragmented = {}
      <4>1. {} \in SUBSET Seq(Units)
        OBVIOUS
      <4> QED BY <2>8, <4>1, Unfragmented
    <3>7. v = IF Len(t) > MaxWire THEN Failed(r) ELSE IF f.kind = "last" THEN Deliver(r, t)
              ELSE [u EXCEPT !.fragmented = {t}]
      BY <3>4
    <3> HIDE DEF r, v
    <3>8. CASE Len(t) > MaxWire
      <4>1. v.failures = w.failures + 1
        BY <2>8, <3>6, <3>7, <3>8, Failing
      <4>2. Strange(fs, k + 1)
        BY <3>8 DEF Strange, t
      <4> QED BY <1>6, <2>10, <4>1, <4>2
    <3>9. CASE ~(Len(t) > MaxWire) /\ f.kind = "last"
      <4>1. v = Deliver(r, t)
        BY <3>7, <3>9
      <4>2. v.failures = r.failures /\ v.fragmented = r.fragmented /\ v.messages = Append(r.messages, t)
        BY <3>5, <3>6, <4>1, Delivered
      <4> QED BY <2>8, <2>12, <3>1, <3>6, <3>9, <4>2 DEF t
    <3>10. CASE ~(Len(t) > MaxWire) /\ f.kind = "more"
      <4>1. v = [u EXCEPT !.fragmented = {t}]
        BY <3>7, <3>10
      <4>2. {t} \in SUBSET Seq(Units)
        BY <3>5
      <4>3. v.failures = u.failures /\ v.fragmented = {t} /\ v.messages = u.messages
        BY <2>8, <4>1, <4>2, Unfragmented
      <4> QED BY <2>8, <2>12, <3>1, <3>10, <4>3
    <3> QED BY <2>18, <3>8, <3>9, <3>10
  <2>19. f.kind \in {"text", "start", "more", "last", "control", "unknown"}
    BY <1>8, <2>1 DEF Kinds
  <2> QED BY <2>14, <2>15, <2>16, <2>17, <2>18, <2>19
<1> QED BY <1>7, <1>8

LEMMA EveryDecision ==
  ASSUME NEW fs \in Streams, NEW w \in Wires, NEW k, NEW n, NEW x, Mid(w, fs, k, n, x), ~Waits(w)
  PROVE  Decided(w, One(w), fs, n, x)
<1>1. w.mode \in {"Unknown", "JsonLines", "WebSocketHandshake", "WebSocketFrames"}
  BY DEF Wires, Modes
<1> QED BY <1>1, ModeDecided, HandshakeDecided, LineDecided, FrameDecided

\* And so for all that are made of a chunk.
LEMMA DecodesMid ==
  ASSUME NEW fs \in Streams, NEW w \in Wires, NEW k, NEW n, NEW x, Mid(w, fs, k, n, x)
  PROVE  Decided(w, Decoded(w), fs, n, x)
<1> DEFINE Good == {u \in Wires : \A j : Mid(u, fs, j, n, x) => Decided(u, Decoded(u), fs, n, x)}
<1>1. ASSUME NEW u \in Wires, Waits(u) PROVE u \in Good
  <2>1. Decoded(u) = u
    BY <1>1, AtRest
  <2>2. \A j : Mid(u, fs, j, n, x) => Decided(u, u, fs, n, x)
    BY DEF Decided
  <2> QED BY <2>1, <2>2
<1>2. ASSUME NEW u \in Wires, ~Waits(u), One(u) \in Good PROVE u \in Good
  <2> SUFFICES ASSUME NEW j, Mid(u, fs, j, n, x) PROVE Decided(u, Decoded(u), fs, n, x)
    OBVIOUS
  <2> DEFINE v == One(u)
             d == Decoded(u)
  <2>1. v \in Wires /\ Decoded(v) = d /\ d \in Wires /\ Grows(v, d)
    <3>1. Stands(u)
      BY <1>2, EveryDecisionStands
    <3>2. v \in Wires /\ Decoded(v) = d
      BY <3>1 DEF Stands
    <3> QED BY <3>2, Decodes
  <2>2. Decided(u, v, fs, n, x)
    BY <1>2, EveryDecision
  <2>3. \A i : Mid(v, fs, i, n, x) => Decided(v, d, fs, n, x)
    BY <1>2, <2>1
  <2>4. u.failures \in Nat /\ v.failures \in Nat /\ d.failures \in Nat /\ v.failures <= d.failures
    BY <2>1 DEF Wires, Grows
  <2> HIDE DEF v, d
  <2>5. CASE v.failures = u.failures /\ \E i : Mid(v, fs, i, n, x)
    <3>1. Decided(v, d, fs, n, x)
      BY <2>3, <2>5
    <3> QED BY <2>5, <3>1 DEF Decided, d
  <2>6. CASE v.failures > u.failures /\ \E i \in DOMAIN fs : Strange(fs, i)
    <3>1. d.failures > u.failures
      BY <2>4, <2>6
    <3> QED BY <2>6, <3>1 DEF Decided, d
  <2> QED BY <2>2, <2>5, <2>6 DEF Decided
<1>3. Wires \subseteq Good
  <2>1. /\ \A u \in Wires : Waits(u) => u \in Good
        /\ \A u \in Wires : ~Waits(u) /\ One(u) \in Good => u \in Good
    BY <1>1, <1>2
  <2> HIDE DEF Good
  <2> QED BY <2>1, ByRank
<1> QED BY <1>3

\* An observer at rest lacks something of the next frame.
LEMMA WaitsShort ==
  ASSUME NEW fs \in Streams, NEW w \in Wires, NEW k, NEW n, NEW x, Mid(w, fs, k, n, x), Waits(w),
         k \in 0..Len(fs) - 1
  PROVE  Len(w.pending) < Len(Encode(fs[k + 1]))
<1> DEFINE p == w.pending
           f == fs[k + 1]
           e == Encode(f)
           y == f.payload
<1>1. p \in Seq(Units) /\ Len(p) \in Nat
  BY DEF Wires
<1>2. /\ Len(e) \in Nat /\ Len(e) >= 1 /\ f \in Frames /\ k + 1 \in 1..Len(fs) /\ e \in Seq(Units)
      /\ \A i \in 1..Len(e) : i <= Len(p) => p[i] = e[i]
  BY NextPending
<1>3. y \in Seq(Units) /\ Len(y) \in Nat
  BY <1>2, PayloadIs
<1>4. IsStream(fs) /\ DOMAIN fs = 1..Len(fs) /\ Len(fs) \in Nat /\ k \in Nat
  BY StreamIs
<1>5. fs[1].kind = "line" <=> f.kind = "line"
  BY <1>2, <1>4 DEF IsStream
<1>6. f.kind = "handshake" <=> k + 1 = 1 /\ fs[1].kind # "line"
  BY <1>2, <1>4 DEF IsStream
<1>7. /\ w.mode = "Unknown" => k = 0
      /\ w.mode = "JsonLines" => f.kind = "line"
      /\ w.mode = "WebSocketHandshake" => f.kind = "handshake"
      /\ w.mode = "WebSocketFrames" => f.kind # "line" /\ f.kind # "handshake"
  <2>1. /\ w.mode = "Unknown" => k = 0
        /\ w.mode = "JsonLines" => Lines(fs)
        /\ w.mode = "WebSocketHandshake" => k = 0 /\ ~Lines(fs)
        /\ w.mode = "WebSocketFrames" => k > 0 /\ ~Lines(fs)
    BY DEF Mid
  <2>2. k > 0 => k + 1 # 1
    BY <1>4
  <2>3. k = 0 => k + 1 = 1
    BY <1>4
  <2> QED BY <1>5, <1>6, <2>1, <2>2, <2>3 DEF Lines
<1>8. SUFFICES ASSUME Len(e) <= Len(p) PROVE FALSE
  BY <1>1, <1>2
<1>9. \A i \in 1..Len(e) : p[i] = e[i] /\ i \in 1..Len(p)
  BY <1>1, <1>2, <1>8
<1>10. CASE w.mode = "Unknown"
  <2>1. IsPrefix(p, <<Get[1]>>)
    BY <1>10 DEF Waits
  <2>2. Len(p) = 0 \/ (Len(p) = 1 /\ p[1] = Get[1])
    BY <1>1, <2>1, Opening
  <2>3. Len(p) = 1 /\ p[1] = Get[1] /\ Len(e) = 1 /\ e[1] = Get[1]
    <3>1. Len(p) >= 1
      BY <1>1, <1>2, <1>8
    <3>2. Len(p) = 1 /\ p[1] = Get[1]
      BY <2>2, <3>1
    <3>3. Len(e) = 1
      <4> DEFINE a == Len(e)
                 b == Len(p)
      <4>1. a \in Nat /\ a >= 1 /\ a <= b /\ b = 1
        BY <1>2, <1>8, <3>2
      <4> HIDE DEF a, b
      <4>2. a = 1
        BY <4>1
      <4> QED BY <4>2 DEF a
    <3>4. p[1] = e[1]
      BY <1>9, <3>3
    <3> QED BY <3>2, <3>3, <3>4
  <2>4. k + 1 = 1
    BY <1>4, <1>7, <1>10
  <2>5. CASE f.kind = "handshake"
    BY <1>2, <2>3, <2>5, HandshakeIs
  <2>6. CASE f.kind = "line"
    <3>1. Len(e) = Len(y) + 1 /\ e[Len(y) + 1] = Newline
      BY <1>2, <2>6, LineIs
    <3>2. e[1] = Newline
      <4>1. Len(y) + 1 = 1
        BY <1>3, <2>3, <3>1
      <4> QED BY <3>1, <4>1
    <3>3. Newline # Get[1]
      BY DEF Newline, Get
    <3> QED BY <2>3, <3>2, <3>3
  <2> QED BY <1>5, <1>6, <2>4, <2>5, <2>6
<1>11. CASE w.mode = "WebSocketHandshake"
  <2>1. Find(p, Blank) = 0
    BY <1>11 DEF Waits
  <2>2. \A i \in 1..Len(p) : p[i] # Blank
    BY <1>1, <2>1, Found
  <2>3. Len(e) = 3 /\ e[3] = Blank
    BY <1>2, <1>7, <1>11, HandshakeIs
  <2>4. 3 \in 1..Len(e)
    BY <2>3
  <2> QED BY <1>9, <2>2, <2>3, <2>4
<1>12. CASE w.mode = "JsonLines"
  <2>1. Find(p, Newline) = 0
    BY <1>12 DEF Waits
  <2>2. \A i \in 1..Len(p) : p[i] # Newline
    BY <1>1, <2>1, Found
  <2>3. Len(e) = Len(y) + 1 /\ e[Len(y) + 1] = Newline
    BY <1>2, <1>7, <1>12, LineIs
  <2>4. Len(y) + 1 \in 1..Len(e)
    BY <1>3, <2>3
  <2> QED BY <1>9, <2>2, <2>3, <2>4
<1>13. CASE w.mode = "WebSocketFrames"
  <2>1. Len(p) < 2 \/ (~Malformed(p) /\ Len(p) < Size(p))
    BY <1>13 DEF Waits
  <2>2. CASE f.kind = "long"
    <3>1. Len(e) = 2 /\ e[2] = Length(MaxWire + 1)
      BY <1>2, <2>2, LongIs
    <3>2. 2 \in 1..Len(e)
      BY <3>1
    <3>3. p[2] = Length(MaxWire + 1) /\ ~(Len(p) < 2)
      BY <1>1, <1>8, <1>9, <3>1, <3>2
    <3>4. MaxWire \in Nat /\ MaxWire + 1 \in Nat /\ MaxWire + 1 > MaxWire
      BY WireAssumption
    <3>5. LengthOf(p[2]) = MaxWire + 1
      BY <3>3, <3>4, Heads
    <3> QED BY <2>1, <3>3, <3>4, <3>5 DEF Malformed
  <2>3. CASE f.kind # "long"
    <3>1. Len(e) = 2 + Len(y) /\ e[2] = Length(Len(y))
      BY <1>2, <1>7, <1>13, <2>3, FrameIs
    <3>2. 2 \in 1..Len(e)
      BY <1>3, <3>1
    <3>3. p[2] = Length(Len(y))
      BY <1>9, <3>1, <3>2
    <3>4. Size(p) = 2 + Len(y)
      BY <1>3, <3>3, Heads DEF Size
    <3>5. ~(Len(p) < 2) /\ ~(Len(p) < Size(p))
      BY <1>1, <1>3, <1>8, <3>1, <3>4
    <3> QED BY <2>1, <3>5
  <2> QED BY <2>2, <2>3
<1>14. w.mode \in {"Unknown", "JsonLines", "WebSocketHandshake", "WebSocketFrames"}
  BY DEF Wires, Modes
<1> QED BY <1>10, <1>11, <1>12, <1>13, <1>14

-----------------------------------------------------------------------------
(* One chunk.                                                               *)

LEMMA PiecesJoin ==
  ASSUME NEW a \in Seq(Units), NEW o \in Nat, NEW n \in Nat, NEW m \in Nat, o <= n, n <= m, m <= Len(a)
  PROVE  /\ SubSeq(a, o + 1, n) \o SubSeq(a, n + 1, m) = SubSeq(a, o + 1, m)
         /\ SubSeq(a, n + 1, m) \in Seq(Units) /\ Len(SubSeq(a, n + 1, m)) = m - n
<1> DEFINE s == SubSeq(a, o + 1, n)
           t == SubSeq(a, n + 1, m)
           r == SubSeq(a, o + 1, m)
<1>0. Len(a) \in Nat /\ n \in 0..Len(a) /\ m \in 0..Len(a)
  OBVIOUS
<1>1. s \in Seq(Units) /\ t \in Seq(Units) /\ r \in Seq(Units)
  BY <1>0, Cut
<1>2. Len(s) = n - o /\ \A i \in 1..n - o : s[i] = a[o + i]
  BY <1>0
<1>3. Len(t) = m - n /\ \A i \in 1..m - n : t[i] = a[n + i]
  BY <1>0
<1>4. Len(r) = m - o /\ \A i \in 1..m - o : r[i] = a[o + i]
  BY <1>0
<1> HIDE DEF s, t, r
<1>5. s \o t \in Seq(Units) /\ Len(s \o t) = Len(s) + Len(t)
      /\ \A i \in 1..Len(s) + Len(t) : (s \o t)[i] = IF i <= Len(s) THEN s[i] ELSE t[i - Len(s)]
  BY <1>1, ConcatProperties
<1>6. Len(s \o t) = Len(r)
  BY <1>2, <1>3, <1>4, <1>5
<1>7. \A i \in 1..m - o : (s \o t)[i] = r[i]
  <2> SUFFICES ASSUME NEW i \in 1..m - o PROVE (s \o t)[i] = r[i]
    OBVIOUS
  <2>1. i \in 1..Len(s) + Len(t)
    BY <1>2, <1>3
  <2>2. CASE i <= n - o
    <3>1. i \in 1..n - o
      BY <2>2
    <3> QED BY <1>2, <1>4, <1>5, <2>1, <2>2, <3>1
  <2>3. CASE ~(i <= n - o)
    <3>1. i - (n - o) \in 1..m - n /\ n + (i - (n - o)) = o + i
      BY <2>3
    <3>2. (s \o t)[i] = t[i - (n - o)]
      BY <1>2, <1>5, <2>1, <2>3
    <3> QED BY <1>3, <1>4, <3>1, <3>2
  <2> QED BY <2>2, <2>3
<1>8. s \o t = r
  BY <1>1, <1>4, <1>5, <1>6, <1>7, SeqEqual
<1> QED BY <1>1, <1>3, <1>8 DEF s, t, r

LEMMA FeedsMid ==
  ASSUME NEW fs \in Streams, NEW w \in Wires, NEW k, NEW n, NEW x, Mid(w, fs, k, n, x),
         NEW m \in n..Len(All(fs))
  PROVE  Decided(w, Feed(w, SubSeq(All(fs), n + 1, m)), fs, m, x)
<1> DEFINE a == All(fs)
           o == Offset(fs, k)
           c == SubSeq(a, n + 1, m)
           u == Push(w, c)
           d == Decoded(u)
           v == Feed(w, c)
<1>1. a \in Seq(Units) /\ Len(a) \in Nat /\ o \in Nat /\ n \in Nat /\ o <= n /\ n <= Len(a)
      /\ w.pending = SubSeq(a, o + 1, n)
  <2>1. w.pending = SubSeq(a, o + 1, n)
    BY DEF Mid
  <2> QED BY <2>1, MidIs
<1>2. m \in Nat /\ n <= m /\ m <= Len(a) /\ m \in o..Len(a)
  BY <1>1
<1> HIDE DEF a, o
<1>3. SubSeq(a, o + 1, n) \o c = SubSeq(a, o + 1, m) /\ c \in Seq(Units)
  BY <1>1, <1>2, PiecesJoin
<1> HIDE DEF c
<1>4. /\ u \in Wires /\ u.pending = w.pending \o c /\ u.mode = w.mode /\ u.messages = w.messages
      /\ u.failures = w.failures /\ u.fragmented = w.fragmented
  BY <1>3, Pushed
<1> HIDE DEF u
<1>5. Mid(u, fs, k, m, x)
  <2>1. u.pending = SubSeq(a, o + 1, m)
    BY <1>1, <1>3, <1>4
  <2> QED BY <1>2, <1>4, <2>1 DEF Mid, a, o
<1>6. Decided(u, d, fs, m, x)
  BY <1>4, <1>5, DecodesMid
<1>7. d \in Wires /\ Waits(d)
  BY <1>4, Decodes
<1>8. v = IF Len(d.pending) > MaxWire THEN Over(d) ELSE d
  BY <1>3, FeedIs DEF u
<1> HIDE DEF d, v
<1>9. v \in Wires /\ d.failures \in Nat /\ u.failures \in Nat /\ v.failures >= d.failures
      /\ (Len(d.pending) > MaxWire => v.failures > d.failures)
  <2>1. d.failures \in Nat /\ u.failures \in Nat
    BY <1>4, <1>7 DEF Wires
  <2>2. Over(d) \in Wires /\ Over(d).failures = d.failures + 1
    BY <1>7, Overflowing
  <2> QED BY <1>7, <1>8, <2>1, <2>2
<1>10. CASE d.failures > u.failures /\ \E i \in DOMAIN fs : Strange(fs, i)
  <2>1. v.failures > w.failures
    <3>1. v.failures \in Nat
      BY <1>9 DEF Wires
    <3> QED BY <1>4, <1>9, <1>10, <3>1
  <2> QED BY <1>10, <2>1 DEF Decided, v, c, a
<1>11. CASE d.failures = u.failures /\ \E j : Mid(d, fs, j, m, x)
  <2>1. PICK j : Mid(d, fs, j, m, x)
    BY <1>11
  <2>2. CASE Len(d.pending) > MaxWire
    <3>1. /\ Len(d.pending) = m - Offset(fs, j) /\ Offset(fs, j) \in Nat
          /\ (m > Offset(fs, j) => j \in 0..Len(fs) - 1) /\ Len(fs) \in Nat
      BY <1>7, <2>1, MidIs
    <3>2. MaxWire \in Nat
      BY WireAssumption
    <3>3. j \in 0..Len(fs) - 1
      BY <1>2, <2>2, <3>1, <3>2
    <3>4. Len(d.pending) < Len(Encode(fs[j + 1]))
      BY <1>7, <2>1, <3>3, WaitsShort
    <3>5. Len(Encode(fs[j + 1])) \in Nat
      BY <1>7, <2>1, <3>3, NextPending
    <3>6. Strange(fs, j + 1)
      <4> DEFINE b == Len(d.pending)
                 z == Len(Encode(fs[j + 1]))
      <4>1. b \in Nat /\ z \in Nat /\ b < z /\ b > MaxWire
        BY <1>2, <2>2, <3>1, <3>4, <3>5, <1>7 DEF Wires
      <4> HIDE DEF b, z
      <4>2. z - 1 > MaxWire
        BY <3>2, <4>1
      <4> QED BY <4>2 DEF Strange, z
    <3>7. j + 1 \in DOMAIN fs
      <4>1. DOMAIN fs = 1..Len(fs)
        BY StreamIs
      <4> QED BY <3>1, <3>3, <4>1
    <3>8. v.failures > w.failures
      BY <1>4, <1>9, <1>11, <2>2
    <3> QED BY <3>6, <3>7, <3>8 DEF Decided, v, c, a
  <2>3. CASE ~(Len(d.pending) > MaxWire)
    <3>1. v = d
      BY <1>8, <2>3
    <3>2. v.failures = w.failures /\ \E i : Mid(v, fs, i, m, x)
      BY <1>4, <1>11, <2>1, <3>1
    <3> QED BY <3>2 DEF Decided, v, c, a
  <2> QED BY <2>2, <2>3
<1> QED BY <1>6, <1>10, <1>11 DEF Decided

\* The owner's frame between two of the client's.
LEMMA OwnMid ==
  ASSUME NEW fs \in Streams, NEW w \in Wires, NEW k, NEW n, NEW x, Mid(w, fs, k, n, x),
         n = Offset(fs, k), k # 0, ~Lines(fs)
  PROVE  LET v == Feed(w, OwnUnits)
         IN  v.failures = w.failures /\ Mid(v, fs, k, n, x + 1)
<1> DEFINE o == OwnUnits
           u == Push(w, o)
           g == <<Letter(Own)>>
           c == Chop(u, 3)
           d == Deliver(c, g)
           v == Feed(w, o)
<1>1. /\ n \in Nat /\ Len(w.pending) = 0 /\ w.pending = <<>> /\ w.mode = "WebSocketFrames" /\ x \in Nat
      /\ w.messages \in Messages
  <2>1. n \in Nat /\ Len(w.pending) = n - n
    BY MidIs
  <2>2. w.pending \in Seq(Units) /\ w.mode \in Modes /\ w.messages \in Messages
    BY DEF Wires, Messages
  <2>3. w.mode = "WebSocketFrames" /\ x \in Nat
    BY <2>2 DEF Mid, Modes
  <2> QED BY <2>1, <2>2, <2>3
<1>2. /\ o \in Seq(Units) /\ Len(o) = 3 /\ KindOf(o[1]) = "text" /\ LengthOf(o[2]) = 1 /\ o[3] = Letter(Own)
      /\ g \in Seq(Units)
  <2>1. o \in Seq(Units) /\ Len(o) = 3 /\ KindOf(o[1]) = "text" /\ LengthOf(o[2]) = 1 /\ o[3] = Letter(Own)
    BY OwnParts
  <2>2. Letter(Own) \in Units
    BY ForwardingAssumption DEF Units
  <2>3. g \in Seq(Units)
    BY <2>2
  <2> QED BY <2>1, <2>3
<1> HIDE DEF o
<1>3. /\ u \in Wires /\ u.pending = o /\ u.mode = w.mode /\ u.messages = w.messages
      /\ u.failures = w.failures /\ u.fragmented = w.fragmented
  <2>1. w.pending \o o = o
    BY <1>1, <1>2
  <2> QED BY <1>2, <2>1, Pushed
<1> HIDE DEF u
<1>4. Size(u.pending) = 3 /\ ~Malformed(u.pending)
  <2>1. MaxWire \in Nat /\ MaxWire >= 1
    BY WireAssumption
  <2> QED BY <1>2, <1>3, <2>1 DEF Size, Malformed
<1>5. SubSeq(o, 3, 3) = g
  <2> DEFINE t == SubSeq(o, 3, 3)
  <2>1. Len(t) = 1 /\ t[1] = o[3] /\ t \in Seq(Units)
    <3>1. SubSeq(o, 2 + 1, 3) \in Seq(Units)
      BY <1>2, Cut
    <3> QED BY <1>2, <3>1
  <2>2. g \in Seq(Units) /\ Len(g) = 1 /\ g[1] = Letter(Own)
    BY <1>2
  <2> HIDE DEF t, g
  <2>3. \A i \in 1..Len(t) : t[i] = g[i]
    BY <1>2, <2>1, <2>2
  <2>4. t = g
    BY <2>1, <2>2, <2>3, SeqEqual
  <2> QED BY <2>4 DEF t
<1> HIDE DEF g
<1>6. ~Waits(u) /\ One(u) = d
  <2>1. ~Waits(u)
    <3>1. Len(u.pending) = 3 /\ u.mode = "WebSocketFrames"
      BY <1>1, <1>2, <1>3
    <3>2. ~(Len(u.pending) < 2) /\ ~(Len(u.pending) < Size(u.pending))
      BY <1>4, <3>1
    <3> QED BY <3>1, <3>2 DEF Waits
  <2>2. One(u) = TakeFrame(u)
    BY <1>1, <1>3, <1>4 DEF One
  <2>3. TakeFrame(u) = Accept(c, "text", g)
    BY <1>2, <1>3, <1>4, <1>5 DEF TakeFrame
  <2>4. Accept(c, "text", g) = d
    BY DEF Accept
  <2> QED BY <2>1, <2>2, <2>3, <2>4
<1>7. /\ c \in Wires /\ c.pending = SubSeq(o, 4, 3) /\ c.messages = u.messages
      /\ c.failures = u.failures /\ c.fragmented = u.fragmented /\ c.mode = u.mode /\ Len(c.pending) = 0
  <2>1. 3 \in 0..Len(u.pending) /\ 3 + 1 = 4 /\ Len(u.pending) = 3
    <3>1. Len(u.pending) = 3
      BY <1>2, <1>3
    <3> QED BY <3>1
  <2>2. /\ c \in Wires /\ c.pending = SubSeq(u.pending, 3 + 1, Len(u.pending)) /\ c.messages = u.messages
        /\ c.failures = u.failures /\ c.fragmented = u.fragmented /\ c.mode = u.mode
        /\ Len(c.pending) = Len(u.pending) - 3
    BY <1>3, <2>1, Chopped
  <2> QED BY <1>3, <2>1, <2>2
<1> HIDE DEF c
<1>8. /\ d \in Wires /\ d.pending = c.pending /\ d.messages = Append(c.messages, g)
      /\ d.failures = c.failures /\ d.fragmented = c.fragmented /\ d.mode = c.mode
  BY <1>2, <1>7, Delivered
<1> HIDE DEF d
<1>9. Decoded(u) = d
  <2>1. Waits(d)
    BY <1>1, <1>3, <1>7, <1>8 DEF Waits
  <2>2. Decoded(d) = d
    BY <1>8, <2>1, AtRest
  <2>3. Decoded(One(u)) = Decoded(u)
    BY <1>3, <1>6, EveryDecisionStands DEF Stands
  <2> QED BY <1>6, <2>2, <2>3
<1>10. v = d
  <2>1. ~(Len(d.pending) > MaxWire)
    BY <1>7, <1>8, WireAssumption
  <2> QED BY <1>2, <1>9, <2>1, FeedIs DEF u
<1>11. Mid(d, fs, k, n, x + 1)
  <2>1. d.pending = <<>>
    BY <1>7, <1>8 DEF Wires
  <2>2. d.pending = w.pending
    BY <1>1, <2>1
  <2>3. Others(d.messages) = Others(w.messages)
    <3>1. g = <<Letter(Own)>>
      BY DEF g
    <3>2. d.messages = Append(w.messages, g)
      BY <1>3, <1>7, <1>8
    <3>3. w.messages \in Messages /\ g \in Seq(Units)
      BY <1>1, <1>2
    <3>4. Others(Append(w.messages, g)) = Others(w.messages)
      BY <3>1, <3>3, OthersNext
    <3> QED BY <3>2, <3>4
  <2>4. Len(d.messages) = Len(w.messages) + 1 /\ Len(w.messages) \in Nat
    <3> DEFINE ms == w.messages
    <3>1. ms \in Seq(Seq(Units)) /\ d.messages = Append(ms, g)
      BY <1>1, <1>3, <1>7, <1>8 DEF Messages
    <3> HIDE DEF ms
    <3>2. Len(Append(ms, g)) = Len(ms) + 1 /\ Len(ms) \in Nat
      BY <1>2, <3>1
    <3> QED BY <3>1, <3>2 DEF ms
  <2>5. d.mode = w.mode /\ d.fragmented = w.fragmented
    BY <1>3, <1>7, <1>8
  <2>6. Len(d.messages) = Len(Told(fs, k)) + (x + 1)
    <3>1. Len(w.messages) = Len(Told(fs, k)) + x
      BY DEF Mid
    <3>2. Len(Told(fs, k)) \in Nat
      <4>1. k \in 0..Len(fs)
        BY DEF Mid
      <4> QED BY <4>1, ToldIs
    <3> DEFINE a == Len(w.messages)
               b == Len(Told(fs, k))
    <3>3. a = b + x /\ a \in Nat /\ b \in Nat /\ Len(d.messages) = a + 1
      BY <2>4, <3>1, <3>2
    <3> HIDE DEF a, b
    <3>4. a + 1 = b + (x + 1)
      BY <1>1, <3>3
    <3> QED BY <3>3, <3>4 DEF b
  <2>7. x + 1 \in Nat
    BY <1>1
  <2> QED BY <2>2, <2>3, <2>5, <2>6, <2>7 DEF Mid
<1> QED BY <1>3, <1>7, <1>8, <1>10, <1>11 DEF o

-----------------------------------------------------------------------------
(* What is read is what is meant.                                           *)

\* Where an observer at rest is in the stream.
LEMMA MidAtRest ==
  ASSUME NEW fs \in Streams, NEW w \in Wires, NEW k, NEW n, NEW x, Mid(w, fs, k, n, x), Waits(w)
  PROVE  /\ k \in 0..Len(fs) /\ Len(fs) \in Nat
         /\ \A i \in 0..Len(fs) : Offset(fs, i) \in Nat /\ (Offset(fs, i) <= n <=> i <= k)
         /\ \A i \in 0..Len(fs) : Offset(fs, i) = n => i = k
<1>1. /\ k \in 0..Len(fs) /\ Len(fs) \in Nat /\ n \in Nat /\ Offset(fs, k) \in Nat /\ Offset(fs, k) <= n
      /\ Len(w.pending) = n - Offset(fs, k)
  BY MidIs
<1>2. k \in 0..Len(fs) - 1 => n < Offset(fs, k + 1)
  <2> SUFFICES ASSUME k \in 0..Len(fs) - 1 PROVE n < Offset(fs, k + 1)
    OBVIOUS
  <2>1. Len(w.pending) < Len(Encode(fs[k + 1]))
    BY WaitsShort
  <2>2. Offset(fs, k + 1) = Offset(fs, k) + Len(Encode(fs[k + 1])) /\ Len(Encode(fs[k + 1])) \in Nat
    BY NextPending
  <2> DEFINE a == Offset(fs, k)
             b == Len(Encode(fs[k + 1]))
  <2>3. n - a < b /\ Offset(fs, k + 1) = a + b /\ a \in Nat /\ b \in Nat
    BY <1>1, <2>1, <2>2
  <2> HIDE DEF a, b
  <2>4. n < a + b
    BY <1>1, <2>3
  <2> QED BY <2>3, <2>4
<1>3. ASSUME NEW i \in 0..Len(fs) PROVE Offset(fs, i) \in Nat /\ (Offset(fs, i) <= n <=> i <= k)
  <2>1. CASE i <= k
    <3>1. i \in 0..k
      BY <1>1, <2>1
    <3>2. Offset(fs, i) \in Nat /\ Offset(fs, i) <= Offset(fs, k)
      BY <1>1, <3>1, UptoPrefix
    <3> QED BY <1>1, <2>1, <3>2
  <2>2. CASE ~(i <= k)
    <3>1. k \in 0..Len(fs) - 1 /\ k + 1 \in 0..i
      BY <1>1, <2>2
    <3>2. Offset(fs, k + 1) \in Nat /\ Offset(fs, k + 1) <= Offset(fs, i)
      BY <3>1, UptoPrefix
    <3>3. Offset(fs, i) \in Nat
      <4>1. i \in 0..i
        OBVIOUS
      <4> QED BY <4>1, UptoPrefix
    <3> DEFINE a == Offset(fs, i)
               b == Offset(fs, k + 1)
    <3>4. a \in Nat /\ b \in Nat /\ b <= a /\ n < b
      BY <1>2, <3>1, <3>2, <3>3
    <3> HIDE DEF a, b
    <3>5. ~(a <= n)
      BY <1>1, <3>4
    <3> QED BY <2>2, <3>3, <3>5 DEF a
  <2> QED BY <2>1, <2>2
<1>4. ASSUME NEW i \in 0..Len(fs), Offset(fs, i) = n PROVE i = k
  <2>1. i <= k
    BY <1>1, <1>3, <1>4
  <2> SUFFICES ASSUME i < k PROVE FALSE
    BY <1>1, <2>1
  <2>2. i \in 0..k
    BY <1>1, <2>1
  <2>3. Offset(fs, i) < Offset(fs, k)
    BY <1>1, <2>2, UptoPrefix
  <2> DEFINE a == Offset(fs, k)
  <2>4. a \in Nat /\ a <= n /\ n < a
    BY <1>1, <1>4, <2>3
  <2> HIDE DEF a
  <2> QED BY <1>1, <2>4
<1> QED BY <1>1, <1>3, <1>4

LEMMA CompleteIs ==
  ASSUME NEW k, NEW n, NEW x, sent \in Streams, wire \in Wires, Mid(wire, sent, k, n, x), Waits(wire)
  PROVE  Complete(n) = k
<1>1. /\ k \in 0..Len(sent) /\ Len(sent) \in Nat
      /\ \A i \in 0..Len(sent) : Offset(sent, i) <= n <=> i <= k
  BY MidAtRest
<1>2. \A i \in 0..Len(sent) : Len(FlattenSeq([j \in 1..i |-> Encode(sent[j])])) = Offset(sent, i)
  BY OffsetIs
<1>3. DOMAIN sent = 1..Len(sent)
  BY StreamIs
<1> DEFINE L(i) == Len(FlattenSeq([j \in 1..i |-> Encode(sent[j])]))
<1>4. \A i \in 1..Len(sent) : L(i) <= n <=> i <= k
  BY <1>1, <1>2
<1>5. Complete(n) = Cardinality({i \in 1..Len(sent) : L(i) <= n})
  BY <1>3 DEF Complete
<1> HIDE DEF L
<1>6. {i \in 1..Len(sent) : L(i) <= n} = {i \in 1..Len(sent) : i <= k}
  BY <1>4, Zenon
<1>7. {i \in 1..Len(sent) : i <= k} = 1..k
  BY <1>1
<1>8. Cardinality(1..k) = k
  BY <1>1, FS_Interval
<1> QED BY <1>5, <1>6, <1>7, <1>8

\* How far the client's units are read.
Extent == taken + (IF inputPc = "gate" THEN Len(chunk) ELSE 0)

\* What is read and what is not are where they were in the stream.
Placed ==
    /\ Extent \in taken..Len(ClientUnits)
    /\ socket = SubSeq(ClientUnits, Extent + 1, Len(ClientUnits))
    /\ inputPc = "gate" => chunk = SubSeq(ClientUnits, taken + 1, Extent)

\* The observer is in the middle of the stream, or has failed for a cause of the client's.
Reading ==
    ~spoiled =>
        \/ wire.failures = 0 /\ \E k : Mid(wire, sent, k, taken, injected)
        \/ wire.failures > 0 /\ \E i \in DOMAIN sent : Strange(sent, i)

Follows == Typed /\ Waits(wire) /\ Placed /\ Reading

LEMMA FollowsFirst == Init => Follows
<1> SUFFICES ASSUME Init PROVE Follows
  OBVIOUS
<1>1. Typed
  BY TypedFirst
<1>2. wire = Fresh /\ sent \in Streams /\ taken = 0 /\ injected = 0 /\ socket = ClientUnits /\ inputPc = "read"
  BY DEF Init
<1>3. Waits(wire) /\ wire.failures = 0 /\ wire.messages = <<>>
  BY <1>2, FreshWire
<1> DEFINE a == ClientUnits
<1>4. a \in Seq(Units) /\ a = All(sent)
  BY <1>2, ClientSendsUnits, ClientUnitsAre
<1> HIDE DEF a
<1>5. Placed
  <2>1. Extent = 0
    BY <1>2 DEF Extent
  <2>2. SubSeq(a, 0 + 1, Len(a)) = a /\ Len(a) \in Nat
    BY <1>4
  <2> QED BY <1>2, <2>1, <2>2 DEF Placed, a
<1>6. Mid(wire, sent, 0, 0, 0)
  <2>1. Offset(sent, 0) = 0 /\ Len(All(sent)) \in Nat /\ Len(sent) \in Nat /\ 0 \in 0..Len(sent)
    <3>1. Upto(sent, 0) = <<>> /\ Len(<<>>) = 0
      BY JoinedNone DEF Upto
    <3>2. Offset(sent, 0) = 0
      BY <3>1 DEF Offset
    <3>3. Len(sent) \in Nat
      BY <1>2, StreamIs
    <3> QED BY <1>4, <3>2, <3>3
  <2>2. wire.pending = <<>> /\ wire.mode = "Unknown" /\ wire.fragmented = {} /\ wire.messages = <<>>
    BY <1>2 DEF Fresh
  <2>3. SubSeq(All(sent), 0 + 1, 0) = <<>>
    BY <1>4
  <2>4. Opened(sent, 0) = {}
    BY <1>2, OpenedFirst
  <2>5. Told(sent, 0) = <<>> /\ Others(<<>>) = <<>> /\ Len(<<>>) = 0
    BY <1>2, ToldFirst, OthersFirst
  <2>6. Others(wire.messages) = Told(sent, 0) /\ Len(wire.messages) = Len(Told(sent, 0)) + 0
    BY <2>2, <2>5
  <2>7. 0 \in Offset(sent, 0)..Len(All(sent)) /\ wire.pending = SubSeq(All(sent), Offset(sent, 0) + 1, 0)
    BY <2>1, <2>2, <2>3
  <2> QED BY <2>1, <2>2, <2>4, <2>6, <2>7 DEF Mid
<1>7. Reading
  <2>1. \E k : Mid(wire, sent, k, taken, injected)
    BY <1>2, <1>6
  <2> QED BY <1>3, <2>1 DEF Reading
<1> QED BY <1>1, <1>3, <1>5, <1>7 DEF Follows

LEMMA CutOfRest ==
  ASSUME NEW a \in Seq(Units), NEW t \in Nat, NEW n \in Nat, n >= 1, t + n <= Len(a),
         NEW s, s = SubSeq(a, t + 1, Len(a))
  PROVE  SubSeq(s, 1, n) = SubSeq(a, t + 1, t + n)
<1> DEFINE l == SubSeq(s, 1, n)
           r == SubSeq(a, t + 1, t + n)
<1>1. Len(a) \in Nat /\ t \in 0..Len(a) /\ Len(a) \in 0..Len(a) /\ t + n \in 0..Len(a) /\ t <= Len(a)
  OBVIOUS
<1>2. s \in Seq(Units) /\ Len(s) = Len(a) - t /\ \A i \in 1..Len(a) - t : s[i] = a[t + i]
  <2>1. s \in Seq(Units)
    BY <1>1, Cut
  <2> QED BY <1>1, <2>1
<1>3. r \in Seq(Units)
  BY <1>1, Cut
<1>4. Len(r) = n /\ \A i \in 1..n : r[i] = a[t + i]
  BY <1>1
<1>5. n \in 0..Len(s) /\ 0 + 1 = 1 /\ 0 \in Nat
  BY <1>1, <1>2
<1> HIDE DEF r
<1>6. SubSeq(s, 0 + 1, n) \in Seq(Units)
  BY <1>2, <1>5, Cut
<1>7. l \in Seq(Units)
  BY <1>5, <1>6
<1>8. Len(l) = n /\ \A i \in 1..n : l[i] = s[i]
  BY <1>2, <1>5
<1> HIDE DEF l
<1>9. \A i \in 1..Len(l) : l[i] = r[i]
  <2>1. \A i \in 1..n : i \in 1..Len(a) - t
    BY <1>1
  <2> QED BY <1>2, <1>4, <1>8, <2>1
<1>10. l = r
  BY <1>3, <1>4, <1>7, <1>8, <1>9, SeqEqual
<1> QED BY <1>10 DEF l, r

LEMMA RestOfRest ==
  ASSUME NEW a \in Seq(Units), NEW t \in Nat, NEW n \in Nat, n >= 1, t + n <= Len(a),
         NEW s, s = SubSeq(a, t + 1, Len(a))
  PROVE  SubSeq(s, n + 1, Len(s)) = SubSeq(a, t + n + 1, Len(a))
<1> DEFINE l == SubSeq(s, n + 1, Len(s))
           q == t + n
           r == SubSeq(a, q + 1, Len(a))
<1>1. Len(a) \in Nat /\ t \in 0..Len(a) /\ Len(a) \in 0..Len(a) /\ q \in 0..Len(a) /\ q \in Nat /\ t <= Len(a)
  OBVIOUS
<1>2. s \in Seq(Units) /\ Len(s) = Len(a) - t /\ \A i \in 1..Len(a) - t : s[i] = a[t + i]
  <2>1. s \in Seq(Units) /\ Len(s) = Len(a) - t
    BY <1>1, Cut
  <2>2. \A i \in 1..Len(a) - t : s[i] = a[t + i]
    BY <1>1
  <2> QED BY <2>1, <2>2
<1>3. r \in Seq(Units) /\ Len(r) = Len(a) - q /\ \A i \in 1..Len(a) - q : r[i] = a[q + i]
  <2> HIDE DEF q
  <2>1. r \in Seq(Units) /\ Len(r) = Len(a) - q
    BY <1>1, Cut
  <2>2. \A i \in 1..Len(a) - q : r[i] = a[q + i]
    BY <1>1
  <2> QED BY <2>1, <2>2
<1>4. Len(s) \in 0..Len(s) /\ n <= Len(s) /\ Len(s) \in Nat /\ Len(s) - n = Len(a) - q
  BY <1>1, <1>2
<1>5. l \in Seq(Units) /\ Len(l) = Len(s) - n /\ \A i \in 1..Len(s) - n : l[i] = s[n + i]
  <2>1. l \in Seq(Units)
    BY <1>2, <1>4, Cut
  <2> QED BY <1>2, <1>4, <2>1
<1>6. \A i \in 1..Len(a) - q : n + i \in 1..Len(a) - t /\ t + (n + i) = q + i
  BY <1>1
<1> HIDE DEF l, r, q
<1>7. \A i \in 1..Len(l) : l[i] = r[i]
  <2>1. \A i \in 1..Len(l) : i \in 1..Len(a) - q /\ i \in 1..Len(s) - n
    BY <1>4, <1>5
  <2> SUFFICES ASSUME NEW i \in 1..Len(l) PROVE l[i] = r[i]
    OBVIOUS
  <2>2. l[i] = s[n + i] /\ r[i] = a[q + i]
    BY <1>3, <1>5, <2>1
  <2>3. s[n + i] = a[t + (n + i)] /\ t + (n + i) = q + i
    BY <1>2, <1>6, <2>1
  <2> QED BY <2>2, <2>3
<1>8. l = r
  BY <1>3, <1>4, <1>5, <1>7, SeqEqual
<1> QED BY <1>8 DEF l, r, q

LEMMA PlacedNext == Typed /\ Placed /\ [Next]_vars => Placed'
<1> SUFFICES ASSUME Typed, Placed, [Next]_vars PROVE Placed'
  OBVIOUS
<1> DEFINE a == ClientUnits
<1>0. /\ sent \in Streams /\ socket \in Seq(Units) /\ chunk \in Seq(Units) /\ taken \in Nat
      /\ inputPc \in {"read", "gate", "prepare", "write", "ended"} /\ Len(socket) \in Nat /\ Len(chunk) \in Nat
  <2>1. /\ sent \in Streams /\ socket \in Seq(Units) /\ chunk \in Seq(Units) /\ taken \in Nat
        /\ inputPc \in {"read", "gate", "prepare", "write", "ended"}
    BY DEF Typed, TypeOK
  <2> QED BY <2>1
<1>1. sent' = sent /\ ClientUnits' = ClientUnits
  <2>1. sent' = sent
    BY DEF Next, Read, ReadShut, Observe, Prepare, WriteChunk, ReadReply, WriteReply, WriteFails,
           Unsubscribe, WriteFrame, Drop, JoinInput, JoinOutput, Relay, Reply, ProxyDies, vars
  <2> QED BY <2>1 DEF ClientUnits
<1>2. a \in Seq(Units) /\ Len(a) \in Nat
  <2>1. a \in Seq(Units)
    BY <1>0, ClientSendsUnits
  <2> QED BY <2>1
<1>3. /\ Extent \in taken..Len(a) /\ socket = SubSeq(a, Extent + 1, Len(a))
      /\ inputPc = "gate" => chunk = SubSeq(a, taken + 1, Extent)
  BY DEF Placed
<1> HIDE DEF a
<1>4. Extent \in Nat
  BY <1>0, <1>2, <1>3
<1>5. ASSUME socket' = socket, taken' = taken, inputPc' = "gate" <=> inputPc = "gate",
             inputPc = "gate" => chunk' = chunk
      PROVE  Placed'
  BY <1>1, <1>5 DEF Placed, Extent
<1>6. CASE Read
  <2>1. inputPc = "read" /\ taken' = taken /\ Extent = taken
    <3>1. inputPc = "read" /\ taken' = taken
      BY <1>6 DEF Read
    <3>2. Extent = taken + 0
      BY <3>1 DEF Extent
    <3> QED BY <1>0, <3>1, <3>2
  <2>2. CASE \E n \in 1..Len(socket) :
               /\ chunk' = SubSeq(socket, 1, n) /\ socket' = SubSeq(socket, n + 1, Len(socket))
               /\ inputPc' = "gate"
    <3>1. PICK n \in 1..Len(socket) :
               /\ chunk' = SubSeq(socket, 1, n) /\ socket' = SubSeq(socket, n + 1, Len(socket))
               /\ inputPc' = "gate"
      BY <2>2
    <3> DEFINE t == taken
    <3>2. Len(socket) = Len(a) - t /\ t \in Nat /\ t <= Len(a) /\ socket = SubSeq(a, t + 1, Len(a))
      <4>1. t \in 0..Len(a) /\ Len(a) \in 0..Len(a)
        BY <1>0, <1>2, <1>3, <2>1
      <4>2. socket = SubSeq(a, t + 1, Len(a))
        BY <1>3, <2>1
      <4> HIDE DEF t
      <4> QED BY <1>2, <4>1, <4>2, Cut
    <3>3. n \in Nat /\ n >= 1 /\ t + n <= Len(a) /\ t + n \in Nat
      BY <1>0, <1>2, <3>2
    <3>4. SubSeq(socket, 1, n) = SubSeq(a, t + 1, t + n)
      <4> HIDE DEF t
      <4> QED BY <1>2, <3>2, <3>3, CutOfRest
    <3>5. SubSeq(socket, n + 1, Len(socket)) = SubSeq(a, t + n + 1, Len(a))
      <4> HIDE DEF t
      <4> QED BY <1>2, <3>2, <3>3, RestOfRest
    <3>6. Len(chunk') = n
      <4>1. SubSeq(socket, 0 + 1, n) \in Seq(Units) /\ Len(SubSeq(socket, 0 + 1, n)) = IF 0 < n THEN n - 0 ELSE 0
        <5>1. n \in 0..Len(socket) /\ 0 \in Nat
          BY <1>0
        <5> QED BY <1>0, <5>1, Cut
      <4> QED BY <3>1, <3>3, <4>1
    <3>7. Extent' = t + n
      BY <2>1, <3>1, <3>6 DEF Extent
    <3> QED BY <1>0, <1>1, <1>2, <2>1, <3>1, <3>3, <3>4, <3>5, <3>7 DEF Placed, a
  <2>3. CASE inputPc' = "ended" /\ UNCHANGED <<chunk, socket>>
    BY <1>5, <2>1, <2>3
  <2> QED BY <1>6, <2>2, <2>3 DEF Read
<1>7. CASE Observe
  <2>1. /\ inputPc = "gate" /\ taken' = taken + Len(chunk) /\ socket' = socket
        /\ inputPc' \in {"write", "prepare"}
    BY <1>7 DEF Observe
  <2>2. Extent = taken + Len(chunk) /\ Extent' = taken' /\ taken' = Extent
    <3>1. Extent = taken + Len(chunk)
      BY <2>1 DEF Extent
    <3>2. Extent' = taken' + 0
      BY <2>1 DEF Extent
    <3>3. taken' \in Nat
      BY <1>4, <2>1, <3>1
    <3> QED BY <2>1, <3>1, <3>2, <3>3
  <2>3. Extent' \in taken'..Len(a)
    BY <1>2, <1>3, <1>4, <2>2
  <2> QED BY <1>1, <1>3, <2>1, <2>2, <2>3 DEF Placed, a
<1>8. CASE ReadShut \/ Prepare \/ WriteChunk
  BY <1>5, <1>8 DEF ReadShut, Prepare, WriteChunk
<1>9. CASE ~(Read \/ Observe \/ ReadShut \/ Prepare \/ WriteChunk)
  BY <1>5, <1>9 DEF Next, ReadReply, WriteReply, WriteFails, Unsubscribe, WriteFrame, Drop, JoinInput,
                    JoinOutput, Relay, Reply, ProxyDies, vars, input
<1> QED BY <1>6, <1>7, <1>8, <1>9

LEMMA ReadingNext == Typed /\ Waits(wire) /\ Placed /\ Reading /\ [Next]_vars => Reading'
<1> SUFFICES ASSUME Typed, Waits(wire), Placed, Reading, [Next]_vars, ~spoiled'
             PROVE  \/ wire'.failures = 0 /\ \E k : Mid(wire', sent', k, taken', injected')
                    \/ wire'.failures > 0 /\ \E i \in DOMAIN sent' : Strange(sent', i)
  BY DEF Reading
<1>0. /\ sent \in Streams /\ chunk \in Seq(Units) /\ taken \in Nat /\ wire \in Wires
      /\ spoiled \in BOOLEAN /\ wire.failures \in Nat /\ attempts \in Nat
  BY DEF Typed, TypeOK, Wires
<1>1. sent' = sent
  BY DEF Next, Read, ReadShut, Observe, Prepare, WriteChunk, ReadReply, WriteReply, WriteFails,
         Unsubscribe, WriteFrame, Drop, JoinInput, JoinOutput, Relay, Reply, ProxyDies, vars
<1>2. CASE Observe
  <2>1. /\ inputPc = "gate" /\ taken' = taken + Len(chunk) /\ injected' = injected /\ spoiled' = spoiled
        /\ ObserveUnits(chunk) /\ wire' = Feed(wire, chunk)
    BY <1>2 DEF Observe, ObserveUnits, owner
  <2>2. wire' \in Wires /\ Grows(wire, wire') /\ wire'.failures \in Nat
    <3>1. wire' \in Wires /\ Grows(wire, wire')
      BY <1>0, <2>1, Feeding
    <3> QED BY <3>1 DEF Wires
  <2>3. CASE wire.failures > 0 /\ \E i \in DOMAIN sent : Strange(sent, i)
    <3>1. wire'.failures > 0
      BY <1>0, <2>2, <2>3 DEF Grows
    <3> QED BY <1>1, <2>3, <3>1
  <2>4. CASE wire.failures = 0 /\ \E k : Mid(wire, sent, k, taken, injected)
    <3>1. PICK k : Mid(wire, sent, k, taken, injected)
      BY <2>4
    <3>2. ClientUnits = All(sent)
      BY <1>0, ClientUnitsAre
    <3>3. taken' \in taken..Len(All(sent)) /\ chunk = SubSeq(All(sent), taken + 1, taken')
      BY <2>1, <3>2 DEF Placed, Extent
    <3> DEFINE c == chunk
               m == taken'
               v == wire'
    <3>4. Decided(wire, v, sent, m, injected)
      <4>1. v = Feed(wire, c) /\ c = SubSeq(All(sent), taken + 1, m) /\ m \in taken..Len(All(sent))
        BY <2>1, <3>3
      <4> HIDE DEF c, m, v
      <4> QED BY <1>0, <3>1, <4>1, FeedsMid
    <3> QED BY <1>1, <2>1, <2>4, <3>4 DEF Decided
  <2> QED BY <2>1, <2>3, <2>4 DEF Reading
<1>3. CASE Unsubscribe
  <2>1. /\ wire' = Feed(wire, OwnUnits) /\ taken' = taken /\ injected' = injected + 1
        /\ ~spoiled /\ Boundary
    BY <1>0, <1>3, OwnEncoded DEF Unsubscribe, ObserveUnits
  <2>2. wire' \in Wires /\ Grows(wire, wire') /\ wire'.failures \in Nat
    <3>1. wire' \in Wires /\ Grows(wire, wire')
      BY <1>0, <2>1, Feeding, OwnEncoded
    <3> QED BY <3>1 DEF Wires
  <2>3. CASE wire.failures > 0 /\ \E i \in DOMAIN sent : Strange(sent, i)
    <3>1. wire'.failures > 0
      BY <1>0, <2>2, <2>3 DEF Grows
    <3> QED BY <1>1, <2>3, <3>1
  <2>4. CASE wire.failures = 0 /\ \E k : Mid(wire, sent, k, taken, injected)
    <3>1. PICK k : Mid(wire, sent, k, taken, injected)
      BY <2>4
    <3>2. ~Lines(sent)
      BY <2>1 DEF Boundary, Lines
    <3>3. PICK n \in 1..Len(sent) : taken = Len(FlattenSeq([j \in 1..n |-> Encode(sent[j])]))
      BY <2>1 DEF Boundary
    <3>4. /\ k \in 0..Len(sent) /\ Len(sent) \in Nat
          /\ \A i \in 0..Len(sent) : Offset(sent, i) = taken => i = k
      BY <1>0, <3>1, MidAtRest
    <3>5. n \in 0..Len(sent)
      BY <3>4
    <3>6. taken = Offset(sent, n)
      BY <1>0, <3>3, <3>5, OffsetIs
    <3>7. n = k /\ k # 0
      BY <3>4, <3>5, <3>6
    <3>8. wire'.failures = wire.failures /\ Mid(wire', sent, k, taken, injected + 1)
      BY <1>0, <2>1, <3>1, <3>2, <3>6, <3>7, OwnMid
    <3> QED BY <1>1, <2>1, <2>4, <3>8
  <2> QED BY <2>1, <2>3, <2>4 DEF Reading
<1>4. CASE ~(Observe \/ Unsubscribe)
  <2>1. wire' = wire /\ taken' = taken /\ injected' = injected /\ spoiled' = spoiled
    BY <1>4 DEF Next, Read, ReadShut, Prepare, WriteChunk, ReadReply, WriteReply, WriteFails,
                WriteFrame, Drop, JoinInput, JoinOutput, Relay, Reply, ProxyDies, vars, input, owner
  <2> QED BY <1>1, <2>1 DEF Reading
<1> QED BY <1>2, <1>3, <1>4

LEMMA FollowsNext == Follows /\ [Next]_vars => Follows'
<1> SUFFICES ASSUME Follows, [Next]_vars PROVE Follows'
  OBVIOUS
<1>1. Typed /\ Waits(wire) /\ Placed /\ Reading
  BY DEF Follows
<1>2. Typed'
  BY <1>1, TypedNext
<1>3. Waits(wire)'
  BY <1>1, WaitsNext
<1>4. Placed'
  BY <1>1, PlacedNext
<1>5. Reading'
  BY <1>1, ReadingNext
<1> QED BY <1>2, <1>3, <1>4, <1>5 DEF Follows

\* Only what the client sends makes the observer unreliable: a decoder in the middle of a stream
\* (WireBuffer::feed) counts a failure only at a frame that the observer does not read, at one that
\* fills its buffer or at a message that does, wherever the chunks are cut and whatever frames of
\* the owner's come between whole frames of the client's.
THEOREM FailureHasItsCause == Spec => []FailsForCause
<1>1. Follows => FailsForCause
  <2> SUFFICES ASSUME Follows, wire.failures > 0, ~spoiled PROVE \E i \in DOMAIN sent : Unread(i)
    BY DEF FailsForCause
  <2>1. wire.failures \in Nat
    BY DEF Follows, Typed, TypeOK, Wires
  <2>2. \E i \in DOMAIN sent : Strange(sent, i)
    BY <2>1 DEF Follows, Reading
  <2> QED BY <2>2 DEF Strange, Unread
<1> QED BY <1>1, FollowsFirst, FollowsNext, PTL DEF Spec

\* What WireBuffer::feed delivers to observe_client_message is what the client meant: the texts of
\* its complete messages, fragments joined, in their order and none twice, and beside them one
\* message for each frame of unsubscribe_idle_threads.
THEOREM MessagesAreMeant == Spec => []ReadsWhatIsMeant
<1>1. Follows => ReadsWhatIsMeant
  <2> SUFFICES ASSUME Follows, wire.failures = 0, ~spoiled
               PROVE  /\ Others(wire.messages) = Meant(SubSeq(sent, 1, Complete(taken)))
                      /\ Len(wire.messages) = Len(Meant(SubSeq(sent, 1, Complete(taken)))) + injected
    BY DEF ReadsWhatIsMeant
  <2>1. sent \in Streams /\ wire \in Wires /\ Waits(wire)
    BY DEF Follows, Typed, TypeOK
  <2>2. PICK k : Mid(wire, sent, k, taken, injected)
    BY DEF Follows, Reading
  <2>3. Complete(taken) = k
    BY <2>1, <2>2, CompleteIs
  <2>4. k \in 0..Len(sent) /\ Others(wire.messages) = Told(sent, k)
        /\ Len(wire.messages) = Len(Told(sent, k)) + injected
    BY <2>2 DEF Mid
  <2>5. Meant(SubSeq(sent, 1, k)) = Told(sent, k)
    BY <2>1, <2>4, ToldIs
  <2> QED BY <2>3, <2>4, <2>5
<1> QED BY <1>1, FollowsFirst, FollowsNext, PTL DEF Spec

=============================================================================
