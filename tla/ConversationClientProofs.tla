---------------------- MODULE ConversationClientProofs ----------------------
(***************************************************************************)
(* Proofs about ConversationClient. The order in which the handlers of an  *)
(* activity begin is the order of three queues: what the loop runs next,   *)
(* the tasks that wait for a key, and those that have been woken. The      *)
(* invariant IInv says how the block of handlers that one dispatch has     *)
(* queued lies in them; the lemmas below say what each step does to it.    *)
(***************************************************************************)
EXTENDS ConversationClient, SequenceTheorems, FiniteSetTheorems, TLAPS

-----------------------------------------------------------------------------
(* Sequences.                                                              *)

(* A sequence whose elements are in T is a sequence over T.                *)
LEMMA InSeq ==
    ASSUME NEW S, NEW T, NEW s \in Seq(S), \A i \in DOMAIN s : s[i] \in T
    PROVE  s \in Seq(T)
<1>1. Len(s) \in Nat /\ s \in [1 .. Len(s) -> T] /\ DOMAIN s = 1 .. Len(s)
  BY LenProperties
<1>. QED BY <1>1, SeqDef

(* A function on the domain of a sequence is a sequence, too.              *)
LEMMA Mapped ==
    ASSUME NEW S, NEW T, NEW s \in Seq(S), NEW f, DOMAIN f = DOMAIN s,
           f = [i \in DOMAIN s |-> f[i]],
           \A i \in DOMAIN s : f[i] \in T
    PROVE  f \in Seq(T) /\ Len(f) = Len(s)
<1>1. Len(s) \in Nat /\ DOMAIN s = 1 .. Len(s)
  BY LenProperties
<1>2. f \in [1 .. Len(s) -> T]
  BY <1>1
<1>. QED BY <1>1, <1>2, SeqDef, LenProperties

(* RemoveAt takes out one element and keeps the order of the rest.         *)
LEMMA RemoveAtProperties ==
    ASSUME NEW S, NEW s \in Seq(S), NEW i \in DOMAIN s
    PROVE  /\ RemoveAt(s, i) \in Seq(S)
           /\ Len(RemoveAt(s, i)) = Len(s) - 1
           /\ \A j \in DOMAIN RemoveAt(s, i) : RemoveAt(s, i)[j] = s[IF j < i THEN j ELSE j + 1]
<1>. DEFINE a == SubSeq(s, 1, i - 1)
            b == SubSeq(s, i + 1, Len(s))
<1>1. Len(s) \in Nat /\ DOMAIN s = 1 .. Len(s) /\ \A j \in 1 .. Len(s) : s[j] \in S
  BY LenProperties, ElementOfSeq
<1>0. i \in 1 .. Len(s) /\ i \in Int /\ i - 1 \in Int /\ i + 1 \in Int /\ Len(s) \in Int
  BY <1>1
<1>2. /\ a \in Seq(S) /\ Len(a) = i - 1
      /\ \A j \in 1 .. i - 1 : a[j] = s[j]
  <2>1. \A j \in 1 .. i - 1 : s[j] \in S
    BY <1>1
  <2>2. /\ a \in Seq(S) /\ Len(a) = IF 1 <= i - 1 THEN (i - 1) - 1 + 1 ELSE 0
        /\ \A j \in 1 .. (i - 1) - 1 + 1 : a[j] = s[1 + j - 1]
    BY <1>0, <2>1, SubSeqProperties
  <2>3. \A j \in 1 .. i - 1 : j \in 1 .. (i - 1) - 1 + 1 /\ 1 + j - 1 = j
    BY <1>0
  <2>. QED BY <1>0, <2>2, <2>3
<1>3. /\ b \in Seq(S) /\ Len(b) = Len(s) - i
      /\ \A j \in 1 .. Len(s) - i : b[j] = s[i + j]
  <2>1. \A j \in i + 1 .. Len(s) : s[j] \in S
    BY <1>1
  <2>2. /\ b \in Seq(S) /\ Len(b) = IF i + 1 <= Len(s) THEN Len(s) - (i + 1) + 1 ELSE 0
        /\ \A j \in 1 .. Len(s) - (i + 1) + 1 : b[j] = s[(i + 1) + j - 1]
    BY <1>0, <2>1, SubSeqProperties
  <2>3. Len(s) - (i + 1) + 1 = Len(s) - i 
    BY <1>0
  <2>5. \A j \in 1 .. Len(s) - i : (i + 1) + j - 1 = i + j
    <3>1. \A m \in Int : m \in Int => (i + 1) + m - 1 = i + m
      BY <1>0
    <3>. QED BY <3>1
  <2>. HIDE DEF b
  <2>4. \A j \in 1 .. Len(s) - i : b[j] = s[i + j]
    BY <2>2, <2>3, <2>5
  <2>. QED BY <1>0, <2>2, <2>4
<1>. HIDE DEF a, b
<1>4. /\ a \o b \in Seq(S) /\ Len(a \o b) = Len(s) - 1
      /\ \A j \in 1 .. Len(s) - 1 : (a \o b)[j] = IF j <= i - 1 THEN a[j] ELSE b[j - (i - 1)]
  <2>1. /\ a \o b \in Seq(S) /\ Len(a \o b) = Len(a) + Len(b)
        /\ \A j \in 1 .. Len(a) + Len(b) : (a \o b)[j] = IF j <= Len(a) THEN a[j]
               ELSE b[j - Len(a)]
    BY <1>2, <1>3, ConcatProperties
  <2>2. Len(a) + Len(b) = Len(s) - 1
    BY <1>0, <1>2, <1>3
  <2>. QED BY <1>2, <2>1, <2>2
<1>5. DOMAIN (a \o b) = 1 .. Len(s) - 1
  BY <1>4, LenProperties
<1>6. \A j \in DOMAIN (a \o b) : (a \o b)[j] = s[IF j < i THEN j ELSE j + 1]
  <2>. SUFFICES ASSUME NEW j \in 1 .. Len(s) - 1 PROVE (a \o b)[j] = s[IF j < i THEN j ELSE j + 1]
    BY <1>5
  <2>1. CASE j < i
    <3>1. j \in 1 .. i - 1 /\ j <= i - 1
      BY <1>0, <2>1
    <3>. QED BY <1>2, <1>4, <2>1, <3>1
  <2>2. CASE ~(j < i)
    <3>1. /\ j - (i - 1) \in 1 .. Len(s) - i /\ ~(j <= i - 1)
          /\ i + (j - (i - 1)) = j + 1
      BY <1>0, <2>2
    <3>. QED BY <1>3, <1>4, <2>2, <3>1
  <2>. QED BY <2>1, <2>2
<1>. QED BY <1>4, <1>6 DEF RemoveAt, a, b

(* SetToSeq(S) is a sequence of elements of S without repetition.          *)
LEMMA SetToSeqProperties ==
    ASSUME NEW S, IsFiniteSet(S)
    PROVE  /\ SetToSeq(S) \in Seq(S)
           /\ \A i, j \in DOMAIN SetToSeq(S) : SetToSeq(S)[i] = SetToSeq(S)[j] => i = j
<1>1. Cardinality(S) \in Nat
  BY FS_CardinalityType
<1>2. \E f : f \in [1 .. Cardinality(S) -> S] /\ IsInjective(f)
  <2>1. PICK f : f \in Bijection(1 .. Cardinality(S), S)
    BY FS_CardinalityType DEF ExistsBijection
  <2>. QED BY <2>1 DEF Bijection, Injection, IsInjective
<1>3. SetToSeq(S) \in [1 .. Cardinality(S) -> S] /\ IsInjective(SetToSeq(S))
  BY <1>2 DEF SetToSeq
<1>4. SetToSeq(S) \in Seq(S)
  BY <1>1, <1>3, SeqDef
<1>. QED BY <1>3, <1>4 DEF IsInjective

-----------------------------------------------------------------------------
(* How the queue of the loop moves: its head is taken (d = 1) or not (d = 0), *)
(* and entries from S are appended.                                        *)

Moves(r, s, d, S) ==
    /\ d \in {0, 1} /\ r \in Seq(Entries) /\ s \in Seq(Entries)
    /\ d <= Len(r) /\ Len(r) - d <= Len(s)
    /\ \A q \in DOMAIN s : IF q <= Len(r) - d THEN s[q] = r[q + d] ELSE s[q] \in S

Queue(r, d) == IF d = 0 THEN r ELSE Tail(r)

(* Queue(r, d) is r without its first d elements.                          *)
LEMMA QueueProperties ==
    ASSUME NEW r \in Seq(Entries), NEW d \in {0, 1}, d = 1 => r # <<>>
    PROVE  /\ Queue(r, d) \in Seq(Entries)
           /\ d <= Len(r) /\ Len(Queue(r, d)) = Len(r) - d
           /\ \A q \in 1 .. Len(r) - d : Queue(r, d)[q] = r[q + d]
<1>1. Len(r) \in Nat
  BY LenProperties
<1>2. CASE d = 0
  BY <1>1, <1>2 DEF Queue
<1>3. CASE d = 1
  <2>1. Tail(r) \in Seq(Entries) /\ Len(Tail(r)) = Len(r) - 1 /\ Len(r) \in Nat \ {0}
        /\ \A q \in 1 .. Len(Tail(r)) : Tail(r)[q] = r[q + 1]
    BY <1>3, HeadTailProperties, EmptySeq
  <2>. QED BY <1>3, <2>1 DEF Queue
<1>. QED BY <1>2, <1>3

(* Entries appended to the queue follow what is left of it.                *)
LEMMA Extended ==
    ASSUME NEW r \in Seq(Entries), NEW d \in {0, 1}, d = 1 => r # <<>>,
           NEW S \in SUBSET Entries, NEW new \in Seq(S)
    PROVE  LET s == Queue(r, d) \o new IN
           /\ Moves(r, s, d, S)
           /\ Len(s) = Len(r) - d + Len(new)
           /\ \A j \in DOMAIN new : s[Len(r) - d + j] = new[j]
<1>. DEFINE t == Queue(r, d)
            s == t \o new
<1>1. /\ t \in Seq(Entries) /\ d <= Len(r) /\ Len(t) = Len(r) - d
      /\ \A q \in 1 .. Len(r) - d : t[q] = r[q + d]
  BY QueueProperties
<1>2. new \in Seq(Entries) /\ Len(new) \in Nat /\ DOMAIN new = 1 .. Len(new)
  BY SeqMonotonic, LenProperties
<1>3. /\ s \in Seq(Entries) /\ Len(s) = Len(t) + Len(new)
      /\ \A i \in 1 .. Len(t) + Len(new) : s[i] = IF i <= Len(t) THEN t[i] ELSE new[i - Len(t)]
  BY <1>1, <1>2, ConcatProperties
<1>4. Len(r) \in Nat /\ Len(t) \in Nat /\ DOMAIN s = 1 .. Len(t) + Len(new)
  BY <1>1, <1>3, LenProperties
<1>. HIDE DEF t, s
<1>5. \A j \in DOMAIN new : s[Len(r) - d + j] = new[j]
  <2>. TAKE j \in DOMAIN new
  <2>1. /\ Len(t) + j \in 1 .. Len(t) + Len(new) /\ ~(Len(t) + j <= Len(t))
        /\ Len(t) + j - Len(t) = j
    BY <1>2, <1>4
  <2>2. Len(r) - d + j = Len(t) + j
    BY <1>1
  <2>3. s[Len(t) + j] = new[j]
    BY <1>3, <2>1
  <2>. QED BY <2>2, <2>3
<1>6. ASSUME NEW q \in DOMAIN s PROVE IF q <= Len(r) - d THEN s[q] = r[q + d] ELSE s[q] \in S
  <2>1. CASE q <= Len(t)
    <3>1. q \in 1 .. Len(t) + Len(new) /\ q \in 1 .. Len(r) - d
      BY <1>1, <1>2, <1>4, <2>1
    <3>2. s[q] = t[q]
      BY <1>3, <2>1, <3>1
    <3>. QED BY <1>1, <2>1, <3>1, <3>2
  <2>2. CASE ~(q <= Len(t))
    <3>1. q - Len(t) \in 1 .. Len(new)
      BY <1>2, <1>4, <2>2
    <3>. QED BY <1>1, <1>2, <1>3, <1>4, <2>2, <3>1, ElementOfSeq
  <2>. QED BY <1>1, <2>1, <2>2
<1>7. Moves(r, s, d, S)
  BY <1>1, <1>2, <1>3, <1>4, <1>6 DEF Moves
<1>. QED BY <1>1, <1>3, <1>5, <1>7 DEF s, t

(* Nothing is appended.                                                    *)
LEMMA Kept ==
    ASSUME NEW r \in Seq(Entries), NEW d \in {0, 1}, d = 1 => r # <<>>
    PROVE  Moves(r, Queue(r, d), d, {}) /\ Len(Queue(r, d)) = Len(r) - d
<1>1. DOMAIN Queue(r, d) = 1 .. Len(r) - d /\ Len(r) \in Nat
  BY QueueProperties, LenProperties
<1>2. /\ Queue(r, d) \in Seq(Entries)
      /\ d <= Len(r) /\ Len(Queue(r, d)) = Len(r) - d
      /\ \A q \in 1 .. Len(r) - d : Queue(r, d)[q] = r[q + d]
  BY QueueProperties
<1>3. \A q \in DOMAIN Queue(r, d) : q <= Len(r) - d /\ Queue(r, d)[q] = r[q + d]
  <2>1. \A q \in DOMAIN Queue(r, d) : q \in 1 .. Len(r) - d
    BY <1>1
  <2>2. \A q \in 1 .. Len(r) - d : q <= Len(r) - d
    BY <1>1
  <2>. QED BY <1>2, <2>1, <2>2
<1>4. Len(r) - d <= Len(Queue(r, d))
  BY <1>1, <1>2
<1>. QED BY <1>2, <1>3, <1>4 DEF Moves

(* One entry is appended.                                                  *)
LEMMA Appended ==
    ASSUME NEW r \in Seq(Entries), NEW d \in {0, 1}, d = 1 => r # <<>>, NEW x \in Entries
    PROVE  /\ Moves(r, Append(Queue(r, d), x), d, {x})
           /\ Len(Append(Queue(r, d), x)) = Len(r) - d + 1
           /\ Append(Queue(r, d), x)[Len(r) - d + 1] = x
<1>1. Append(Queue(r, d), x) = Queue(r, d) \o <<x>>
  BY QueueProperties, AppendIsConcat
<1>2. <<x>> \in Seq({x}) /\ Len(<<x>>) = 1 /\ DOMAIN <<x>> = {1} /\ <<x>>[1] = x
  OBVIOUS
<1>3. {x} \in SUBSET Entries
  OBVIOUS
<1>4. LET s == Queue(r, d) \o <<x>> IN
      /\ Moves(r, s, d, {x})
      /\ Len(s) = Len(r) - d + Len(<<x>>)
      /\ \A j \in DOMAIN <<x>> : s[Len(r) - d + j] = <<x>>[j]
  BY <1>2, <1>3, Extended
<1>. QED BY <1>1, <1>2, <1>4

-----------------------------------------------------------------------------
(* The handlers of a frame and of an activity.                             *)

(* Where the elements of a concatenation come from.                        *)
LEMMA Concatenation ==
    ASSUME NEW S, NEW s \in Seq(S), NEW t \in Seq(S)
    PROVE  /\ s \o t \in Seq(S) /\ Len(s \o t) = Len(s) + Len(t)
           /\ DOMAIN (s \o t) = 1 .. Len(s) + Len(t)
           /\ \A i \in DOMAIN (s \o t) : (s \o t)[i] = IF i <= Len(s) THEN s[i] ELSE t[i - Len(s)]
BY ConcatProperties, LenProperties

(* What the table of a topic may hold.                                     *)
LEMMA TableEntries ==
    ASSUME TypeOK, TablesHold, NEW t \in Topics
    PROVE  /\ t \in MercuryTopics => table[t] \in Seq(RawHandlers \cup {Internal})
           /\ t \in ActivityTopics => table[t] \in Seq(Handlers)
           /\ t \notin Kinds => \A i \in DOMAIN table[t] : table[t][i] # Internal
<1>. USE DEF UserHandlers, Topics, MercuryTopics, ActivityTopics, Kinds, Verbs
<1>1. table[t] \in Seq(UserHandlers \cup {Internal})
  BY DEF TypeOK
<1>2. \A i \in DOMAIN table[t] : table[t][i] \in UserHandlers \cup {Internal}
  BY <1>1, LenProperties
<1>3. ASSUME NEW i \in DOMAIN table[t]
      PROVE  /\ t \in MercuryTopics => table[t][i] \in RawHandlers \cup {Internal}
             /\ t \in ActivityTopics => table[t][i] \in Handlers
             /\ t \notin Kinds => table[t][i] # Internal
  BY <1>2, TopicAssumption, NamesAssumption DEF TablesHold
<1>. QED BY <1>1, <1>3, InSeq

(* Of the handlers of a frame Internal is at most one. *)
LEMMA MercuryMatchingIs ==
    ASSUME TypeOK, TablesHold, NEW f \in Frames
    PROVE  LET hs == MercuryMatching(f) IN
           /\ hs \in Seq(RawHandlers \cup {Internal})
           /\ \A i, j \in DOMAIN hs : hs[i] = Internal /\ hs[j] = Internal => i = j
<1>. DEFINE S == RawHandlers \cup {Internal}
            a == IF IsMessage(f) THEN table["message.created"] ELSE <<>>
            b == table[f.kind]
            c == IF IsMessage(f) THEN table["activity:post"] ELSE <<>>
            d == table["*"]
            ab == a \o b
            abc == ab \o c
            abcd == abc \o d
<1>1. f.kind \in Kinds
  BY FramesAssumption
<1>2. a \in Seq(S) /\ b \in Seq(S) /\ c \in Seq(S) /\ d \in Seq(S)
  BY <1>1, TableEntries DEF Topics, MercuryTopics, Kinds
<1>3. /\ \A i \in DOMAIN a : a[i] # Internal
      /\ \A i \in DOMAIN c : c[i] # Internal
      /\ \A i \in DOMAIN d : d[i] # Internal
  BY TableEntries DEF Topics, MercuryTopics, Kinds
<1>4. \A i, j \in DOMAIN b : b[i] = Internal /\ b[j] = Internal => i = j
  BY <1>1 DEF TablesHold, Topics, MercuryTopics
<1>. HIDE DEF S, a, b, c, d
<1>5. /\ Len(a) \in Nat /\ Len(b) \in Nat /\ Len(c) \in Nat /\ Len(d) \in Nat
      /\ DOMAIN a = 1 .. Len(a) /\ DOMAIN b = 1 .. Len(b) /\ DOMAIN c = 1 .. Len(c) /\ DOMAIN d = 1 .. Len(d)
  BY <1>2, LenProperties
<1>6. /\ ab \in Seq(S) /\ DOMAIN ab = 1 .. Len(a) + Len(b) /\ Len(ab) = Len(a) + Len(b)
      /\ \A i \in DOMAIN ab : ab[i] = IF i <= Len(a) THEN a[i] ELSE b[i - Len(a)]
  BY <1>2, Concatenation
<1>7. \A i \in DOMAIN ab : ab[i] = Internal => i - Len(a) \in DOMAIN b /\ b[i - Len(a)] = Internal
  BY <1>3, <1>5, <1>6
<1>8. \A i, j \in DOMAIN ab : ab[i] = Internal /\ ab[j] = Internal => i = j
  BY <1>4, <1>5, <1>6, <1>7
<1>. HIDE DEF ab
<1>9. /\ abc \in Seq(S) /\ DOMAIN abc = 1 .. Len(ab) + Len(c) /\ Len(abc) = Len(ab) + Len(c)
      /\ \A i \in DOMAIN abc : abc[i] = IF i <= Len(ab) THEN ab[i] ELSE c[i - Len(ab)]
  <2>1. ab \in Seq(S) /\ c \in Seq(S)
    BY <1>2, <1>6
  <2>. QED BY <2>1, Concatenation
<1>10. \A i \in DOMAIN abc : abc[i] = Internal => i \in DOMAIN ab /\ ab[i] = Internal
  BY <1>3, <1>5, <1>6, <1>9
<1>11. \A i, j \in DOMAIN abc : abc[i] = Internal /\ abc[j] = Internal => i = j
  BY <1>8, <1>10
<1>. HIDE DEF abc
<1>12. /\ abcd \in Seq(S) /\ DOMAIN abcd = 1 .. Len(abc) + Len(d)
       /\ \A i \in DOMAIN abcd : abcd[i] = IF i <= Len(abc) THEN abc[i] ELSE d[i - Len(abc)]
  <2>1. abc \in Seq(S) /\ d \in Seq(S)
    BY <1>2, <1>9
  <2>. QED BY <2>1, Concatenation
<1>13. Len(abc) \in Nat /\ DOMAIN abc = 1 .. Len(abc)
  BY <1>9, LenProperties
<1>14. \A i \in DOMAIN abcd : abcd[i] = Internal => i \in DOMAIN abc /\ abc[i] = Internal
  BY <1>3, <1>5, <1>12, <1>13
<1>15. \A i, j \in DOMAIN abcd : abcd[i] = Internal /\ abcd[j] = Internal => i = j
  BY <1>11, <1>14
<1>16. MercuryMatching(f) = abcd
  BY DEF MercuryMatching, abcd, abc, ab, a, b, c, d
<1>. HIDE DEF abcd
<1>. QED BY <1>12, <1>15, <1>16 DEF S

(* The handlers of an activity differ, and those of its verb come first. *)
LEMMA ActivityMatchingIs ==
    ASSUME TypeOK, TablesHold, NEW f \in Frames
    PROVE  LET hs == ActivityMatching(f) IN
           /\ hs \in Seq(Handlers)
           /\ \A i, j \in DOMAIN hs :
                /\ hs[i] = hs[j] => i = j
                /\ Topic[hs[i]] = "any" /\ i < j => Topic[hs[j]] = "any"
<1>. DEFINE a == table[f.verb]
            b == table["any"]
            ab == a \o b
<1>1. f.verb \in Verbs /\ f.verb # "any"
  BY FramesAssumption DEF Verbs
<1>2. a \in Seq(Handlers) /\ b \in Seq(Handlers)
  BY <1>1, TableEntries DEF Topics, ActivityTopics, Verbs
<1>0. Internal \notin Handlers
  BY NamesAssumption DEF UserHandlers
<1>3. /\ \A i \in DOMAIN a : Topic[a[i]] = f.verb
      /\ \A i \in DOMAIN b : Topic[b[i]] = "any"
  <2>1. /\ \A i \in DOMAIN a : a[i] \in Handlers
        /\ \A i \in DOMAIN b : b[i] \in Handlers
    BY <1>2, LenProperties
  <2>. QED BY <1>0, <1>1, <2>1 DEF TablesHold, Topics, ActivityTopics, Verbs
<1>4. /\ \A i, j \in DOMAIN a : a[i] = a[j] => i = j
      /\ \A i, j \in DOMAIN b : b[i] = b[j] => i = j
  BY <1>1 DEF TablesHold, Topics, ActivityTopics, Verbs
<1>. HIDE DEF a, b
<1>5. /\ Len(a) \in Nat /\ Len(b) \in Nat
      /\ DOMAIN a = 1 .. Len(a) /\ DOMAIN b = 1 .. Len(b)
  BY <1>2, LenProperties
<1>6. /\ ab \in Seq(Handlers) /\ DOMAIN ab = 1 .. Len(a) + Len(b) /\ Len(ab) = Len(a) + Len(b)
      /\ \A i \in DOMAIN ab : ab[i] = IF i <= Len(a) THEN a[i] ELSE b[i - Len(a)]
  BY <1>2, Concatenation
<1>. HIDE DEF ab
<1>7. ASSUME NEW i \in DOMAIN ab
      PROVE  IF i <= Len(a) THEN i \in DOMAIN a /\ ab[i] = a[i] /\ Topic[ab[i]] = f.verb
             ELSE i - Len(a) \in DOMAIN b /\ ab[i] = b[i - Len(a)] /\ Topic[ab[i]] = "any"
  <2>1. CASE i <= Len(a)
    BY <1>3, <1>5, <1>6, <2>1
  <2>2. CASE ~(i <= Len(a))
    <3>1. i - Len(a) \in DOMAIN b
      BY <1>5, <1>6, <2>2
    <3>. QED BY <1>3, <1>6, <2>2, <3>1
  <2>. QED BY <2>1, <2>2
<1>8. ASSUME NEW i \in DOMAIN ab, NEW j \in DOMAIN ab
      PROVE  /\ ab[i] = ab[j] => i = j
             /\ Topic[ab[i]] = "any" /\ i < j => Topic[ab[j]] = "any"
  BY <1>1, <1>4, <1>5, <1>6, <1>7
<1>9. ActivityMatching(f) = ab
  BY DEF ActivityMatching, ab, a, b
<1>. QED BY <1>6, <1>8, <1>9

-----------------------------------------------------------------------------
(* The block of the handlers of one activity, when a step does not run one. *)

(* What the queues hold of the handlers of e: nothing is added. *)
SameRuns(e, d, S) ==
    /\ Moves(ready, ready', d, S)
    /\ d = 1 => ready[1][1] # "handler" \/ ready[1][2] # e
    /\ d = 1 => \A h \in Handlers, o \in Over : ready[1] # <<"wake", <<"handler", e, h>>, o>>
    /\ \A x \in S :
         /\ x[1] # "handler" \/ x[2] # e
         /\ x[1] # "event" \/ x[2] # e \/ dispatched[e] = <<>>
         /\ \A h \in Handlers, o \in Over : x # <<"wake", <<"handler", e, h>>, o>>
    /\ dispatched'[e] = dispatched[e]
    /\ Past(e)' \cap Handlers = Past(e) \cap Handlers
    /\ \A k \in Keys, h \in Handlers :
         {q \in DOMAIN waiters'[k] : waiters'[k][q] = <<"handler", e, h>>}
             = {q \in DOMAIN waiters[k] : waiters[k][q] = <<"handler", e, h>>}
    /\ d = 0 => cached' = cached /\ cacheEnabled' = cacheEnabled

(* The wake-ups of the tasks of e are the same before and after.           *)
LEMMA WakesOf ==
    ASSUME TypeOK, NEW e \in Events, NEW d, NEW S, SameRuns(e, d, S), NEW h \in Handlers,
           NEW o \in Over
    PROVE  /\ \A q \in DOMAIN ready' : ready'[q] = <<"wake", <<"handler", e, h>>, o>>
                => q + d \in DOMAIN ready /\ ready[q + d] = <<"wake", <<"handler", e, h>>, o>>
           /\ \A q \in DOMAIN ready : ready[q] = <<"wake", <<"handler", e, h>>, o>>
                => q - d \in DOMAIN ready' /\ ready'[q - d] = <<"wake", <<"handler", e, h>>, o>>
<1>. DEFINE w == <<"wake", <<"handler", e, h>>, o>>
<1>1. /\ d \in {0, 1} /\ d <= Len(ready) /\ Len(ready) - d <= Len(ready')
      /\ Len(ready) \in Nat /\ Len(ready') \in Nat
      /\ DOMAIN ready = 1 .. Len(ready) /\ DOMAIN ready' = 1 .. Len(ready')
      /\ \A q \in DOMAIN ready' : IF q <= Len(ready) - d THEN ready'[q] = ready[q + d]
             ELSE ready'[q] \in S
  BY LenProperties DEF SameRuns, Moves
<1>2. (d = 1 => ready[1] # w) /\ \A x \in S : x # w
  BY DEF SameRuns
<1>. HIDE DEF w
<1>3. ASSUME NEW q \in DOMAIN ready', ready'[q] = w
      PROVE  q + d \in DOMAIN ready /\ ready[q + d] = w
  BY <1>1, <1>2, <1>3
<1>4. ASSUME NEW q \in DOMAIN ready, ready[q] = w
      PROVE  q - d \in DOMAIN ready' /\ ready'[q - d] = w
  <2>1. q - d \in 1 .. Len(ready) - d
    BY <1>1, <1>2, <1>4
  <2>. QED BY <1>1, <1>4, <2>1
<1>. QED BY <1>3, <1>4 DEF w

(* The handlers of e keep their order.                                     *)
LEMMA SequenceSame ==
    ASSUME TypeOK, NEW e \in Events, NEW d, NEW S, SameRuns(e, d, S), InSequence(e)
    PROVE  InSequence(e)'
<1>. DEFINE hs == dispatched[e]
            Task(i) == <<"handler", e, hs[i]>>
<1>0. dispatched'[e] = hs /\ \A i \in DOMAIN hs : hs[i] \in Handlers
  BY LenProperties DEF TypeOK, SameRuns
<1>1. \A i \in DOMAIN hs : hs[i] \in Past(e)' <=> hs[i] \in Past(e)
  BY <1>0 DEF SameRuns
<1>. SUFFICES ASSUME NEW i \in DOMAIN hs, NEW j \in DOMAIN hs, i < j PROVE Precedes(e, i, j)'
  BY <1>0 DEF InSequence
<1>9. Precedes(e, i, j)
  BY DEF InSequence
<1>2. hs[j] \in Past(e)' => hs[i] \in Past(e)'
  BY <1>1, <1>9 DEF Precedes, IsPast
<1>3. ASSUME NEW q \in DOMAIN ready', NEW o \in Over, ready'[q] = <<"wake", Task(j), o>>,
             hs[i] \notin Past(e)
      PROVE  \E p \in 1 .. q - 1, u \in Over : ready'[p] = <<"wake", Task(i), u>>
  <2>1. q + d \in DOMAIN ready /\ ready[q + d] = <<"wake", Task(j), o>>
    BY <1>0, <1>3, WakesOf
  <2>2. PICK p \in 1 .. (q + d) - 1, u \in Over : ready[p] = <<"wake", Task(i), u>>
    <3>1. \A x \in DOMAIN ready, u \in Over :
             ready[x] = <<"wake", Task(j), u>>
               => hs[i] \in Past(e) \/ \E p \in 1 .. x - 1, v \in Over :
                   ready[p] = <<"wake", Task(i), v>>
      BY <1>9 DEF Precedes, WokenFirst, WaitsFirst, HandlerTask, IsPast
    <3>. QED BY <1>3, <2>1, <3>1
  <2>3. /\ DOMAIN ready = 1 .. Len(ready) /\ Len(ready) \in Nat /\ d \in {0, 1}
        /\ DOMAIN ready' = 1 .. Len(ready') /\ Len(ready') \in Nat
    BY LenProperties DEF SameRuns, Moves
  <2>4. p \in DOMAIN ready
    BY <2>1, <2>3
  <2>5. p - d \in DOMAIN ready' /\ ready'[p - d] = <<"wake", Task(i), u>>
    BY <1>0, <2>2, <2>4, WakesOf
  <2>6. p - d \in 1 .. q - 1
    BY <2>3, <2>5
  <2>. QED BY <2>5, <2>6
<1>4. ASSUME NEW k \in Keys, NEW q \in DOMAIN waiters'[k], waiters'[k][q] = Task(j),
             hs[i] \notin Past(e), ~Woken(Task(i))
      PROVE  \E p \in 1 .. q - 1 : waiters'[k][p] = Task(i)
  <2>1. \A h \in Handlers : {x \in DOMAIN waiters'[k] : waiters'[k][x] = <<"handler", e, h>>}
             = {x \in DOMAIN waiters[k] : waiters[k][x] = <<"handler", e, h>>}
    BY DEF SameRuns
  <2>2. q \in DOMAIN waiters[k] /\ waiters[k][q] = Task(j)
    BY <1>0, <1>4, <2>1
  <2>3. PICK p \in 1 .. q - 1 : waiters[k][p] = Task(i)
    BY <1>4, <1>9, <2>2 DEF Precedes, WokenFirst, WaitsFirst, HandlerTask, IsPast
  <2>4. p \in DOMAIN waiters[k]
    <3>1. DOMAIN waiters[k] = 1 .. Len(waiters[k]) /\ Len(waiters[k]) \in Nat
      BY LenProperties DEF TypeOK
    <3>. QED BY <2>2, <3>1
  <2>. QED BY <1>0, <2>1, <2>3, <2>4
<1>5. (\E u \in Over : <<"wake", Task(i), u>> \in ToSet(ready')) <=> Woken(Task(i))
  BY <1>0, WakesOf DEF Woken, ToSet
<1>. QED BY <1>0, <1>1, <1>2, <1>3, <1>4, <1>5 DEF Precedes, WokenFirst, WaitsFirst, HandlerTask,
            IsPast, Woken

InBlock(e, b) ==
    /\ b \in -Len(dispatched[e]) .. Len(ready) - Len(dispatched[e])
    /\ Queued(e, b) /\ HaveRun(e, b) /\ BlockRuns(e, b)

(* No entry of S is a task of e, or the event itself once e is dispatched.  *)
NoneOf(e, S) ==
    \A x \in S : /\ x[1] # "handler" \/ x[2] # e
                 /\ x[1] # "event" \/ x[2] # e \/ dispatched[e] = <<>>

(* c is the place of the block b once the d tasks before it have run; only  *)
(* a block with nothing left in the queue may be said to stay where it was. *)
Shifts(e, b, c, d) ==
    /\ b - d <= c /\ b <= Len(ready) - Len(dispatched[e])
    /\ \A q \in Nat : q >= 1 /\ (q + d) - b \in 1 .. Len(dispatched[e]) => c = b - d
    /\ \A i \in 1 .. Len(dispatched[e]) : c + i >= 1 => c = b - d

(* The block of e stays queued, d positions nearer to the head.            *)
LEMMA QueuedSame ==
    ASSUME TypeOK, NEW e \in Events, NEW d, NEW S, Moves(ready, ready', d, S), NoneOf(e, S),
           dispatched'[e] = dispatched[e],
           NEW b \in Int, NEW c \in Int, Queued(e, b), Shifts(e, b, c, d)
    PROVE  Queued(e, c)'
<1>. DEFINE hs == dispatched[e]
            n == Len(hs)
<1>1. /\ d \in {0, 1} /\ d <= Len(ready) /\ Len(ready) - d <= Len(ready')
      /\ Len(ready) \in Nat /\ Len(ready') \in Nat
      /\ DOMAIN ready = 1 .. Len(ready) /\ DOMAIN ready' = 1 .. Len(ready')
      /\ \A q \in DOMAIN ready' : IF q <= Len(ready) - d THEN ready'[q] = ready[q + d]
             ELSE ready'[q] \in S
  BY LenProperties DEF Moves
<1>2. n \in Nat /\ DOMAIN hs = 1 .. n /\ (\A i \in DOMAIN hs : hs[i] \in Handlers) /\ dispatched'[e] = hs
  BY LenProperties DEF TypeOK
<1>4. /\ \A q \in Nat : q >= 1 /\ (q + d) - b \in 1 .. n => c = b - d
      /\ \A i \in 1 .. n : c + i >= 1 => c = b - d
      /\ b <= Len(ready) - n /\ b - d <= c
  BY DEF Shifts
<1>0. \A x \in S : /\ x[1] # "handler" \/ x[2] # e
                   /\ x[1] # "event" \/ x[2] # e \/ dispatched[e] = <<>>
  BY DEF NoneOf
<1>. HIDE DEF n
<1>5. ASSUME NEW q \in DOMAIN ready', ready'[q][1] = "handler", ready'[q][2] = e
      PROVE  q - c \in DOMAIN hs
  <2>1. q <= Len(ready) - d /\ ready'[q] = ready[q + d] /\ q + d \in DOMAIN ready
    BY <1>0, <1>1, <1>5
  <2>4. \A x \in DOMAIN ready : ready[x][1] = "handler" /\ ready[x][2] = e => x - b \in 1 .. n
    BY <1>2 DEF Queued
  <2>5. ready[q + d][1] = "handler" /\ ready[q + d][2] = e
    BY <1>5, <2>1
  <2>2. (q + d) - b \in 1 .. n
    BY <2>1, <2>4, <2>5
  <2>3. c = b - d
    BY <1>1, <1>4, <1>5, <2>2
  <2>. QED BY <1>1, <1>2, <1>4, <2>2, <2>3
<1>6. ASSUME NEW q \in DOMAIN ready', ready'[q][1] = "event", ready'[q][2] = e, hs # <<>>
      PROVE  q <= c
  <2>1. q <= Len(ready) - d /\ ready'[q] = ready[q + d] /\ q + d \in DOMAIN ready
    BY <1>0, <1>1, <1>6
  <2>2. q + d <= b
    BY <1>6, <2>1 DEF Queued
  <2>. QED BY <1>1, <1>4, <1>6, <2>2
<1>7. ASSUME NEW i \in DOMAIN hs, c + i >= 1 PROVE ready'[c + i] = <<"handler", e, hs[i]>>
  <2>5. c = b - d
    BY <1>2, <1>4, <1>7
  <2>1. b + i >= 1 /\ b + i - d = c + i
    <3>1. i \in Int /\ d \in Int /\ d >= 0
      BY <1>1, <1>2
    <3>. QED BY <1>7, <2>5, <3>1
  <2>2. ready[b + i] = <<"handler", e, hs[i]>>
    BY <2>1 DEF Queued, HandlerTask
  <2>3. b + i <= Len(ready)
    BY <1>1, <1>2, <1>4
  <2>6. i \in Int /\ d \in Int /\ b \in Int /\ c + i \in Int
    BY <1>1, <1>2, <1>4
  <2>7. c + i <= Len(ready) - d /\ (c + i) + d = b + i
    BY <1>1, <2>1, <2>3, <2>5, <2>6
  <2>4. c + i \in DOMAIN ready'
    BY <1>1, <1>7, <2>6, <2>7
  <2>. QED BY <1>1, <2>2, <2>4, <2>7
<1>. QED BY <1>2, <1>5, <1>6, <1>7 DEF Queued, HandlerTask

(* The block of e stays as it was.                                         *)
LEMMA BlockSame ==
    ASSUME TypeOK, NEW e \in Events, NEW d, NEW S, SameRuns(e, d, S),
           NEW b, InBlock(e, b)
    PROVE  \E c \in Int : InBlock(e, c)'
<1>. DEFINE hs == dispatched[e]
            n == Len(hs)
            Task(h) == <<"handler", e, h>>
<1>1. /\ d \in {0, 1} /\ d <= Len(ready) /\ Len(ready) - d <= Len(ready')
      /\ Len(ready) \in Nat /\ Len(ready') \in Nat
      /\ DOMAIN ready = 1 .. Len(ready) /\ DOMAIN ready' = 1 .. Len(ready')
      /\ \A q \in DOMAIN ready' : IF q <= Len(ready) - d THEN ready'[q] = ready[q + d]
             ELSE ready'[q] \in S
  BY LenProperties DEF SameRuns, Moves
<1>2. n \in Nat /\ DOMAIN hs = 1 .. n /\ (\A i \in DOMAIN hs : hs[i] \in Handlers) /\ dispatched'[e] = hs
  BY LenProperties DEF TypeOK, SameRuns
<1>3. b \in -n .. Len(ready) - n
  BY DEF InBlock
<1>. HIDE DEF n
<1>13. PICK c : c = IF b - d < -n THEN b ELSE b - d
  OBVIOUS
<1>4. /\ c \in -n .. Len(ready') - n /\ c \in Int /\ b \in Int
      /\ c <= b /\ b - d <= c
      /\ \A i \in 1 .. n : /\ b - d + i >= 1 => c = b - d
                           /\ c + i >= 1 => c = b - d
  BY <1>1, <1>2, <1>3, <1>13
<1>5. \A i \in DOMAIN hs : hs[i] \in Past(e)' <=> hs[i] \in Past(e)
  BY <1>2 DEF SameRuns
<1>6. \A h \in Handlers : (\E u \in Over : <<"wake", Task(h), u>> \in ToSet(ready')) <=> Woken(Task(h))
  BY WakesOf DEF Woken, ToSet
<1>7. \A h \in Handlers, k \in Keys : Task(h) \in ToSet(waiters'[k]) <=> Waits(Task(h), k)
  <2>. TAKE h \in Handlers, k \in Keys
  <2>1. {q \in DOMAIN waiters'[k] : waiters'[k][q] = Task(h)} = {q \in DOMAIN waiters[k] : waiters[k][q] = Task(h)}
    BY DEF SameRuns
  <2>. QED BY <2>1 DEF Waits, ToSet
<1>8. d = 1 => \A i \in 1 .. n : b + i >= 1 => b + i >= 2
  <2>1. \A i \in DOMAIN hs : b + i >= 1 => ready[b + i] = HandlerTask(e, i)
    BY DEF InBlock, Queued
  <2>2. d = 1 => ready[1][1] # "handler" \/ ready[1][2] # e
    BY DEF SameRuns
  <2>3. ASSUME d = 1, NEW i \in 1 .. n, b + i >= 1, ~(b + i >= 2) PROVE FALSE
    <3>1. b + i = 1
      BY <1>4, <2>3
    <3>2. ready[1] = HandlerTask(e, i)
      BY <1>2, <2>1, <2>3, <3>1
    <3>. QED BY <2>2, <2>3, <3>2 DEF HandlerTask
  <2>. QED BY <2>3
<1>9. Queued(e, c)'
  <2>1. NoneOf(e, S) /\ Moves(ready, ready', d, S) /\ Queued(e, b)
    BY DEF SameRuns, InBlock, NoneOf
  <2>2. \A q \in Nat : q >= 1 /\ (q + d) - b \in 1 .. n => c = b - d
    BY <1>1, <1>3, <1>4
  <2>3. b <= Len(ready) - n
    BY <1>1, <1>2, <1>3
  <2>4. Shifts(e, b, c, d)
    BY <1>4, <2>2, <2>3 DEF Shifts, n
  <2>. QED BY <1>2, <1>4, <2>1, <2>4, QueuedSame
<1>10. \A i \in DOMAIN hs : c + i < 1 <=> b + i < 1
  <2>1. (c = b - d \/ c = b) /\ c <= b /\ (d = 0 \/ d = 1)
    BY <1>1, <1>4, <1>13
  <2>2. ASSUME NEW i \in DOMAIN hs PROVE c + i < 1 <=> b + i < 1
    <3>1. i \in Int /\ b \in Int /\ (d = 1 /\ b + i >= 1 => b + i >= 2)
      <4>1. i \in 1 .. n
        BY <1>2
      <4>. QED BY <1>2, <1>4, <1>8, <4>1, SMTT(30)
    <3>. HIDE DEF hs
    <3>. QED BY <2>1, <3>1
  <2>. QED BY <2>2
<1>11. HaveRun(e, c)'
  <2>1. /\ \A i \in DOMAIN hs :
             b + i < 1 => \/ hs[i] \in Past(e) \/ Woken(Task(hs[i]))
                          \/ \E k \in Keys : Waits(Task(hs[i]), k)
        /\ \A h \in Handlers :
             h \in Past(e) \/ Woken(Task(h)) \/ (\E k \in Keys : Waits(Task(h), k))
               => \E i \in DOMAIN hs : b + i < 1 /\ h = hs[i]
    BY DEF InBlock, HaveRun, IsPast, HandlerTask
  <2>2. \A h \in Handlers : h \in Past(e)' <=> h \in Past(e)
    BY DEF SameRuns
  <2>3. \A i \in DOMAIN hs :
             c + i < 1 => \/ hs[i] \in Past(e)' \/ (\E u \in Over : <<"wake", Task(hs[i]), u>> \in ToSet(ready'))
                          \/ \E k \in Keys : Task(hs[i]) \in ToSet(waiters'[k])
    BY <1>2, <1>6, <1>7, <1>10, <2>1, <2>2
  <2>4. \A h \in Handlers :
             h \in Past(e)' \/ (\E u \in Over : <<"wake", Task(h), u>> \in ToSet(ready'))
             \/ (\E k \in Keys : Task(h) \in ToSet(waiters'[k]))
               => \E i \in DOMAIN hs : c + i < 1 /\ h = hs[i]
    BY <1>6, <1>7, <1>10, <2>1, <2>2
  <2>. QED BY <1>2, <2>3, <2>4 DEF HaveRun, IsPast, HandlerTask, Woken, Waits
<1>12. BlockRuns(e, c)'
  <2>. SUFFICES ASSUME c + n >= 1
       PROVE  \A h \in Handlers :
                 /\ ~(\E u \in Over : <<"wake", Task(h), u>> \in ToSet(ready'))
                 /\ \A k \in Keys : Task(h) \in ToSet(waiters'[k]) => ~InCache(k)'
    BY <1>2 DEF BlockRuns, Woken, Waits, n
  <2>. TAKE h \in Handlers
  <2>1. b + n >= 1
    BY <1>1, <1>2, <1>4
  <2>2. ~Woken(Task(h)) /\ \A k \in Keys : Waits(Task(h), k) => ~InCache(k)
    BY <2>1 DEF InBlock, BlockRuns, n
  <2>3. ASSUME NEW k \in Keys, Waits(Task(h), k), d = 1 PROVE FALSE
    <3>1. PICK i \in DOMAIN hs : b + i < 1
      BY <2>3 DEF InBlock, HaveRun
    <3>2. 1 - b \in 1 .. n /\ b + (1 - b) = 1
      BY <1>2, <1>4, <2>1, <3>1
    <3>. QED BY <1>4, <1>8, <2>3, <3>2
  <2>4. d = 0 => \A k \in Keys : InCache(k)' <=> InCache(k)
    BY DEF SameRuns, InCache
  <2>. QED BY <1>1, <1>6, <1>7, <2>2, <2>3, <2>4
<1>. QED BY <1>2, <1>4, <1>9, <1>11, <1>12 DEF InBlock, n

-----------------------------------------------------------------------------
(* The block, when the head of the queue is one of its handlers or wakes one. *)

Clean(e, S) ==
    \A x \in S :
         /\ x[1] # "handler" \/ x[2] # e
         /\ x[1] # "event" \/ x[2] # e \/ dispatched[e] = <<>>
         /\ \A h \in Handlers, o \in Over : x # <<"wake", <<"handler", e, h>>, o>>

(* When a handler of e is next, those before it in the block are past or   *)
(* wait for a key that is not cached.                                      *)
LEMMA HandlerAtHead ==
    ASSUME TypeOK, NEW e \in Events, NEW b, InBlock(e, b),
           ready # <<>>, ready[1][1] = "handler", ready[1][2] = e
    PROVE  /\ 1 - b \in DOMAIN dispatched[e] /\ b <= 0 /\ b \in Int
           /\ ready[1] = HandlerTask(e, 1 - b)
           /\ \A h \in Handlers : ~Woken(<<"handler", e, h>>)
           /\ \A h \in Handlers, k \in Keys : Waits(<<"handler", e, h>>, k) => ~InCache(k)
           /\ \A i \in DOMAIN dispatched[e] :
                i < 1 - b => IsPast(e, i) \/ \E k \in Keys : Waits(HandlerTask(e, i), k)
<1>1. /\ Len(ready) \in Nat \ {0} /\ 1 \in DOMAIN ready
      /\ dispatched[e] \in Seq(Handlers) /\ Len(dispatched[e]) \in Nat
      /\ DOMAIN dispatched[e] = 1 .. Len(dispatched[e])
      /\ \A i \in DOMAIN dispatched[e] : dispatched[e][i] \in Handlers
  BY EmptySeq, LenProperties DEF TypeOK
<1>2. b \in Int /\ Queued(e, b) /\ HaveRun(e, b) /\ BlockRuns(e, b)
  BY <1>1 DEF InBlock
<1>3. 1 - b \in DOMAIN dispatched[e]
  BY <1>1, <1>2 DEF Queued
<1>4. b <= 0 /\ b + (1 - b) = 1 /\ b + Len(dispatched[e]) >= 1
  BY <1>1, <1>2, <1>3
<1>5. ready[1] = HandlerTask(e, 1 - b)
  <2>1. \A i \in DOMAIN dispatched[e] : b + i >= 1 => ready[b + i] = HandlerTask(e, i)
    BY <1>2 DEF Queued
  <2>. QED BY <1>3, <1>4, <2>1
<1>6. \A h \in Handlers : /\ ~Woken(<<"handler", e, h>>)
                          /\ \A k \in Keys : Waits(<<"handler", e, h>>, k) => ~InCache(k)
  BY <1>2, <1>4 DEF BlockRuns
<1>7. ASSUME NEW i \in DOMAIN dispatched[e], i < 1 - b
      PROVE  IsPast(e, i) \/ \E k \in Keys : Waits(HandlerTask(e, i), k)
  <2>1. b + i < 1
    BY <1>1, <1>2, <1>7
  <2>. QED BY <1>1, <1>2, <1>6, <2>1 DEF HaveRun, HandlerTask
<1>. QED BY <1>2, <1>3, <1>4, <1>5, <1>6, <1>7

(* As long as handlers of e are queued, no step wakes one of them.         *)
LEMMA NoWakes ==
    ASSUME TypeOK, NEW e \in Events, NEW d, NEW S, Moves(ready, ready', d, S), Clean(e, S),
           \A h \in Handlers : ~Woken(<<"handler", e, h>>)
    PROVE  \A q \in DOMAIN ready', h \in Handlers, o \in Over :
               ready'[q] # <<"wake", <<"handler", e, h>>, o>>
<1>1. /\ d \in {0, 1} /\ d <= Len(ready) /\ Len(ready) - d <= Len(ready')
      /\ Len(ready) \in Nat /\ Len(ready') \in Nat
      /\ DOMAIN ready = 1 .. Len(ready) /\ DOMAIN ready' = 1 .. Len(ready')
      /\ \A q \in DOMAIN ready' : IF q <= Len(ready) - d THEN ready'[q] = ready[q + d]
             ELSE ready'[q] \in S
  BY LenProperties DEF Moves
<1>2. \A q \in DOMAIN ready, h \in Handlers, o \in Over :
          ready[q] # <<"wake", <<"handler", e, h>>, o>>
  BY DEF Woken, ToSet
<1>. SUFFICES ASSUME NEW q \in DOMAIN ready', NEW h \in Handlers, NEW o \in Over
     PROVE ready'[q] # <<"wake", <<"handler", e, h>>, o>>
  OBVIOUS
<1>3. CASE q <= Len(ready) - d
  <2>1. q + d \in DOMAIN ready
    BY <1>1, <1>3
  <2>. QED BY <1>1, <1>2, <1>3, <2>1
<1>4. CASE ~(q <= Len(ready) - d)
  BY <1>1, <1>4 DEF Clean
<1>. QED BY <1>3, <1>4

(* The next handler of a block runs: the rest stays queued. *)
LEMMA QueuedRest ==
    ASSUME TypeOK, NEW e \in Events, NEW S, Moves(ready, ready', 1, S), Clean(e, S),
           dispatched'[e] = dispatched[e], NEW b, InBlock(e, b),
           ready # <<>>, ready[1][1] = "handler", ready[1][2] = e
    PROVE  /\ Queued(e, b - 1)'
           /\ b - 1 \in -Len(dispatched[e]) .. Len(ready') - Len(dispatched[e])
<1>1. 1 - b \in DOMAIN dispatched[e] /\ b \in Int /\ b - 1 \in Int
  BY HandlerAtHead
<1>2. Queued(e, b) /\ b \in -Len(dispatched[e]) .. Len(ready) - Len(dispatched[e])
  BY DEF InBlock
<1>3. /\ Len(dispatched[e]) \in Nat /\ DOMAIN dispatched[e] = 1 .. Len(dispatched[e])
      /\ Len(ready) \in Nat /\ Len(ready') \in Nat /\ Len(ready) - 1 <= Len(ready')
  BY LenProperties DEF TypeOK, Moves
<1>4. NoneOf(e, S)
  BY DEF Clean, NoneOf
<1>5. b - 1 \in -Len(dispatched[e]) .. Len(ready') - Len(dispatched[e])
  BY <1>1, <1>2, <1>3
<1>6. PICK c : c = b - 1
  OBVIOUS
<1>7. Queued(e, c)'
  <2>. DEFINE d == 1
  <2>1. c \in Int /\ b - 1 <= c /\ b <= Len(ready) - Len(dispatched[e]) /\ c = b - 1
    BY <1>1, <1>2, <1>3, <1>6
  <2>2. Moves(ready, ready', d, S) /\ Shifts(e, b, c, d)
    BY <2>1 DEF Shifts
  <2>. HIDE DEF d
  <2>. QED BY <1>1, <1>2, <1>4, <2>1, <2>2, QueuedSame
<1>. QED BY <1>5, <1>6, <1>7

(* It is called at once. No other handler of e waits for the key then.     *)
LEMMA Begins ==
    ASSUME TypeOK, NEW e \in Events, NEW S, Moves(ready, ready', 1, S), Clean(e, S),
           dispatched'[e] = dispatched[e], NEW b, InBlock(e, b), InSequence(e), VerbsFirst(e),
           ready # <<>>, NEW h \in Handlers, ready[1] = <<"handler", e, h>>,
           \A g \in Handlers, k \in Keys : ~Waits(<<"handler", e, g>>, k),
           waiters' = waiters, Past(e)' = Past(e) \cup {h}
    PROVE  InSequence(e)' /\ \E c \in Int : InBlock(e, c)'
<1>. DEFINE hs == dispatched[e]
            n == Len(hs)
            Task(g) == <<"handler", e, g>>
<1>1. /\ 1 - b \in DOMAIN hs /\ b <= 0 /\ b \in Int
      /\ h = hs[1 - b]
      /\ \A g \in Handlers : ~Woken(Task(g))
  BY HandlerAtHead DEF HandlerTask
<1>2. /\ n \in Nat /\ DOMAIN hs = 1 .. n /\ dispatched'[e] = hs
      /\ \A i \in DOMAIN hs : hs[i] \in Handlers
  BY LenProperties DEF TypeOK
<1>3. \A q \in DOMAIN ready', g \in Handlers, o \in Over : ready'[q] # <<"wake", Task(g), o>>
  BY <1>1, NoWakes
<1>4. \A g \in Handlers, k \in Keys : Task(g) \notin ToSet(waiters'[k])
  BY DEF Waits
<1>5. \A i \in DOMAIN hs : i < 1 - b => hs[i] \in Past(e)
  <2>1. \A i \in DOMAIN hs : i < 1 - b => IsPast(e, i) \/ \E k \in Keys :
            Waits(HandlerTask(e, i), k)
    BY HandlerAtHead
  <2>. QED BY <1>2, <2>1 DEF IsPast, HandlerTask
<1>6. \A i, j \in DOMAIN hs : i < j /\ hs[j] \in Past(e)' => hs[i] \in Past(e)'
  <2>1. \A i, j \in DOMAIN hs : i < j /\ hs[j] \in Past(e) => hs[i] \in Past(e)
    BY DEF InSequence, Precedes, IsPast
  <2>2. \A j \in DOMAIN hs : hs[j] = h => j = 1 - b
    BY <1>1 DEF VerbsFirst
  <2>. QED BY <1>1, <1>5, <2>1, <2>2
<1>7. InSequence(e)'
  <2>. SUFFICES ASSUME NEW i \in DOMAIN hs, NEW j \in DOMAIN hs, i < j PROVE Precedes(e, i, j)'
    BY <1>2 DEF InSequence
  <2>1. hs[j] \in Past(e)' => hs[i] \in Past(e)'
    BY <1>6
  <2>2. \A q \in DOMAIN ready', o \in Over : ready'[q] # <<"wake", Task(hs[j]), o>>
    BY <1>2, <1>3
  <2>3. \A k \in Keys : \A q \in DOMAIN waiters'[k] : waiters'[k][q] # Task(hs[j])
    BY <1>2, <1>4 DEF ToSet
  <2>. QED BY <1>2, <2>1, <2>2, <2>3 DEF Precedes, WokenFirst, WaitsFirst, IsPast, HandlerTask
<1>8. PICK c \in Int : c = b - 1
  BY <1>1
<1>9. Queued(e, c)' /\ c \in -n .. Len(ready') - n
  BY <1>8, QueuedRest
<1>10. HaveRun(e, c)'
  <2>1. \A i \in DOMAIN hs : c + i < 1 => hs[i] \in Past(e)'
    <3>1. \A i \in DOMAIN hs : c + i < 1 => i < 1 - b \/ i = 1 - b
      BY <1>1, <1>2, <1>8
    <3>. QED BY <1>1, <1>5, <3>1
  <2>2. \A g \in Handlers : g \in Past(e)' => \E i \in DOMAIN hs : c + i < 1 /\ g = hs[i]
    <3>1. \A g \in Handlers : g \in Past(e) => \E i \in DOMAIN hs : b + i < 1 /\ g = hs[i]
      BY DEF InBlock, HaveRun
    <3>2. \A i \in DOMAIN hs : b + i < 1 => c + i < 1
      BY <1>1, <1>2, <1>8
    <3>3. c + (1 - b) < 1
      BY <1>1, <1>8
    <3>. QED BY <1>1, <3>1, <3>2, <3>3
  <2>3. \A g \in Handlers : /\ ~(\E o \in Over : <<"wake", Task(g), o>> \in ToSet(ready'))
                            /\ \A k \in Keys : Task(g) \notin ToSet(waiters'[k])
    BY <1>3, <1>4 DEF ToSet
  <2>4. \A g \in Handlers :
          g \in Past(e)' \/ (\E o \in Over : <<"wake", Task(g), o>> \in ToSet(ready'))
          \/ (\E k \in Keys : Task(g) \in ToSet(waiters'[k]))
            => \E i \in DOMAIN hs : c + i < 1 /\ g = hs[i]
    BY <2>2, <2>3
  <2>. QED BY <1>2, <2>1, <2>4 DEF HaveRun, IsPast, Woken, Waits
<1>11. BlockRuns(e, c)'
  <2>1. \A g \in Handlers : ~(\E o \in Over : <<"wake", Task(g), o>> \in ToSet(ready'))
    BY <1>3 DEF ToSet
  <2>. QED BY <1>4, <2>1 DEF BlockRuns, Woken, Waits
<1>. QED BY <1>2, <1>7, <1>9, <1>10, <1>11 DEF InBlock

(* WaitsFirst with its definitions expanded.                               *)
LEMMA WaitsFirstAfter ==
    ASSUME NEW e \in Events, NEW i, NEW j, dispatched'[e] = dispatched[e],
           \A l \in Keys : \A q \in DOMAIN waiters'[l] :
             waiters'[l][q] = <<"handler", e, dispatched[e][j]>>
               => \/ dispatched[e][i] \in Past(e)'
                  \/ \E u \in Over : <<"wake", <<"handler", e, dispatched[e][i]>>, u>> \in ToSet(ready')
                  \/ \E p \in 1 .. q - 1 : waiters'[l][p] = <<"handler", e, dispatched[e][i]>>
    PROVE  WaitsFirst(e, i, j)'
BY DEF WaitsFirst, IsPast, HandlerTask, Woken

(* It has to wait, behind the handlers of e that wait already.             *)
LEMMA StartsToWait ==
    ASSUME TypeOK, NEW e \in Events, NEW S, Moves(ready, ready', 1, S), Clean(e, S),
           dispatched'[e] = dispatched[e], NEW b, InBlock(e, b), InSequence(e), VerbsFirst(e),
           ready # <<>>, NEW h \in Handlers, ready[1] = <<"handler", e, h>>,
           NEW k \in Keys, ~InCache(k)',
           \A g \in Handlers, l \in Keys : Waits(<<"handler", e, g>>, l) => l = k,
           waiters' = [waiters EXCEPT ![k] = Append(waiters[k], <<"handler", e, h>>)],
           Past(e)' = Past(e)
    PROVE  InSequence(e)' /\ \E c \in Int : InBlock(e, c)'
<1>. DEFINE hs == dispatched[e]
            n == Len(hs)
            Task(g) == <<"handler", e, g>>
<1>1. /\ 1 - b \in DOMAIN hs /\ b <= 0 /\ b \in Int
      /\ h = hs[1 - b]
      /\ \A g \in Handlers : ~Woken(Task(g))
  BY HandlerAtHead DEF HandlerTask
<1>2. /\ n \in Nat /\ DOMAIN hs = 1 .. n /\ dispatched'[e] = hs
      /\ \A i \in DOMAIN hs : hs[i] \in Handlers
  BY LenProperties DEF TypeOK
<1>3. \A q \in DOMAIN ready', g \in Handlers, o \in Over : ready'[q] # <<"wake", Task(g), o>>
  BY <1>1, NoWakes
<1>4. \A i \in DOMAIN hs : i < 1 - b => hs[i] \in Past(e) \/ Waits(Task(hs[i]), k)
  <2>1. \A i \in DOMAIN hs : i < 1 - b => IsPast(e, i) \/ \E l \in Keys :
            Waits(HandlerTask(e, i), l)
    BY HandlerAtHead
  <2>. QED BY <1>2, <2>1 DEF IsPast, HandlerTask
<1>5. /\ Len(waiters[k]) \in Nat /\ DOMAIN waiters[k] = 1 .. Len(waiters[k])
      /\ DOMAIN waiters'[k] = 1 .. Len(waiters[k]) + 1
      /\ \A q \in 1 .. Len(waiters[k]) : waiters'[k][q] = waiters[k][q]
      /\ waiters'[k][Len(waiters[k]) + 1] = Task(h)
      /\ \A l \in Keys : l # k => waiters'[l] = waiters[l]
  <2>1. waiters[k] \in Seq(Tasks) /\ waiters \in [Keys -> Seq(Tasks)]
    BY DEF TypeOK
  <2>2. Task(h) \in Tasks
    BY DEF Tasks, HandlerTasks
  <2>3. waiters'[k] = Append(waiters[k], Task(h)) /\ \A l \in Keys : l # k
            => waiters'[l] = waiters[l]
    BY <2>1
  <2>. QED BY <2>1, <2>2, <2>3, AppendProperties, LenProperties
<1>6. \A g \in Handlers, l \in Keys :
        Task(g) \in ToSet(waiters'[l]) <=> Waits(Task(g), l) \/ (g = h /\ l = k)
  <2>. SUFFICES ASSUME NEW g \in Handlers, NEW l \in Keys
       PROVE Task(g) \in ToSet(waiters'[l]) <=> Waits(Task(g), l) \/ (g = h /\ l = k)
    OBVIOUS
  <2>1. CASE l # k
    BY <1>5, <2>1 DEF Waits
  <2>2. CASE l = k
    <3>1. \A q \in 1 .. Len(waiters[k]) + 1 :
              q \in 1 .. Len(waiters[k]) \/ q = Len(waiters[k]) + 1
      BY <1>5
    <3>2. Len(waiters[k]) + 1 \in DOMAIN waiters'[k] /\ DOMAIN waiters[k] \subseteq DOMAIN waiters'[k]
      BY <1>5
    <3>3. ASSUME NEW q \in DOMAIN waiters'[k], waiters'[k][q] = Task(g)
          PROVE  g = h \/ \E p \in DOMAIN waiters[k] : waiters[k][p] = Task(g)
      BY <1>5, <3>1, <3>3
    <3>4. g = h => waiters'[k][Len(waiters[k]) + 1] = Task(g)
      BY <1>5
    <3>5. \A q \in DOMAIN waiters[k] : waiters'[k][q] = waiters[k][q]
      BY <1>5
    <3>. QED BY <2>2, <3>2, <3>3, <3>4, <3>5 DEF Waits, ToSet
  <2>. QED BY <2>1, <2>2
<1>7. InSequence(e)'
  <2>. SUFFICES ASSUME NEW i \in DOMAIN hs, NEW j \in DOMAIN hs, i < j PROVE Precedes(e, i, j)'
    BY <1>2 DEF InSequence
  <2>0. Precedes(e, i, j)
    BY DEF InSequence
  <2>1. hs[j] \in Past(e)' => hs[i] \in Past(e)'
    BY <2>0 DEF Precedes, IsPast
  <2>2. \A q \in DOMAIN ready', o \in Over : ready'[q] # <<"wake", Task(hs[j]), o>>
    BY <1>2, <1>3
  <2>3. ASSUME NEW l \in Keys, NEW q \in DOMAIN waiters'[l], waiters'[l][q] = Task(hs[j])
        PROVE  \/ hs[i] \in Past(e)'
               \/ \E p \in 1 .. q - 1 : waiters'[l][p] = Task(hs[i])
    <3>1. CASE q \in DOMAIN waiters[l] /\ waiters[l][q] = Task(hs[j])
      <4>1. hs[i] \in Past(e) \/ \E p \in 1 .. q - 1 : waiters[l][p] = Task(hs[i])
        BY <1>1, <1>2, <2>0, <3>1 DEF Precedes, WokenFirst, WaitsFirst, IsPast, HandlerTask
      <4>2. DOMAIN waiters[l] = 1 .. Len(waiters[l]) /\ Len(waiters[l]) \in Nat
        BY LenProperties DEF TypeOK
      <4>3. \A p \in 1 .. q - 1 : waiters'[l][p] = waiters[l][p]
        BY <1>5, <3>1, <4>2
      <4>. QED BY <4>1, <4>3
    <3>2. CASE ~(q \in DOMAIN waiters[l] /\ waiters[l][q] = Task(hs[j]))
      <4>1. l = k /\ q = Len(waiters[k]) + 1
        BY <1>5, <2>3, <3>2
      <4>2. hs[j] = h
        BY <1>5, <2>3, <4>1
      <4>3. j = 1 - b
        BY <1>1, <4>2 DEF VerbsFirst
      <4>4. hs[i] \in Past(e) \/ Waits(Task(hs[i]), k)
        BY <1>4, <4>3
      <4>5. Waits(Task(hs[i]), k) => \E p \in 1 .. q - 1 : waiters'[l][p] = Task(hs[i])
        BY <1>5, <4>1 DEF Waits, ToSet
      <4>. QED BY <4>4, <4>5
    <3>. QED BY <3>1, <3>2
  <2>4. \A l \in Keys : \A q \in DOMAIN waiters'[l] :
          waiters'[l][q] = Task(hs[j])
            => \/ hs[i] \in Past(e)' \/ (\E u \in Over : <<"wake", Task(hs[i]), u>> \in ToSet(ready'))
               \/ \E p \in 1 .. q - 1 : waiters'[l][p] = Task(hs[i])
    BY <2>3
  <2>5. WokenFirst(e, i, j)'
    BY <1>2, <2>2 DEF WokenFirst, HandlerTask
  <2>6. WaitsFirst(e, i, j)'
    BY <1>2, <2>4, WaitsFirstAfter
  <2>. QED BY <1>2, <2>1, <2>5, <2>6 DEF Precedes, IsPast
<1>8. PICK c \in Int : c = b - 1
  BY <1>1
<1>9. Queued(e, c)' /\ c \in -n .. Len(ready') - n
  BY <1>8, QueuedRest
<1>10. HaveRun(e, c)'
  <2>1. \A i \in DOMAIN hs : c + i < 1 => hs[i] \in Past(e)' \/ \E l \in Keys :
            Task(hs[i]) \in ToSet(waiters'[l])
    <3>1. \A i \in DOMAIN hs : c + i < 1 => i < 1 - b \/ i = 1 - b
      BY <1>1, <1>2, <1>8
    <3>. QED BY <1>1, <1>2, <1>4, <1>6, <3>1
  <2>2. \A g \in Handlers : g \in Past(e)' \/ (\E l \in Keys : Task(g) \in ToSet(waiters'[l]))
          => \E i \in DOMAIN hs : c + i < 1 /\ g = hs[i]
    <3>1. \A g \in Handlers : g \in Past(e) \/ (\E l \in Keys : Waits(Task(g), l))
            => \E i \in DOMAIN hs : b + i < 1 /\ g = hs[i]
      BY DEF InBlock, HaveRun
    <3>2. \A i \in DOMAIN hs : b + i < 1 => c + i < 1
      BY <1>1, <1>2, <1>8
    <3>3. c + (1 - b) < 1
      BY <1>1, <1>8
    <3>. QED BY <1>1, <1>6, <3>1, <3>2, <3>3
  <2>3. \A g \in Handlers : ~(\E o \in Over : <<"wake", Task(g), o>> \in ToSet(ready'))
    BY <1>3 DEF ToSet
  <2>4. \A g \in Handlers :
          g \in Past(e)' \/ (\E o \in Over : <<"wake", Task(g), o>> \in ToSet(ready'))
          \/ (\E l \in Keys : Task(g) \in ToSet(waiters'[l]))
            => \E i \in DOMAIN hs : c + i < 1 /\ g = hs[i]
    BY <2>2, <2>3
  <2>. QED BY <1>2, <2>1, <2>4, ZenonT(60) DEF HaveRun, IsPast, HandlerTask, Woken, Waits
<1>11. BlockRuns(e, c)'
  <2>1. \A g \in Handlers : ~(\E o \in Over : <<"wake", Task(g), o>> \in ToSet(ready'))
    BY <1>3 DEF ToSet
  <2>2. \A g \in Handlers, l \in Keys : Task(g) \in ToSet(waiters'[l]) => l = k
    BY <1>6
  <2>. QED BY <2>1, <2>2 DEF BlockRuns, Woken, Waits
<1>. QED BY <1>2, <1>7, <1>9, <1>10, <1>11 DEF InBlock

(* A task that waited resumes. *)
LEMMA Resumes ==
    ASSUME TypeOK, NEW e \in Events, Moves(ready, ready', 1, {}),
           dispatched'[e] = dispatched[e], NEW b, InBlock(e, b), InSequence(e), VerbsFirst(e),
           ready # <<>>, NEW h \in Handlers, NEW o \in Over,
           ready[1] = <<"wake", <<"handler", e, h>>, o>>,
           waiters' = waiters, Past(e)' = Past(e) \cup {h}
    PROVE  InSequence(e)' /\ \E c \in Int : InBlock(e, c)'
<1>. DEFINE hs == dispatched[e]
            n == Len(hs)
            Task(g) == <<"handler", e, g>>
<1>1. /\ n \in Nat /\ DOMAIN hs = 1 .. n /\ dispatched'[e] = hs
      /\ \A i \in DOMAIN hs : hs[i] \in Handlers
  BY LenProperties DEF TypeOK
<1>2. /\ Len(ready) \in Nat /\ 1 \in DOMAIN ready /\ DOMAIN ready = 1 .. Len(ready)
      /\ Len(ready') = Len(ready) - 1 /\ DOMAIN ready' = 1 .. Len(ready) - 1
      /\ \A q \in DOMAIN ready' : ready'[q] = ready[q + 1] /\ q + 1 \in DOMAIN ready
      /\ \A q \in DOMAIN ready : q # 1 => q - 1 \in DOMAIN ready' /\ ready'[q - 1] = ready[q]
  <2>1. /\ Len(ready) \in Nat \ {0} /\ Len(ready') \in Nat /\ DOMAIN ready = 1 .. Len(ready)
        /\ DOMAIN ready' = 1 .. Len(ready')
    BY EmptySeq, LenProperties DEF Moves
  <2>2. /\ Len(ready) - 1 <= Len(ready')
        /\ \A q \in DOMAIN ready' : q <= Len(ready) - 1 /\ ready'[q] = ready[q + 1]
    BY DEF Moves
  <2>3. Len(ready') = Len(ready) - 1
    <3>1. CASE Len(ready') = 0
      BY <2>1, <2>2, <3>1
    <3>2. CASE Len(ready') # 0
      <4>1. Len(ready') \in DOMAIN ready'
        BY <2>1, <3>2
      <4>2. Len(ready') <= Len(ready) - 1
        BY <2>2, <4>1
      <4>3. Len(ready) - 1 <= Len(ready') /\ Len(ready) \in Int /\ Len(ready') \in Int
        BY <2>1, <2>2
      <4>. QED BY <4>2, <4>3
    <3>. QED BY <3>1, <3>2
  <2>4. ASSUME NEW q \in DOMAIN ready, q # 1 PROVE q - 1 \in DOMAIN ready' /\ (q - 1) + 1 = q
    BY <2>1, <2>3, <2>4
  <2>. QED BY <2>1, <2>2, <2>3, <2>4
<1>3. Woken(Task(h))
  BY <1>2 DEF Woken, ToSet
<1>4. b \in Int /\ b = -n
  <2>1. ~(b + n >= 1)
    BY <1>3 DEF InBlock, BlockRuns
  <2>2. b \in Int /\ b >= -n
    BY <1>1, <1>2 DEF InBlock
  <2>. QED BY <1>1, <2>1, <2>2
<1>5. \A i \in DOMAIN hs : b + i < 1
  BY <1>1, <1>4
<1>6. \A g \in Handlers : Woken(Task(g)) => g = h \/ \E u \in Over :
          <<"wake", Task(g), u>> \in ToSet(ready')
  <2>. SUFFICES ASSUME NEW g \in Handlers, NEW u \in Over, NEW q \in DOMAIN ready,
                       ready[q] = <<"wake", Task(g), u>>, g # h
       PROVE  <<"wake", Task(g), u>> \in ToSet(ready')
    BY DEF Woken, ToSet
  <2>1. q # 1
    OBVIOUS
  <2>. QED BY <1>2, <2>1 DEF ToSet
<1>7. \A g \in Handlers : (\E u \in Over : <<"wake", Task(g), u>> \in ToSet(ready'))
          => Woken(Task(g))
  BY <1>2 DEF Woken, ToSet
<1>8. InSequence(e)'
  <2>. SUFFICES ASSUME NEW i \in DOMAIN hs, NEW j \in DOMAIN hs, i < j PROVE Precedes(e, i, j)'
    BY <1>1 DEF InSequence
  <2>0. /\ hs[j] \in Past(e) => hs[i] \in Past(e)
        /\ \A q \in DOMAIN ready, u \in Over :
             ready[q] = <<"wake", Task(hs[j]), u>>
               => hs[i] \in Past(e) \/ \E p \in 1 .. q - 1, v \in Over :
                   ready[p] = <<"wake", Task(hs[i]), v>>
        /\ \A k \in Keys : \A q \in DOMAIN waiters[k] :
             waiters[k][q] = Task(hs[j])
               => hs[i] \in Past(e) \/ Woken(Task(hs[i])) \/ \E p \in 1 .. q - 1 :
                   waiters[k][p] = Task(hs[i])
    BY DEF InSequence, Precedes, WokenFirst, WaitsFirst, IsPast, HandlerTask
  <2>1. hs[j] \in Past(e)' => hs[i] \in Past(e)'
    <3>1. CASE hs[j] \in Past(e)
      BY <2>0, <3>1
    <3>2. CASE hs[j] = h
      <4>1. hs[i] \in Past(e) \/ \E p \in 1 .. 1 - 1, v \in Over :
                ready[p] = <<"wake", Task(hs[i]), v>>
        BY <1>2, <2>0, <3>2
      <4>. QED BY <4>1
    <3>. QED BY <3>1, <3>2
  <2>2. ASSUME NEW q \in DOMAIN ready', NEW u \in Over, ready'[q] = <<"wake", Task(hs[j]), u>>
        PROVE  hs[i] \in Past(e)' \/ \E p \in 1 .. q - 1, v \in Over :
                   ready'[p] = <<"wake", Task(hs[i]), v>>
    <3>1. CASE hs[i] \in Past(e)
      BY <3>1
    <3>2. CASE hs[i] \notin Past(e)
      <4>1. q + 1 \in DOMAIN ready /\ ready[q + 1] = <<"wake", Task(hs[j]), u>>
        BY <1>2, <2>2
      <4>2. PICK p \in 1 .. (q + 1) - 1, v \in Over : ready[p] = <<"wake", Task(hs[i]), v>>
        BY <2>0, <3>2, <4>1
      <4>3. CASE p = 1
        BY <1>1, <4>2, <4>3
      <4>4. CASE p # 1
        <5>1. p \in DOMAIN ready /\ p - 1 \in 1 .. q - 1
          BY <1>2, <4>1, <4>4
        <5>. QED BY <1>2, <4>2, <4>4, <5>1
      <4>. QED BY <4>3, <4>4
    <3>. QED BY <3>1, <3>2
  <2>3. ASSUME NEW k \in Keys, NEW q \in DOMAIN waiters'[k], waiters'[k][q] = Task(hs[j])
        PROVE  \/ hs[i] \in Past(e)' \/ \E u \in Over :
                      <<"wake", Task(hs[i]), u>> \in ToSet(ready')
               \/ \E p \in 1 .. q - 1 : waiters'[k][p] = Task(hs[i])
    BY <1>1, <1>6, <2>0, <2>3
  <2>4. \A q \in DOMAIN ready', u \in Over :
          ready'[q] = <<"wake", Task(hs[j]), u>>
            => hs[i] \in Past(e)' \/ \E p \in 1 .. q - 1, v \in Over :
                ready'[p] = <<"wake", Task(hs[i]), v>>
    BY <2>2
  <2>5. \A k \in Keys : \A q \in DOMAIN waiters'[k] :
          waiters'[k][q] = Task(hs[j])
            => \/ hs[i] \in Past(e)' \/ (\E u \in Over : <<"wake", Task(hs[i]), u>> \in ToSet(ready'))
               \/ \E p \in 1 .. q - 1 : waiters'[k][p] = Task(hs[i])
    BY <2>3
  <2>6. WokenFirst(e, i, j)'
    BY <1>1, <2>4 DEF WokenFirst, IsPast, HandlerTask
  <2>7. WaitsFirst(e, i, j)'
    BY <1>1, <2>5, ZenonT(60) DEF WaitsFirst, IsPast, HandlerTask, Woken
  <2>. QED BY <1>1, <2>1, <2>6, <2>7 DEF Precedes, IsPast
<1>9. Queued(e, b)'
  <2>. DEFINE d == 1
              S == {}
  <2>1. b <= Len(ready) - n
    BY <1>1, <1>2 DEF InBlock
  <2>2. Shifts(e, b, b, d)
    BY <1>1, <1>2, <1>4, <2>1 DEF Shifts
  <2>3. Moves(ready, ready', d, S) /\ NoneOf(e, S) /\ Queued(e, b) /\ b \in Int
    BY <1>4 DEF InBlock, NoneOf
  <2>. HIDE DEF d, S
  <2>. QED BY <2>2, <2>3, QueuedSame
<1>10. HaveRun(e, b)'
  <2>1. \A i \in DOMAIN hs : \/ hs[i] \in Past(e)' \/ (\E u \in Over : <<"wake", Task(hs[i]), u>> \in ToSet(ready'))
                             \/ \E k \in Keys : Task(hs[i]) \in ToSet(waiters'[k])
    <3>1. \A i \in DOMAIN hs : hs[i] \in Past(e) \/ Woken(Task(hs[i])) \/ \E k \in Keys :
              Waits(Task(hs[i]), k)
      BY <1>5 DEF InBlock, HaveRun, IsPast, HandlerTask
    <3>. QED BY <1>1, <1>6, <3>1 DEF Waits
  <2>2. \A g \in Handlers :
          g \in Past(e)' \/ (\E u \in Over : <<"wake", Task(g), u>> \in ToSet(ready'))
          \/ (\E k \in Keys : Task(g) \in ToSet(waiters'[k]))
            => \E i \in DOMAIN hs : b + i < 1 /\ g = hs[i]
    <3>1. \A g \in Handlers :
            g \in Past(e) \/ Woken(Task(g)) \/ (\E k \in Keys : Waits(Task(g), k))
              => \E i \in DOMAIN hs : b + i < 1 /\ g = hs[i]
      BY DEF InBlock, HaveRun
    <3>. QED BY <1>3, <1>7, <3>1 DEF Waits
  <2>. QED BY <1>1, <2>1, <2>2 DEF HaveRun, IsPast, HandlerTask, Woken, Waits
<1>11. BlockRuns(e, b)'
  BY <1>1, <1>4 DEF BlockRuns
<1>12. b \in -n .. Len(ready') - n
  BY <1>1, <1>2, <1>4
<1>. QED BY <1>1, <1>4, <1>8, <1>9, <1>10, <1>11, <1>12 DEF InBlock

-----------------------------------------------------------------------------
(* The block, when a retrieval ends and when its activity is dispatched.   *)

(* The end of a retrieval wakes all who wait for it, in their order. *)
WakesAll(k, o) ==
    /\ ready # <<>> /\ ready[1][1] = "load"
    /\ Moves(ready, ready', 1, {<<"wake", t, o>> : t \in ToSet(waiters[k])})
    /\ Len(ready') = Len(ready) - 1 + Len(waiters[k])
    /\ \A i \in DOMAIN waiters[k] : ready'[Len(ready) - 1 + i] = <<"wake", waiters[k][i], o>>
    /\ waiters'[k] = <<>>
    /\ \A l \in Keys : l # k => waiters'[l] = waiters[l]

(* When no handler of e waits for it, nothing changes for e.               *)
LEMMA WakesNone ==
    ASSUME TypeOK, NEW e \in Events, NEW k \in Keys, NEW o \in Over, WakesAll(k, o),
           dispatched'[e] = dispatched[e], Past(e)' = Past(e),
           \A h \in Handlers : ~Waits(<<"handler", e, h>>, k)
    PROVE  SameRuns(e, 1, {<<"wake", t, o>> : t \in ToSet(waiters[k])})
<1>. DEFINE W == {<<"wake", t, o>> : t \in ToSet(waiters[k])}
<1>1. \A x \in W : /\ x[1] = "wake"
                   /\ \A h \in Handlers, u \in Over : x # <<"wake", <<"handler", e, h>>, u>>
  BY DEF Waits
<1>2. \A l \in Keys, h \in Handlers :
         {q \in DOMAIN waiters'[l] : waiters'[l][q] = <<"handler", e, h>>}
             = {q \in DOMAIN waiters[l] : waiters[l][q] = <<"handler", e, h>>}
  <2>. TAKE l \in Keys, h \in Handlers
  <2>1. CASE l = k
    <3>1. DOMAIN waiters'[l] = {}
      BY <2>1 DEF WakesAll
    <3>2. \A q \in DOMAIN waiters[k] : waiters[k][q] # <<"handler", e, h>>
      BY DEF Waits, ToSet
    <3>. QED BY <2>1, <3>1, <3>2
  <2>2. CASE l # k
    BY <2>2 DEF WakesAll
  <2>. QED BY <2>1, <2>2
<1>3. ready[1][1] = "load"
  BY DEF WakesAll
<1>. QED BY <1>1, <1>2, <1>3 DEF SameRuns, WakesAll

(* When some do, all that have run are called or woken in their order.     *)
LEMMA WakesSome ==
    ASSUME TypeOK, NEW e \in Events, NEW k \in Keys, NEW o \in Over, WakesAll(k, o),
           dispatched'[e] = dispatched[e], Past(e)' = Past(e),
           NEW h \in Handlers, Waits(<<"handler", e, h>>, k),
           NEW b, InBlock(e, b), InSequence(e)
    PROVE  InSequence(e)' /\ \E c \in Int : InBlock(e, c)'
<1>. DEFINE hs == dispatched[e]
            n == Len(hs)
            Task(g) == <<"handler", e, g>>
            m == Len(ready) - 1
<1>1. /\ n \in Nat /\ DOMAIN hs = 1 .. n /\ dispatched'[e] = hs
      /\ \A i \in DOMAIN hs : hs[i] \in Handlers
  BY LenProperties DEF TypeOK
<1>2. /\ Len(ready) \in Nat /\ m \in Nat /\ 1 \in DOMAIN ready /\ DOMAIN ready = 1 .. m + 1
      /\ Len(waiters[k]) \in Nat /\ DOMAIN waiters[k] = 1 .. Len(waiters[k])
      /\ Len(ready') = m + Len(waiters[k]) /\ DOMAIN ready' = 1 .. m + Len(waiters[k])
  <2>1. /\ Len(ready) \in Nat \ {0} /\ DOMAIN ready = 1 .. Len(ready)
        /\ DOMAIN ready' = 1 .. Len(ready')
    BY EmptySeq, LenProperties DEF Moves, WakesAll
  <2>2. Len(waiters[k]) \in Nat /\ DOMAIN waiters[k] = 1 .. Len(waiters[k])
    BY LenProperties DEF TypeOK
  <2>. QED BY <2>1, <2>2 DEF WakesAll
<1>3. /\ \A q \in 1 .. m : ready'[q] = ready[q + 1]
      /\ \A i \in DOMAIN waiters[k] : ready'[m + i] = <<"wake", waiters[k][i], o>>
  <2>1. \A q \in DOMAIN ready' : q <= m => ready'[q] = ready[q + 1]
    BY DEF WakesAll, Moves
  <2>2. \A q \in 1 .. m : q \in DOMAIN ready' /\ q <= m
    BY <1>2
  <2>3. \A i \in DOMAIN waiters[k] : ready'[m + i] = <<"wake", waiters[k][i], o>>
    BY DEF WakesAll
  <2>. QED BY <2>1, <2>2, <2>3
<1>. HIDE DEF m
<1>4. ASSUME NEW q \in DOMAIN ready'
      PROVE  \/ q \in 1 .. m /\ q + 1 \in DOMAIN ready /\ ready'[q] = ready[q + 1]
             \/ q - m \in DOMAIN waiters[k] /\ ready'[q] = <<"wake", waiters[k][q - m], o>>
  <2>1. CASE q <= m
    BY <1>2, <1>3, <2>1
  <2>2. CASE ~(q <= m)
    <3>1. q - m \in DOMAIN waiters[k] /\ m + (q - m) = q
      BY <1>2, <2>2
    <3>. QED BY <1>3, <3>1
  <2>. QED BY <2>1, <2>2
<1>5. \A q \in DOMAIN ready, g \in Handlers, u \in Over :
        ready[q] = <<"wake", Task(g), u>>
            => q - 1 \in 1 .. m /\ ready'[q - 1] = <<"wake", Task(g), u>>
  <2>. SUFFICES ASSUME NEW q \in DOMAIN ready, NEW g \in Handlers, NEW u \in Over,
                       ready[q] = <<"wake", Task(g), u>>
       PROVE  q - 1 \in 1 .. m /\ ready'[q - 1] = <<"wake", Task(g), u>>
    OBVIOUS
  <2>1. q # 1
    BY DEF WakesAll
  <2>2. q - 1 \in 1 .. m /\ (q - 1) + 1 = q
    BY <1>2, <2>1
  <2>. QED BY <1>3, <2>2
<1>6. \A g \in Handlers : Woken(Task(g)) => \E u \in Over :
          <<"wake", Task(g), u>> \in ToSet(ready')
  <2>1. 1 .. m \subseteq DOMAIN ready'
    BY <1>2
  <2>. QED BY <1>5, <2>1 DEF Woken, ToSet
<1>7. \A g \in Handlers : Waits(Task(g), k) => <<"wake", Task(g), o>> \in ToSet(ready')
  <2>. SUFFICES ASSUME NEW g \in Handlers, NEW i \in DOMAIN waiters[k], waiters[k][i] = Task(g)
       PROVE  <<"wake", Task(g), o>> \in ToSet(ready')
    BY DEF Waits, ToSet
  <2>1. m + i \in DOMAIN ready'
    BY <1>2
  <2>2. ready'[m + i] = <<"wake", Task(g), o>>
    BY <1>3
  <2>. QED BY <2>1, <2>2 DEF ToSet
<1>8. \A g \in Handlers : (\E u \in Over : <<"wake", Task(g), u>> \in ToSet(ready'))
                            => Woken(Task(g)) \/ Waits(Task(g), k)
  <2>. SUFFICES ASSUME NEW g \in Handlers, NEW u \in Over, NEW q \in DOMAIN ready',
                       ready'[q] = <<"wake", Task(g), u>>
       PROVE  Woken(Task(g)) \/ Waits(Task(g), k)
    BY DEF ToSet
  <2>1. CASE q + 1 \in DOMAIN ready /\ ready'[q] = ready[q + 1]
    BY <2>1 DEF Woken, ToSet
  <2>2. CASE q - m \in DOMAIN waiters[k] /\ ready'[q] = <<"wake", waiters[k][q - m], o>>
    BY <2>2 DEF Waits, ToSet
  <2>. QED BY <1>4, <2>1, <2>2
<1>9. \A l \in Keys : l # k => waiters'[l] = waiters[l]
  BY DEF WakesAll
<1>10. \A t : t \notin ToSet(waiters'[k])
  BY DEF WakesAll, ToSet
<1>11. b \in Int /\ b = -n
  <2>0. b \in Int /\ b >= -n /\ b + n <= Len(ready)
    BY <1>1, <1>2 DEF InBlock
  <2>1. PICK i \in DOMAIN hs : b + i < 1
    BY DEF InBlock, HaveRun
  <2>2. ASSUME b + n >= 1 PROVE FALSE
    <3>1. 1 - b \in DOMAIN hs /\ b + (1 - b) = 1
      BY <1>1, <2>0, <2>1, <2>2
    <3>2. \A x \in DOMAIN hs : b + x >= 1 => ready[b + x] = HandlerTask(e, x)
      BY DEF InBlock, Queued
    <3>3. ready[1] = HandlerTask(e, 1 - b)
      BY <3>1, <3>2
    <3>. QED BY <3>3 DEF HandlerTask, WakesAll
  <2>. QED BY <1>1, <2>0, <2>2
<1>12. InSequence(e)'
  <2>. SUFFICES ASSUME NEW i \in DOMAIN hs, NEW j \in DOMAIN hs, i < j PROVE Precedes(e, i, j)'
    BY <1>1 DEF InSequence
  <2>0. /\ hs[j] \in Past(e) => hs[i] \in Past(e)
        /\ \A q \in DOMAIN ready, u \in Over :
             ready[q] = <<"wake", Task(hs[j]), u>>
               => hs[i] \in Past(e) \/ \E p \in 1 .. q - 1, v \in Over :
                   ready[p] = <<"wake", Task(hs[i]), v>>
        /\ \A l \in Keys : \A q \in DOMAIN waiters[l] :
             waiters[l][q] = Task(hs[j])
               => hs[i] \in Past(e) \/ Woken(Task(hs[i])) \/ \E p \in 1 .. q - 1 :
                   waiters[l][p] = Task(hs[i])
    BY DEF InSequence, Precedes, WokenFirst, WaitsFirst, IsPast, HandlerTask
  <2>1. ASSUME NEW q \in DOMAIN ready', NEW u \in Over, ready'[q] = <<"wake", Task(hs[j]), u>>,
               hs[i] \notin Past(e)
        PROVE  \E p \in 1 .. q - 1, v \in Over : ready'[p] = <<"wake", Task(hs[i]), v>>
    <3>1. CASE q \in 1 .. m /\ q + 1 \in DOMAIN ready /\ ready'[q] = ready[q + 1]
      <4>1. PICK p \in 1 .. (q + 1) - 1, v \in Over : ready[p] = <<"wake", Task(hs[i]), v>>
        BY <2>0, <2>1, <3>1
      <4>2. p \in DOMAIN ready
        BY <1>2, <3>1
      <4>3. p - 1 \in 1 .. m /\ ready'[p - 1] = <<"wake", Task(hs[i]), v>>
        BY <1>1, <1>5, <4>1, <4>2
      <4>4. p - 1 \in 1 .. q - 1
        BY <1>2, <3>1, <4>3
      <4>. QED BY <4>3, <4>4
    <3>2. CASE q - m \in DOMAIN waiters[k] /\ ready'[q] = <<"wake", waiters[k][q - m], o>>
      <4>1. waiters[k][q - m] = Task(hs[j])
        BY <2>1, <3>2
      <4>2. CASE Woken(Task(hs[i]))
        <5>1. PICK v \in Over, p \in DOMAIN ready : ready[p] = <<"wake", Task(hs[i]), v>>
          BY <4>2 DEF Woken, ToSet
        <5>2. p - 1 \in 1 .. m /\ ready'[p - 1] = <<"wake", Task(hs[i]), v>>
          BY <1>1, <1>5, <5>1
        <5>3. p - 1 \in 1 .. q - 1
          BY <1>2, <3>2, <5>2
        <5>. QED BY <5>2, <5>3
      <4>3. CASE ~Woken(Task(hs[i]))
        <5>1. PICK p \in 1 .. (q - m) - 1 : waiters[k][p] = Task(hs[i])
          BY <2>0, <2>1, <3>2, <4>1, <4>3
        <5>2. p \in DOMAIN waiters[k] /\ m + p \in 1 .. q - 1
          BY <1>2, <3>2, SMTT(30)
        <5>3. ready'[m + p] = <<"wake", Task(hs[i]), o>>
          BY <1>3, <5>1, <5>2
        <5>. QED BY <5>2, <5>3
      <4>. QED BY <4>2, <4>3
    <3>. QED BY <1>4, <3>1, <3>2
  <2>2. \A q \in DOMAIN ready', u \in Over :
          ready'[q] = <<"wake", Task(hs[j]), u>>
            => hs[i] \in Past(e)' \/ \E p \in 1 .. q - 1, v \in Over :
                ready'[p] = <<"wake", Task(hs[i]), v>>
    BY <2>1
  <2>3. \A l \in Keys : \A q \in DOMAIN waiters'[l] :
          waiters'[l][q] = Task(hs[j])
            => \/ hs[i] \in Past(e)' \/ (\E u \in Over : <<"wake", Task(hs[i]), u>> \in ToSet(ready'))
               \/ \E p \in 1 .. q - 1 : waiters'[l][p] = Task(hs[i])
    <3>. TAKE l \in Keys
    <3>1. CASE l = k
      BY <1>10, <3>1 DEF ToSet
    <3>2. CASE l # k
      <4>1. waiters'[l] = waiters[l]
        BY <1>9, <3>2
      <4>2. Woken(Task(hs[i])) => \E u \in Over : <<"wake", Task(hs[i]), u>> \in ToSet(ready')
        BY <1>1, <1>6
      <4>3. \A q \in DOMAIN waiters[l] :
              waiters[l][q] = Task(hs[j])
                => hs[i] \in Past(e) \/ Woken(Task(hs[i])) \/ \E p \in 1 .. q - 1 :
                    waiters[l][p] = Task(hs[i])
        BY <2>0
      <4>. QED BY <4>1, <4>2, <4>3
    <3>. QED BY <3>1, <3>2
  <2>4. WokenFirst(e, i, j)'
    BY <1>1, <2>2 DEF WokenFirst, IsPast, HandlerTask
  <2>5. WaitsFirst(e, i, j)'
    BY <1>1, <2>3, WaitsFirstAfter
  <2>. QED BY <1>1, <2>0, <2>4, <2>5 DEF Precedes, IsPast
<1>13. Queued(e, b)'
  <2>. DEFINE d == 1
              S == {<<"wake", t, o>> : t \in ToSet(waiters[k])}
  <2>1. b <= Len(ready) - n
    BY <1>1, <1>2 DEF InBlock
  <2>2. Shifts(e, b, b, d)
    BY <1>1, <1>2, <1>11, <2>1 DEF Shifts
  <2>3. Moves(ready, ready', d, S) /\ NoneOf(e, S) /\ Queued(e, b) /\ b \in Int
    BY <1>11 DEF InBlock, NoneOf, WakesAll
  <2>. HIDE DEF d, S
  <2>. QED BY <1>1, <2>2, <2>3, QueuedSame
<1>14. HaveRun(e, b)'
  <2>1. \A i \in DOMAIN hs :
          b + i < 1 => \/ hs[i] \in Past(e)' \/ (\E u \in Over : <<"wake", Task(hs[i]), u>> \in ToSet(ready'))
                       \/ \E l \in Keys : Task(hs[i]) \in ToSet(waiters'[l])
    <3>1. \A i \in DOMAIN hs : b + i < 1 =>
             hs[i] \in Past(e) \/ Woken(Task(hs[i])) \/ \E l \in Keys : Waits(Task(hs[i]), l)
      BY DEF InBlock, HaveRun, IsPast, HandlerTask
    <3>2. \A g \in Handlers, l \in Keys : Waits(Task(g), l) =>
            (\E u \in Over : <<"wake", Task(g), u>> \in ToSet(ready')) \/ Task(g) \in ToSet(waiters'[l])
      BY <1>7, <1>9 DEF Waits
    <3>. QED BY <1>1, <1>6, <3>1, <3>2
  <2>2. \A g \in Handlers :
          g \in Past(e)' \/ (\E u \in Over : <<"wake", Task(g), u>> \in ToSet(ready'))
          \/ (\E l \in Keys : Task(g) \in ToSet(waiters'[l]))
            => \E i \in DOMAIN hs : b + i < 1 /\ g = hs[i]
    <3>1. \A g \in Handlers :
            g \in Past(e) \/ Woken(Task(g)) \/ (\E l \in Keys : Waits(Task(g), l))
              => \E i \in DOMAIN hs : b + i < 1 /\ g = hs[i]
      BY DEF InBlock, HaveRun
    <3>2. \A g \in Handlers, l \in Keys : Task(g) \in ToSet(waiters'[l]) => Waits(Task(g), l)
      BY <1>9, <1>10 DEF Waits
    <3>. QED BY <1>8, <3>1, <3>2
  <2>. QED BY <1>1, <2>1, <2>2 DEF HaveRun, IsPast, HandlerTask, Woken, Waits
<1>15. BlockRuns(e, b)'
  BY <1>1, <1>11 DEF BlockRuns
<1>16. b \in -n .. Len(ready') - n
  BY <1>1, <1>2, <1>11
<1>. QED BY <1>1, <1>11, <1>12, <1>13, <1>14, <1>15, <1>16 DEF InBlock

(* The dispatch of an activity queues its block behind what is ready. *)
LEMMA Dispatched ==
    ASSUME TypeOK, TypeOK', NEW e \in Events, NEW b, InBlock(e, b), dispatched[e] = <<>>,
           NEW m \in Nat, Len(ready') = m + Len(dispatched'[e]),
           \A q \in 1 .. m : ready'[q] \in ToSet(ready),
           \A i \in DOMAIN dispatched'[e] : ready'[m + i] = <<"handler", e, dispatched'[e][i]>>,
           waiters' = waiters, Past(e)' = Past(e)
    PROVE  InSequence(e)' /\ \E c \in Int : InBlock(e, c)'
<1>. DEFINE n == Len(dispatched'[e])
            Task(g) == <<"handler", e, g>>
<1>1. PICK hs \in Seq(Handlers) : hs = dispatched'[e]
  BY DEF TypeOK
<1>2. /\ Len(hs) \in Nat /\ DOMAIN hs = 1 .. Len(hs) /\ \A i \in DOMAIN hs : hs[i] \in Handlers
      /\ DOMAIN ready' = 1 .. m + Len(hs)
      /\ \A i \in DOMAIN hs : ready'[m + i] = Task(hs[i])
  BY <1>1, LenProperties DEF TypeOK
<1>3. \A h \in Handlers : /\ h \notin Past(e) /\ ~Woken(Task(h))
                          /\ \A k \in Keys : ~Waits(Task(h), k)
  BY DEF InBlock, HaveRun
<1>4. \A x \in ToSet(ready) : ~(x[1] = "handler" /\ x[2] = e)
  BY DEF InBlock, Queued, ToSet
<1>5. ASSUME NEW q \in DOMAIN ready'
      PROVE  \/ q \in 1 .. m /\ ready'[q] \in ToSet(ready)
             \/ q - m \in DOMAIN hs /\ ready'[q] = Task(hs[q - m])
  <2>1. CASE q <= m
    BY <1>2, <2>1
  <2>2. CASE ~(q <= m)
    <3>1. q - m \in DOMAIN hs /\ m + (q - m) = q
      BY <1>2, <2>2
    <3>. QED BY <1>2, <3>1
  <2>. QED BY <2>1, <2>2
<1>6. \A q \in DOMAIN ready', h \in Handlers, o \in Over : ready'[q] # <<"wake", Task(h), o>>
  <2>. SUFFICES ASSUME NEW q \in DOMAIN ready', NEW h \in Handlers, NEW o \in Over,
                       ready'[q] = <<"wake", Task(h), o>>
       PROVE  FALSE
    OBVIOUS
  <2>1. ready'[q] \notin ToSet(ready)
    BY <1>3 DEF Woken
  <2>2. CASE q - m \in DOMAIN hs /\ ready'[q] = Task(hs[q - m])
    BY <2>2
  <2>. QED BY <1>5, <2>1, <2>2
<1>7. \A h \in Handlers, k \in Keys : Task(h) \notin ToSet(waiters'[k])
  BY <1>3 DEF Waits
<1>8. InSequence(e)'
  <2>. SUFFICES ASSUME NEW i \in DOMAIN hs, NEW j \in DOMAIN hs, i < j PROVE Precedes(e, i, j)'
    BY <1>1 DEF InSequence
  <2>1. hs[j] \notin Past(e)'
    BY <1>2, <1>3
  <2>2. WokenFirst(e, i, j)'
    BY <1>1, <1>2, <1>6 DEF WokenFirst, HandlerTask
  <2>3. WaitsFirst(e, i, j)'
    BY <1>1, <1>2, <1>7 DEF WaitsFirst, HandlerTask, ToSet
  <2>. QED BY <1>1, <2>1, <2>2, <2>3 DEF Precedes, IsPast
<1>9. Queued(e, m)'
  <2>1. ASSUME NEW q \in DOMAIN ready', ready'[q][1] = "handler", ready'[q][2] = e
        PROVE  q - m \in DOMAIN hs
    BY <1>4, <1>5, <2>1
  <2>2. ASSUME NEW q \in DOMAIN ready', ready'[q][1] = "event"
        PROVE  q <= m
    BY <1>5, <2>2
  <2>3. \A i \in DOMAIN hs : ready'[m + i] = Task(hs[i])
    BY <1>2
  <2>. QED BY <1>1, <2>1, <2>2, <2>3 DEF Queued, HandlerTask
<1>10. HaveRun(e, m)'
  <2>1. \A i \in DOMAIN hs : ~(m + i < 1)
    BY <1>2
  <2>2. \A h \in Handlers : /\ h \notin Past(e)'
                            /\ ~(\E o \in Over : <<"wake", Task(h), o>> \in ToSet(ready'))
                            /\ ~(\E k \in Keys : Task(h) \in ToSet(waiters'[k]))
    BY <1>3, <1>6, <1>7 DEF ToSet
  <2>. QED BY <1>1, <2>1, <2>2 DEF HaveRun, Woken, Waits
<1>11. BlockRuns(e, m)'
  BY <1>6, <1>7 DEF BlockRuns, Woken, Waits, ToSet
<1>12. m \in -Len(hs) .. Len(ready') - Len(hs)
  BY <1>1, <1>2
<1>. QED BY <1>1, <1>8, <1>9, <1>10, <1>11, <1>12 DEF InBlock

-----------------------------------------------------------------------------
(* The other parts of the invariant.                                       *)

(* What is in the queue was there before, or has been appended.            *)
LEMMA MovesRange ==
    ASSUME NEW r, NEW s, NEW d, NEW S, Moves(r, s, d, S)
    PROVE  \A x \in ToSet(s) : x \in ToSet(r) \/ x \in S
<1>1. /\ d \in {0, 1} /\ Len(r) \in Nat /\ Len(s) \in Nat /\ DOMAIN r = 1 .. Len(r) /\ DOMAIN s = 1 .. Len(s)
      /\ \A q \in DOMAIN s : IF q <= Len(r) - d THEN s[q] = r[q + d] ELSE s[q] \in S
  BY LenProperties DEF Moves
<1>. SUFFICES ASSUME NEW q \in DOMAIN s PROVE s[q] \in ToSet(r) \/ s[q] \in S
  BY DEF ToSet
<1>2. CASE q <= Len(r) - d
  <2>1. q + d \in DOMAIN r
    BY <1>1, <1>2
  <2>. QED BY <1>1, <1>2, <2>1 DEF ToSet
<1>3. CASE ~(q <= Len(r) - d)
  BY <1>1, <1>3
<1>. QED BY <1>2, <1>3

(* The head of the queue.                                                  *)
LEMMA HeadIs ==
    ASSUME TypeOK, ready # <<>>
    PROVE  Head(ready) = ready[1] /\ ready[1] \in Entries /\ ready[1] \in ToSet(ready) /\ 1 \in DOMAIN ready
<1>1. Len(ready) \in Nat \ {0} /\ DOMAIN ready = 1 .. Len(ready) /\ ready \in Seq(Entries)
  BY EmptySeq, LenProperties DEF TypeOK
<1>. QED BY <1>1, ElementOfSeq DEF ToSet

(* The entries of each kind. *)
LEMMA EntryKinds ==
    ASSUME NEW x \in Entries
    PROVE  /\ x[1] \in {"event", "handler", "load", "wake"}
           /\ x[1] = "event" => x[2] \in Events /\ x[3] \in RawHandlers \cup {Internal} /\ x = <<"event", x[2], x[3]>>
           /\ x[1] = "handler" => /\ x[2] \in Events /\ x[3] \in Handlers /\ x = <<"handler", x[2], x[3]>>
                                  /\ x \in Tasks
           /\ x[1] = "load" => x[2] \in Keys /\ x[3] \in {"start", "due"} /\ x = <<"load", x[2], x[3]>>
           /\ x[1] = "wake" => x[2] \in Tasks /\ x[3] \in Over /\ x = <<"wake", x[2], x[3]>>
BY DEF Entries, Tasks, HandlerTasks

(* The tasks of each kind.                                                 *)
LEMMA TaskKinds ==
    ASSUME NEW t \in Tasks
    PROVE  /\ t[1] \in {"handler", "read"} /\ t[2] \in Events
           /\ t[1] = "handler" => t[3] \in Handlers /\ t = <<"handler", t[2], t[3]>>
           /\ t[1] = "read" => t = <<"read", t[2]>>
BY DEF Tasks, HandlerTasks

(* The entries that the actions append.                                    *)
LEMMA EntryMembers ==
    /\ \A e \in Events, h \in RawHandlers \cup {Internal} : <<"event", e, h>> \in Entries
    /\ \A e \in Events, h \in Handlers :
           <<"handler", e, h>> \in Entries /\ <<"handler", e, h>> \in Tasks
    /\ \A e \in Events : <<"read", e>> \in Tasks
    /\ \A k \in Keys, s \in {"start", "due"} : <<"load", k, s>> \in Entries
    /\ \A t \in Tasks, o \in Over : <<"wake", t, o>> \in Entries
BY DEF Entries, Tasks, HandlerTasks

(* The key of an activity still comes before its handlers. *)
LEMMA StillFirst ==
    ASSUME TypeOK, Arrived, KeyComesFirst, NEW d, NEW S, Moves(ready, ready', d, S),
           cacheEnabled' = cacheEnabled,
           cacheEnabled => \A k \in cached \cup answered \cup lost : k \in cached' \cup answered' \cup lost',
           \A e \in Events : frame[e] # None => frame'[e] = frame[e],
           \A x \in S : x[1] # "handler"
    PROVE  KeyComesFirst'
<1>1. /\ d \in {0, 1} /\ d <= Len(ready) /\ Len(ready) - d <= Len(ready')
      /\ Len(ready) \in Nat /\ Len(ready') \in Nat
      /\ DOMAIN ready = 1 .. Len(ready) /\ DOMAIN ready' = 1 .. Len(ready')
      /\ \A q \in DOMAIN ready' : IF q <= Len(ready) - d THEN ready'[q] = ready[q + d]
             ELSE ready'[q] \in S
  BY LenProperties DEF Moves
<1>. SUFFICES ASSUME cacheEnabled, NEW i \in DOMAIN ready', ready'[i][1] = "handler",
                     BringsKey(frame'[ready'[i][2]])
     PROVE  frame'[ready'[i][2]].key \in cached' \cup answered' \cup lost'
  BY DEF KeyComesFirst
<1>2. i <= Len(ready) - d /\ i + d \in DOMAIN ready /\ ready'[i] = ready[i + d]
  BY <1>1
<1>3. ready[i + d] \in Entries
  BY <1>2, LenProperties DEF TypeOK
<1>4. ready'[i][2] \in Events /\ frame'[ready'[i][2]] = frame[ready'[i][2]] /\ frame[ready'[i][2]] # None
  BY <1>2, <1>3, EntryKinds DEF Arrived
<1>5. frame[ready'[i][2]].key \in cached \cup answered \cup lost
  BY <1>2, <1>4, ZenonT(60) DEF KeyComesFirst
<1>. QED BY <1>4, <1>5

(* No event is seen again. *)
LEMMA StillOnce ==
    ASSUME TypeOK, SeenOnce, NEW d, NEW S, Moves(ready, ready', d, S),
           \A e \in Events : dispatched'[e] = dispatched[e] \/ (d = 1 /\ ready[1] = <<"event", e, Internal>>),
           \A x \in S : ~(x[1] = "event" /\ x[3] = Internal)
    PROVE  SeenOnce'
<1>1. /\ d \in {0, 1} /\ d <= Len(ready) /\ Len(ready) - d <= Len(ready')
      /\ Len(ready) \in Nat /\ Len(ready') \in Nat
      /\ DOMAIN ready = 1 .. Len(ready) /\ DOMAIN ready' = 1 .. Len(ready')
      /\ \A q \in DOMAIN ready' : IF q <= Len(ready) - d THEN ready'[q] = ready[q + d]
             ELSE ready'[q] \in S
  BY LenProperties DEF Moves
<1>. SUFFICES ASSUME NEW i \in DOMAIN ready', NEW j \in DOMAIN ready', ready'[i][1] = "event",
                     ready'[i][3] = Internal
     PROVE  dispatched'[ready'[i][2]] = <<>> /\ (ready'[j] = ready'[i] => j = i)
  BY DEF SeenOnce
<1>2. i <= Len(ready) - d /\ i + d \in DOMAIN ready /\ ready'[i] = ready[i + d]
  BY <1>1
<1>3. ready[i + d] \in Entries
  BY <1>2, LenProperties DEF TypeOK
<1>4. dispatched[ready'[i][2]] = <<>> /\ \A l \in DOMAIN ready : ready[l] = ready'[i] => l = i + d
  BY <1>2 DEF SeenOnce
<1>5. dispatched'[ready'[i][2]] = dispatched[ready'[i][2]]
  <2>1. ready'[i] = <<"event", ready'[i][2], Internal>> /\ ready'[i][2] \in Events
    BY <1>2, <1>3, EntryKinds
  <2>2. d = 1 => ready[1] # ready'[i]
    BY <1>1, <1>2, <1>4
  <2>. QED BY <2>1, <2>2
<1>6. ASSUME ready'[j] = ready'[i] PROVE j = i
  <2>1. j <= Len(ready) - d /\ j + d \in DOMAIN ready /\ ready'[j] = ready[j + d]
    BY <1>1, <1>6
  <2>. QED BY <1>1, <1>4, <1>6, <2>1
<1>. QED BY <1>4, <1>5, <1>6

(* Queue, in the terms of the actions.                                     *)
LEMMA QueueIs ==
    /\ \A r : Queue(r, 0) = r
    /\ \A r : Queue(r, 1) = Tail(r)
BY DEF Queue

(* What GetKey does, whichever of its four cases applies.                  *)
LEMMA AsksForKey ==
    ASSUME TypeOK, NEW task \in Tasks, NEW k \in Keys, NEW d \in {0, 1}, d = 1 => ready # <<>>,
           GetKey(task, k, Queue(ready, d))
    PROVE  /\ Moves(ready, ready', d, {<<"load", k, "start">>})
           /\ retrieval' \in [Keys -> {"none"} \cup Pending \cup Over]
           /\ waiters' \in [Keys -> Seq(Tasks)]
           /\ \A l \in Keys : waiters'[l] # <<>> => retrieval'[l] \in Pending
           /\ \A l \in Keys : retrieval'[l] = "ok" => retrieval[l] = "ok"
           /\ \A l \in Keys : l # k \/ InCache(k) => retrieval'[l] = retrieval[l]
           /\ \A l \in Keys : retrieval[l] \in {"running", "due"} => retrieval'[l] = retrieval[l]
           /\ IF Immediate(k) = "wait"
              THEN ~InCache(k) /\ waiters' = [waiters EXCEPT ![k] = Append(waiters[k], task)]
              ELSE waiters' = waiters /\ Immediate(k) \in Over
           /\ Immediate(k) = "ok" => InCache(k) \/ retrieval[k] = "ok"
<1>. USE DEF Pending, Over
<1>0. /\ ready \in Seq(Entries) /\ retrieval \in [Keys -> {"none"} \cup Pending \cup Over]
      /\ waiters \in [Keys -> Seq(Tasks)]
      /\ \A l \in Keys : waiters[l] # <<>> => retrieval[l] \in Pending
  BY DEF TypeOK
<1>1. CASE InCache(k) \/ retrieval[k] \in Over
  <2>1. ready' = Queue(ready, d) /\ waiters' = waiters
        /\ retrieval' \in {retrieval, [retrieval EXCEPT ![k] = "none"]} /\ (InCache(k) => retrieval' = retrieval)
        /\ (~InCache(k) => retrieval[k] \in Over /\ retrieval' = [retrieval EXCEPT ![k] = "none"])
    BY <1>1 DEF GetKey
  <2>2. Immediate(k) # "wait" /\ Immediate(k) \in Over /\ (Immediate(k) = "ok" => InCache(k) \/ retrieval[k] = "ok")
    BY <1>1 DEF Immediate
  <2>3. Moves(ready, ready', d, {<<"load", k, "start">>})
    <3>1. Moves(ready, Queue(ready, d), d, {})
      BY <1>0, Kept
    <3>. QED BY <2>1, <3>1 DEF Moves
  <2>4. \A l \in Keys : waiters'[l] # <<>> => retrieval'[l] \in Pending
    BY <1>0, <2>1
  <2>. QED BY <1>0, <2>1, <2>2, <2>3, <2>4
<1>2. CASE ~InCache(k) /\ retrieval[k] \in Pending
  <2>1. ready' = Queue(ready, d) /\ retrieval' = retrieval /\ waiters' = [waiters EXCEPT ![k] = Append(waiters[k], task)]
    BY <1>2 DEF GetKey
  <2>2. Immediate(k) = "wait"
    BY <1>2 DEF Immediate
  <2>3. Moves(ready, ready', d, {<<"load", k, "start">>})
    <3>1. Moves(ready, Queue(ready, d), d, {})
      BY <1>0, Kept
    <3>. QED BY <2>1, <3>1 DEF Moves
  <2>4. Append(waiters[k], task) \in Seq(Tasks)
    BY <1>0, AppendProperties
  <2>5. waiters' \in [Keys -> Seq(Tasks)]
    BY <1>0, <2>1, <2>4
  <2>6. \A l \in Keys : waiters'[l] # <<>> => retrieval'[l] \in Pending
    BY <1>0, <1>2, <2>1
  <2>. QED BY <1>0, <1>2, <2>1, <2>2, <2>3, <2>5, <2>6
<1>3. CASE ~InCache(k) /\ retrieval[k] = "none"
  <2>1. /\ ready' = Append(Queue(ready, d), <<"load", k, "start">>) /\ retrieval' = [retrieval EXCEPT ![k] = "created"]
        /\ waiters' = [waiters EXCEPT ![k] = <<task>>]
    BY <1>3 DEF GetKey
  <2>2. Immediate(k) = "wait"
    BY <1>3 DEF Immediate
  <2>3. Moves(ready, ready', d, {<<"load", k, "start">>})
    BY <1>0, <2>1, Appended, EntryMembers
  <2>4. waiters[k] = <<>>
    BY <1>0, <1>3
  <2>5. Append(waiters[k], task) = <<task>> /\ <<task>> \in Seq(Tasks)
    BY <2>4
  <2>6. \A l \in Keys : waiters'[l] # <<>> => retrieval'[l] \in Pending
    BY <1>0, <1>3, <2>1
  <2>7. waiters' = [waiters EXCEPT ![k] = Append(waiters[k], task)]
    BY <2>1, <2>5
  <2>8. waiters' \in [Keys -> Seq(Tasks)]
    BY <1>0, <2>1, <2>5
  <2>. QED BY <1>0, <1>3, <2>1, <2>2, <2>3, <2>6, <2>7, <2>8
<1>. QED BY <1>0, <1>1, <1>2, <1>3

(* A task that is appended to those that wait for k waits for k.           *)
LEMMA WaitersAdded ==
    ASSUME TypeOK, NEW task \in Tasks, NEW k \in Keys,
           waiters' = [waiters EXCEPT ![k] = Append(waiters[k], task)]
    PROVE  /\ \A t \in Tasks, l \in Keys :
                  t \in ToSet(waiters'[l]) <=> Waits(t, l) \/ (t = task /\ l = k)
           /\ \A t \in Tasks, l \in Keys :
                t # task => {q \in DOMAIN waiters'[l] : waiters'[l][q] = t} = {q \in DOMAIN waiters[l] : waiters[l][q] = t}
<1>1. /\ Len(waiters[k]) \in Nat /\ DOMAIN waiters[k] = 1 .. Len(waiters[k])
      /\ DOMAIN waiters'[k] = 1 .. Len(waiters[k]) + 1
      /\ \A q \in 1 .. Len(waiters[k]) : waiters'[k][q] = waiters[k][q]
      /\ waiters'[k][Len(waiters[k]) + 1] = task
      /\ \A l \in Keys : l # k => waiters'[l] = waiters[l]
  <2>1. waiters[k] \in Seq(Tasks) /\ waiters \in [Keys -> Seq(Tasks)]
    BY DEF TypeOK
  <2>2. waiters'[k] = Append(waiters[k], task) /\ \A l \in Keys : l # k
            => waiters'[l] = waiters[l]
    BY <2>1
  <2>. QED BY <2>1, <2>2, AppendProperties, LenProperties
<1>2. \A q \in DOMAIN waiters'[k] : q \in DOMAIN waiters[k] \/ q = Len(waiters[k]) + 1
  BY <1>1
<1>3. Len(waiters[k]) + 1 \in DOMAIN waiters'[k] /\ DOMAIN waiters[k] \subseteq DOMAIN waiters'[k]
  BY <1>1
<1>4. \A t, q : t # task => (q \in DOMAIN waiters'[k] /\ waiters'[k][q] = t <=> q \in DOMAIN waiters[k] /\ waiters[k][q] = t)
  BY <1>1, <1>2, <1>3
<1>5. ASSUME NEW t \in Tasks, NEW l \in Keys
      PROVE  t \in ToSet(waiters'[l]) <=> Waits(t, l) \/ (t = task /\ l = k)
  <2>1. CASE l # k
    BY <1>1, <2>1 DEF Waits
  <2>2. CASE l = k /\ t # task
    BY <1>4, <2>2 DEF Waits, ToSet
  <2>3. CASE l = k /\ t = task
    BY <1>1, <1>3, <2>3 DEF ToSet
  <2>. QED BY <2>1, <2>2, <2>3
<1>6. ASSUME NEW t \in Tasks, NEW l \in Keys, t # task
      PROVE  {q \in DOMAIN waiters'[l] : waiters'[l][q] = t} = {q \in DOMAIN waiters[l] : waiters[l][q] = t}
  <2>1. CASE l # k
    BY <1>1, <2>1
  <2>2. CASE l = k
    BY <1>4, <1>6, <2>2
  <2>. QED BY <2>1, <2>2
<1>. QED BY <1>5, <1>6

(* The handlers of one event are in order and lie in one block.            *)
BlockHolds(e) == VerbsFirst(e) /\ InSequence(e) /\ \E b \in Int : InBlock(e, b)

(* Blocks, one event at a time.                                            *)
LEMMA BlocksHold == (Blocks => \A e \in Events : BlockHolds(e)) /\ ((\A e \in Events : BlockHolds(e)') => Blocks')
<1>1. ASSUME Blocks, NEW e \in Events PROVE BlockHolds(e)
  <2>1. PICK b \in -Len(dispatched[e]) .. Len(ready) - Len(dispatched[e]) : InBlock(e, b)
    BY <1>1 DEF Blocks, InBlock
  <2>2. b \in Int
    OBVIOUS
  <2>. QED BY <1>1, <2>1, <2>2 DEF Blocks, BlockHolds
<1>2. ASSUME \A e \in Events : BlockHolds(e)' PROVE Blocks'
  BY <1>2 DEF Blocks, BlockHolds, InBlock
<1>. QED BY <1>1, <1>2

(* A step that does not touch the block of e keeps it.                     *)
LEMMA BlockKept ==
    ASSUME TypeOK, Blocks, NEW e \in Events, NEW d, NEW S, SameRuns(e, d, S)
    PROVE  BlockHolds(e)'
<1>1. VerbsFirst(e) /\ InSequence(e) /\ \E b : InBlock(e, b)
  BY BlocksHold DEF BlockHolds
<1>2. VerbsFirst(e)'
  BY <1>1 DEF VerbsFirst, SameRuns
<1>. QED BY <1>1, <1>2, SequenceSame, BlockSame DEF BlockHolds

(* A step that touches no block keeps all of them.                         *)
LEMMA BlocksKept ==
    ASSUME TypeOK, Blocks, NEW d, NEW S, \A e \in Events : SameRuns(e, d, S)
    PROVE  Blocks'
BY BlockKept, BlocksHold

-----------------------------------------------------------------------------
(* Actions that change the tables only.                                    *)

(* What does not concern the table. *)
QueuesSafe == Arrived /\ SuccessIsCached /\ AnswersAwaited /\ KeyComesFirst /\ SeenOnce /\ Blocks

(* The tables are not read by the rest of the invariant.                   *)
LEMMA QueuesSame == ASSUME TypeOK, QueuesSafe, UNCHANGED <<ready, eventVars, kmsVars>>
    PROVE  QueuesSafe'
<1>. USE DEF QueuesSafe, eventVars, kmsVars, answerVars
<1>1. Arrived'
  BY DEF Arrived, Waits
<1>2. SuccessIsCached' /\ AnswersAwaited'
  BY DEF SuccessIsCached, AnswersAwaited
<1>3. KeyComesFirst'
  BY DEF KeyComesFirst, BringsKey
<1>4. SeenOnce'
  BY DEF SeenOnce
<1>5. Blocks'
  <2>1. Moves(ready, ready', 0, {})
    BY Kept, QueueIs DEF TypeOK
  <2>2. \A e \in Events : SameRuns(e, 0, {})
    BY <2>1 DEF SameRuns, Past
  <2>. QED BY <2>2, BlocksKept
<1>. QED BY <1>1, <1>2, <1>3, <1>4, <1>5

(* And TablesHold reads only the tables.                                   *)
LEMMA TablesSame == ASSUME TablesHold, table' = table PROVE TablesHold'
BY DEF TablesHold

(* A handler is appended to its table, which did not hold it.              *)
LEMMA OnStep == ASSUME IInv, NEW h \in UserHandlers, On(h) PROVE IInv'
<1>. DEFINE t == Topic[h]
            s == Append(table[t], h)
<1>1. /\ t \in Topics /\ table[t] \in Seq(UserHandlers \cup {Internal}) /\ h \notin ToSet(table[t])
      /\ table' = [table EXCEPT ![t] = s] /\ h # Internal
  BY TopicAssumption, NamesAssumption DEF IInv, TypeOK, On
<1>2. /\ s \in Seq(UserHandlers \cup {Internal}) /\ Len(table[t]) \in Nat
      /\ DOMAIN table[t] = 1 .. Len(table[t]) /\ DOMAIN s = 1 .. Len(table[t]) + 1
      /\ \A i \in DOMAIN table[t] : s[i] = table[t][i]
      /\ s[Len(table[t]) + 1] = h
  BY <1>1, AppendProperties, LenProperties
<1>3. TypeOK'
  BY <1>1, <1>2 DEF IInv, TypeOK, On, eventVars, kmsVars, answerVars
<1>4. TablesHold'
  <2>. SUFFICES ASSUME NEW u \in Topics
       PROVE  /\ \A i \in DOMAIN table'[u] : IF table'[u][i] = Internal THEN u \in Kinds
                     ELSE Topic[table'[u][i]] = u
              /\ \A i, j \in DOMAIN table'[u] : table'[u][i] = table'[u][j] => i = j
    BY DEF TablesHold
  <2>1. /\ \A i \in DOMAIN table[u] : IF table[u][i] = Internal THEN u \in Kinds
               ELSE Topic[table[u][i]] = u
        /\ \A i, j \in DOMAIN table[u] : table[u][i] = table[u][j] => i = j
    BY DEF IInv, TablesHold
  <2>2. CASE u # t
    <3>1. table'[u] = table[u]
      BY <1>1, <2>2 DEF IInv, TypeOK
    <3>. QED BY <2>1, <3>1
  <2>3. CASE u = t
    <3>1. table'[u] = s
      BY <1>1, <2>3 DEF IInv, TypeOK
    <3>2. \A i \in DOMAIN s : i \in DOMAIN table[t] \/ i = Len(table[t]) + 1
      BY <1>2
    <3>3. \A i \in DOMAIN table[t] : table[t][i] # h
      BY <1>1 DEF ToSet
    <3>. QED BY <1>1, <1>2, <2>1, <2>3, <3>1, <3>2, <3>3
  <2>. QED BY <2>2, <2>3
<1>. QED BY <1>3, <1>4, QueuesSame DEF IInv, On, QueuesSafe

(* One entry is removed.                                                   *)
LEMMA OffStep == ASSUME IInv, NEW h \in UserHandlers, Off(h) PROVE IInv'
<1>. DEFINE t == Topic[h]
<1>1. PICK x \in DOMAIN table[t] : table' = [table EXCEPT ![t] = RemoveAt(table[t], x)]
  BY DEF Off
<1>. DEFINE s == RemoveAt(table[t], x)
<1>2. /\ t \in Topics /\ table[t] \in Seq(UserHandlers \cup {Internal})
      /\ table \in [Topics -> Seq(UserHandlers \cup {Internal})]
  BY TopicAssumption DEF IInv, TypeOK
<1>3. /\ s \in Seq(UserHandlers \cup {Internal}) /\ Len(s) = Len(table[t]) - 1
      /\ \A j \in DOMAIN s : s[j] = table[t][IF j < x THEN j ELSE j + 1]
  BY <1>2, RemoveAtProperties
<1>4. /\ Len(table[t]) \in Nat /\ DOMAIN table[t] = 1 .. Len(table[t]) /\ Len(s) \in Nat /\ DOMAIN s = 1 .. Len(s)
  BY <1>2, <1>3, LenProperties
<1>. HIDE DEF s
<1>5. table' = [table EXCEPT ![t] = s]
  BY <1>1 DEF s
<1>6. TypeOK'
  BY <1>2, <1>3, <1>5 DEF IInv, TypeOK, Off, eventVars, kmsVars, answerVars
<1>7. TablesHold'
  <2>. SUFFICES ASSUME NEW u \in Topics
       PROVE  /\ \A i \in DOMAIN table'[u] : IF table'[u][i] = Internal THEN u \in Kinds
                     ELSE Topic[table'[u][i]] = u
              /\ \A i, j \in DOMAIN table'[u] : table'[u][i] = table'[u][j] => i = j
    BY DEF TablesHold
  <2>1. /\ \A i \in DOMAIN table[u] : IF table[u][i] = Internal THEN u \in Kinds
               ELSE Topic[table[u][i]] = u
        /\ \A i, j \in DOMAIN table[u] : table[u][i] = table[u][j] => i = j
    BY DEF IInv, TablesHold
  <2>2. CASE u # t
    <3>1. table'[u] = table[u]
      BY <1>2, <1>5, <2>2
    <3>. QED BY <2>1, <3>1
  <2>3. CASE u = t
    <3>1. table'[u] = s
      BY <1>2, <1>5, <2>3
    <3>2. \A j \in DOMAIN s : (IF j < x THEN j ELSE j + 1) \in DOMAIN table[t]
      BY <1>3, <1>4
    <3>3. \A i \in DOMAIN s : IF s[i] = Internal THEN u \in Kinds ELSE Topic[s[i]] = u
      BY <1>3, <2>1, <2>3, <3>2
    <3>4. ASSUME NEW i \in DOMAIN s, NEW j \in DOMAIN s, s[i] = s[j] PROVE i = j
      <4>1. (IF i < x THEN i ELSE i + 1) = (IF j < x THEN j ELSE j + 1)
        BY <1>3, <2>1, <2>3, <3>2, <3>4
      <4>. QED BY <1>4, <4>1
    <3>. QED BY <3>1, <3>3, <3>4
  <2>. QED BY <2>2, <2>3
<1>. QED BY <1>6, <1>7, QueuesSame DEF IInv, Off, QueuesSafe

(* All entries are removed.                                                *)
LEMMA ClearHandlersStep == ASSUME IInv, NEW t \in MercuryTopics, ClearHandlers(t) PROVE IInv'
<1>1. /\ table \in [Topics -> Seq(UserHandlers \cup {Internal})] /\ table' = [table EXCEPT ![t] = <<>>]
  BY DEF IInv, TypeOK, ClearHandlers
<1>2. TypeOK'
  <2>1. table' \in [Topics -> Seq(UserHandlers \cup {Internal})]
    BY <1>1, EmptySeq
  <2>. QED BY <2>1 DEF IInv, TypeOK, ClearHandlers, eventVars, kmsVars, answerVars
<1>3. TablesHold'
  <2>. SUFFICES ASSUME NEW u \in Topics
       PROVE  /\ \A i \in DOMAIN table'[u] : IF table'[u][i] = Internal THEN u \in Kinds
                     ELSE Topic[table'[u][i]] = u
              /\ \A i, j \in DOMAIN table'[u] : table'[u][i] = table'[u][j] => i = j
    BY DEF TablesHold
  <2>1. table'[u] = table[u] \/ table'[u] = <<>>
    BY <1>1
  <2>. QED BY <2>1 DEF IInv, TablesHold
<1>. QED BY <1>2, <1>3, QueuesSame DEF IInv, ClearHandlers, QueuesSafe

(* The first events find the tables of Registered and nothing else.        *)
LEMMA Initially == Init => IInv
<1>. SUFFICES ASSUME Init PROVE IInv
  OBVIOUS
<1>. USE DEF Init
<1>1. ASSUME NEW t \in Topics
      PROVE  /\ table[t] \in Seq(UserHandlers \cup {Internal})
             /\ \A i \in DOMAIN table[t] : IF table[t][i] = Internal THEN t \in Kinds
                    ELSE Topic[table[t][i]] = t
             /\ \A i, j \in DOMAIN table[t] : table[t][i] = table[t][j] => i = j
  <2>. DEFINE S == {h \in Registered : Topic[h] = t}
              a == IF t \in Kinds THEN <<Internal>> ELSE <<>>
              b == SetToSeq(S)
              T == UserHandlers \cup {Internal}
  <2>1. table[t] = a \o b
    OBVIOUS
  <2>2. IsFiniteSet(S)
    BY NamesAssumption, FS_Subset
  <2>3. b \in Seq(S) /\ \A i, j \in DOMAIN b : b[i] = b[j] => i = j
    BY <2>2, SetToSeqProperties
  <2>4. S \subseteq T /\ Internal \notin S /\ \A h \in S : Topic[h] = t
    BY NamesAssumption
  <2>. HIDE DEF S, b, Init
  <2>5. b \in Seq(T) /\ DOMAIN b = 1 .. Len(b) /\ Len(b) \in Nat /\ \A i \in DOMAIN b : b[i] \in S
    BY <2>3, <2>4, SeqMonotonic, LenProperties
  <2>6. a \in Seq(T) /\ Len(a) \in {0, 1} /\ (Len(a) = 1 => a[1] = Internal /\ t \in Kinds)
    <3>1. <<Internal>> \in Seq(T) /\ Len(<<Internal>>) = 1 /\ <<Internal>>[1] = Internal
      OBVIOUS
    <3>2. <<>> \in Seq(T) /\ Len(<<>>) = 0
      BY EmptySeq
    <3>3. CASE t \in Kinds
      BY <3>1, <3>3
    <3>4. CASE t \notin Kinds
      BY <3>2, <3>4
    <3>. QED BY <3>3, <3>4
  <2>. HIDE DEF a, T
  <2>7. /\ a \o b \in Seq(T) /\ DOMAIN (a \o b) = 1 .. Len(a) + Len(b)
        /\ \A i \in DOMAIN (a \o b) : (a \o b)[i] = IF i <= Len(a) THEN a[i] ELSE b[i - Len(a)]
    BY <2>5, <2>6, Concatenation
  <2>8. ASSUME NEW i \in DOMAIN (a \o b)
        PROVE  \/ i = 1 /\ Len(a) = 1 /\ (a \o b)[i] = Internal /\ t \in Kinds
               \/ i - Len(a) \in DOMAIN b /\ (a \o b)[i] = b[i - Len(a)] /\ b[i - Len(a)] \in S
    <3>1. CASE i <= Len(a)
      BY <2>5, <2>6, <2>7, <3>1
    <3>2. CASE ~(i <= Len(a))
      <4>1. i - Len(a) \in DOMAIN b
        BY <2>5, <2>6, <2>7, <3>2
      <4>. QED BY <2>5, <2>7, <3>2, <4>1
    <3>. QED BY <3>1, <3>2
  <2>9. \A i \in DOMAIN (a \o b) : IF (a \o b)[i] = Internal THEN t \in Kinds
            ELSE Topic[(a \o b)[i]] = t
    BY <2>4, <2>8
  <2>10. ASSUME NEW i \in DOMAIN (a \o b), NEW j \in DOMAIN (a \o b),
                (a \o b)[i] = (a \o b)[j] PROVE i = j
    <3>1. CASE i = 1 /\ Len(a) = 1 /\ (a \o b)[i] = Internal
      BY <2>4, <2>8, <2>10, <3>1
    <3>2. CASE i - Len(a) \in DOMAIN b /\ (a \o b)[i] = b[i - Len(a)] /\ b[i - Len(a)] \in S
      <4>1. j - Len(a) \in DOMAIN b /\ (a \o b)[j] = b[j - Len(a)]
        BY <2>4, <2>8, <2>10, <3>2
      <4>2. i - Len(a) = j - Len(a)
        BY <2>3, <2>10, <3>2, <4>1
      <4>. QED BY <2>6, <2>7, <2>5, <4>2
    <3>. QED BY <2>8, <3>1, <3>2
  <2>. QED BY <2>1, <2>7, <2>9, <2>10 DEF T
<1>2. DOMAIN <<>> = {} /\ ToSet(<<>>) = {} /\ \A S : <<>> \in Seq(S)
  BY EmptySeq DEF ToSet
<1>3. TypeOK
  <2>1. table \in [Topics -> Seq(UserHandlers \cup {Internal})]
    BY <1>1
  <2>. QED BY <1>2, <2>1 DEF TypeOK
<1>4. TablesHold
  BY <1>1 DEF TablesHold
<1>5. Arrived
  BY <1>2 DEF Arrived, Waits
<1>6. SuccessIsCached /\ AnswersAwaited
  BY <1>2 DEF SuccessIsCached, AnswersAwaited
<1>7. KeyComesFirst /\ SeenOnce
  BY <1>2 DEF KeyComesFirst, SeenOnce
<1>8. Blocks
  <2>. SUFFICES ASSUME NEW e \in Events PROVE VerbsFirst(e) /\ InSequence(e) /\ \E c \in Int :
                    InBlock(e, c)
    BY DEF Blocks, InBlock
  <2>1. dispatched[e] = <<>> /\ Past(e) = {} /\ Len(dispatched[e]) = 0 /\ Len(ready) = 0
    BY <1>2 DEF Past
  <2>2. VerbsFirst(e) /\ InSequence(e)
    BY <1>2, <2>1 DEF VerbsFirst, InSequence
  <2>3. InBlock(e, 0)
    <3>1. Queued(e, 0)
      BY <1>2, <2>1 DEF Queued
    <3>4. HaveRun(e, 0)
      BY <1>2, <2>1 DEF HaveRun, Woken, Waits
    <3>5. BlockRuns(e, 0)
      BY <1>2, <2>1 DEF BlockRuns
    <3>. QED BY <2>1, <3>1, <3>4, <3>5 DEF InBlock
  <2>. QED BY <2>2, <2>3
<1>. QED BY <1>3, <1>4, <1>5, <1>6, <1>7, <1>8 DEF IInv

(* Tasks and entries still belong to events that have arrived.             *)
LEMMA ArrivedKept ==
    ASSUME TypeOK, Arrived, NEW d, NEW S, Moves(ready, ready', d, S),
           \A e \in Events : frame[e] # None => frame'[e] = frame[e],
           \A e \in Events : frame'[e] = None
               => dispatched'[e] = <<>> /\ begun'[e] = {} /\ missed'[e] = {} /\ content'[e] = "empty",
           \A x \in S : /\ x[1] \in {"event", "handler"} => frame'[x[2]] # None
                        /\ x[1] = "wake" => frame'[x[2][2]] # None,
           \A k \in Keys : \A t \in Tasks :
             t \in ToSet(waiters'[k]) =>
               \/ Waits(t, k)
               \/ /\ frame[t[2]] # None /\ frame[t[2]].key = k
                  /\ t[1] = "handler" => Sealed(frame[t[2]])
    PROVE  Arrived'
<1>1. \A i \in DOMAIN ready' :
         /\ ready'[i][1] \in {"event", "handler"} => frame'[ready'[i][2]] # None
         /\ ready'[i][1] = "wake" => frame'[ready'[i][2][2]] # None
  <2>. TAKE i \in DOMAIN ready'
  <2>1. ready'[i] \in ToSet(ready) \/ ready'[i] \in S
    BY MovesRange DEF ToSet
  <2>2. CASE ready'[i] \in ToSet(ready)
    <3>1. PICK q \in DOMAIN ready : ready[q] = ready'[i]
      BY <2>2 DEF ToSet
    <3>2. ready[q] \in Entries
      BY LenProperties DEF TypeOK
    <3>3. /\ ready'[i][1] \in {"event", "handler"} => ready'[i][2] \in Events
          /\ ready'[i][1] = "wake" => ready'[i][2][2] \in Events
      BY <3>1, <3>2, EntryKinds, TaskKinds
    <3>. QED BY <3>1, <3>3 DEF Arrived
  <2>3. CASE ready'[i] \in S
    BY <2>3
  <2>. QED BY <2>1, <2>2, <2>3
<1>2. ASSUME NEW k \in Keys, NEW t \in Tasks, t \in ToSet(waiters'[k])
      PROVE  /\ frame'[t[2]] # None /\ frame'[t[2]].key = k
             /\ t[1] = "handler" => Sealed(frame'[t[2]])
  <2>1. /\ frame[t[2]] # None /\ frame[t[2]].key = k
        /\ t[1] = "handler" => Sealed(frame[t[2]])
    BY <1>2 DEF Arrived
  <2>2. frame'[t[2]] = frame[t[2]]
    BY <2>1, TaskKinds
  <2>. QED BY <2>1, <2>2
<1>. QED BY <1>1, <1>2 DEF Arrived, Waits

(* What has succeeded is still cached.                                     *)
LEMMA SuccessKept ==
    ASSUME TypeOK, Arrived, SuccessIsCached, NEW d, NEW S, Moves(ready, ready', d, S),
           \A e \in Events : frame[e] # None => frame'[e] = frame[e],
           cacheEnabled' = cacheEnabled, cached \subseteq cached',
           cacheEnabled => \A k \in Keys : retrieval'[k] = "ok"
               => retrieval[k] = "ok" \/ k \in cached',
           cacheEnabled => \A t \in Tasks : <<"wake", t, "ok">> \in S
               => frame[t[2]] # None /\ frame[t[2]].key \in cached',
           cacheEnabled => \A e \in Events :
             content'[e] = "clear" /\ frame[e] # None /\ Sealed(frame[e])
                 => content[e] = "clear" \/ frame[e].key \in cached',
           \A e \in Events : frame[e] = None => content'[e] = "empty"
    PROVE  SuccessIsCached'
<1>. SUFFICES ASSUME cacheEnabled
     PROVE  /\ \A k \in Keys : retrieval'[k] = "ok" => k \in cached'
            /\ \A t \in Tasks : <<"wake", t, "ok">> \in ToSet(ready')
                   => frame'[t[2]].key \in cached'
            /\ \A e \in Events : content'[e] = "clear" /\ Sealed(frame'[e])
                   => frame'[e].key \in cached'
  BY DEF SuccessIsCached
<1>1. \A k \in Keys : retrieval'[k] = "ok" => k \in cached'
  BY DEF SuccessIsCached
<1>2. ASSUME NEW t \in Tasks, <<"wake", t, "ok">> \in ToSet(ready')
             PROVE frame'[t[2]].key \in cached'
  <2>1. <<"wake", t, "ok">> \in ToSet(ready) \/ <<"wake", t, "ok">> \in S
    BY <1>2, MovesRange
  <2>2. frame[t[2]] # None /\ frame[t[2]].key \in cached'
    <3>1. CASE <<"wake", t, "ok">> \in ToSet(ready)
      BY <3>1 DEF SuccessIsCached, Arrived, ToSet
    <3>2. CASE <<"wake", t, "ok">> \in S
      BY <3>2
    <3>. QED BY <2>1, <3>1, <3>2
  <2>. QED BY <2>2, TaskKinds
<1>3. ASSUME NEW e \in Events, content'[e] = "clear", Sealed(frame'[e])
             PROVE frame'[e].key \in cached'
  <2>1. frame[e] # None /\ frame'[e] = frame[e]
    BY <1>3
  <2>. QED BY <1>3, <2>1 DEF SuccessIsCached
<1>. QED BY <1>1, <1>2, <1>3

(* What has been answered is still awaited.                                *)
LEMMA AnswersKept ==
    ASSUME AnswersAwaited, TypeOK, answered' \subseteq answered,
           \A l \in Keys : retrieval[l] \in {"running", "due"} /\ l \in answered'
               => retrieval'[l] \in {"running", "due"}
    PROVE  AnswersAwaited'
BY DEF AnswersAwaited, TypeOK

-----------------------------------------------------------------------------
(* The other actions.                                                      *)

(* No Mercury handler is an activity handler: their topics differ.         *)
LEMMA RawHandlersDiffer == RawHandlers \cap Handlers = {}
BY TopicAssumption DEF MercuryTopics, ActivityTopics, Kinds, Verbs

(* A user's Mercury handler is called.                                     *)
LEMMA RunRawHandlerStep == ASSUME IInv, RunRawHandler PROVE IInv'
<1>. DEFINE e == Event
            h == Handler
<1>. USE DEF IInv
<1>1. /\ ready # <<>> /\ ready[1] = <<"event", e, h>> /\ e \in Events /\ h \in RawHandlers
      /\ 1 \in DOMAIN ready
  BY HeadIs, EntryKinds DEF RunRawHandler, Ready, Event, Handler
<1>2. /\ begun' = [begun EXCEPT ![e] = begun[e] \cup {h}]
      /\ UNCHANGED <<table, frame, dispatched, missed, content, read, cacheEnabled, retrieval, waiters,
                     cancelled, answered, lost, cached>>
  BY DEF RunRawHandler, Begin, kmsVars, answerVars
<1>3. Moves(ready, ready', 1, {})
  BY <1>1, Kept, QueueIs DEF RunRawHandler, Rest, TypeOK
<1>. HIDE DEF e, h
<1>4. TypeOK'
  <2>1. ready' \in Seq(Entries)
    BY <1>3 DEF Moves
  <2>2. begun' \in [Events -> SUBSET UserHandlers]
    BY <1>1, <1>2 DEF TypeOK, UserHandlers
  <2>. QED BY <1>2, <2>1, <2>2 DEF TypeOK
<1>5. TablesHold'
  BY <1>2, TablesSame
<1>6. Arrived'
  <2>1. frame[e] # None
    BY <1>1 DEF Arrived
  <2>2. \A x \in Events : frame'[x] = None
            => dispatched'[x] = <<>> /\ begun'[x] = {} /\ missed'[x] = {} /\ content'[x] = "empty"
    BY <1>1, <1>2, <2>1 DEF Arrived, TypeOK
  <2>3. \A k \in Keys : \A t \in Tasks : t \in ToSet(waiters'[k]) => Waits(t, k)
    BY <1>2 DEF Waits
  <2>. QED BY <1>2, <1>3, <2>2, <2>3, ArrivedKept
<1>7. SuccessIsCached'
  <2>1. \A x \in Events : frame[x] = None => content'[x] = "empty"
    BY <1>2 DEF Arrived
  <2>. QED BY <1>2, <1>3, <2>1, SuccessKept
<1>8. AnswersAwaited' /\ KeyComesFirst'
  BY <1>1, <1>2, <1>3, AnswersKept, StillFirst
<1>9. SeenOnce'
  BY <1>2, <1>3, StillOnce
<1>10. Blocks'
  <2>1. \A x \in Events : Past(x)' \cap Handlers = Past(x) \cap Handlers
    BY <1>1, <1>2, RawHandlersDiffer DEF TypeOK, Past
  <2>2. \A x \in Events : SameRuns(x, 1, {})
    BY <1>1, <1>2, <1>3, <2>1 DEF SameRuns
  <2>. QED BY <2>2, BlocksKept
<1>. QED BY <1>4, <1>5, <1>6, <1>7, <1>8, <1>9, <1>10

(* A step of a retrieval, or its cancellation, that no handler notices.    *)
LEMMA RetrievalStep ==
    ASSUME IInv, NEW d \in {0, 1}, NEW S \in SUBSET ({"load"} \X Keys \X {"start", "due"}), NEW k \in Keys,
           NEW r,
           Moves(ready, ready', d, S),
           d = 1 => ready[1][1] = "load",
           r \in {"running", "due"}, retrieval' = retrieval \/ retrieval' = [retrieval EXCEPT ![k] = r],
           cancelled' \subseteq Keys, answered' \subseteq answered, lost' \subseteq Keys,
           \A l \in answered \cup lost : l \in answered' \cup lost',
           UNCHANGED <<table, eventVars, cacheEnabled, waiters, cached>>
    PROVE  IInv'
<1>. USE DEF IInv
<1>1. UNCHANGED <<table, frame, dispatched, begun, missed, content, read, cacheEnabled, waiters, cached>>
  BY DEF eventVars
<1>2. \A x \in S : x[1] = "load"
  OBVIOUS
<1>3. TypeOK'
  <2>1. ready' \in Seq(Entries)
    BY DEF Moves
  <2>2. /\ retrieval' \in [Keys -> {"none"} \cup Pending \cup Over]
        /\ \A l \in Keys : waiters'[l] # <<>> => retrieval'[l] \in Pending
    <3>1. /\ retrieval \in [Keys -> {"none"} \cup Pending \cup Over]
          /\ \A l \in Keys : waiters[l] # <<>> => retrieval[l] \in Pending
      BY DEF TypeOK
    <3>. HIDE DEF IInv
    <3>2. CASE retrieval' = retrieval
      BY <1>1, <3>1, <3>2
    <3>3. CASE retrieval' = [retrieval EXCEPT ![k] = r]
      BY <1>1, <3>1, <3>3 DEF Pending
    <3>. QED BY <3>2, <3>3
  <2>3. answered' \subseteq Keys
    BY DEF TypeOK
  <2>. QED BY <1>1, <2>1, <2>2, <2>3 DEF TypeOK
<1>4. TablesHold'
  BY <1>1, TablesSame
<1>5. Arrived'
  <2>1. \A x \in Events : frame'[x] = None
            => dispatched'[x] = <<>> /\ begun'[x] = {} /\ missed'[x] = {} /\ content'[x] = "empty"
    BY <1>1 DEF Arrived
  <2>2. \A l \in Keys : \A t \in Tasks : t \in ToSet(waiters'[l]) => Waits(t, l)
    BY <1>1 DEF Waits
  <2>. QED BY <1>1, <1>2, <2>1, <2>2, ArrivedKept
<1>6. SuccessIsCached'
  <2>1. \A x \in Events : frame[x] = None => content'[x] = "empty"
    BY <1>1 DEF Arrived
  <2>2. \A l \in Keys : retrieval'[l] = "ok" => retrieval[l] = "ok"
    BY DEF TypeOK
  <2>3. \A t \in Tasks : <<"wake", t, "ok">> \notin S
    BY <1>2
  <2>. QED BY <1>1, <2>1, <2>2, <2>3, SuccessKept
<1>7. AnswersAwaited' /\ KeyComesFirst'
  <2>1. \A l \in Keys : retrieval[l] \in {"running", "due"} => retrieval'[l] \in {"running", "due"}
    BY DEF TypeOK
  <2>2. AnswersAwaited'
    BY <2>1, AnswersKept
  <2>. QED BY <1>1, <1>2, <2>2, StillFirst
<1>8. SeenOnce'
  BY <1>1, <1>2, StillOnce
<1>9. Blocks'
  <2>1. \A x \in Events : SameRuns(x, d, S)
    BY <1>1, <1>2 DEF SameRuns, Past
  <2>. QED BY <2>1, BlocksKept
<1>. QED BY <1>3, <1>4, <1>5, <1>6, <1>7, <1>8, <1>9

(* The head of the queue, when it is the retrieval's.                      *)
LEMMA LoadAtHead ==
    ASSUME IInv, Ready("load")
    PROVE  /\ ready # <<>> /\ 1 \in DOMAIN ready /\ ready[1] = Head(ready) /\ ready[1][1] = "load"
           /\ Head(ready)[2] \in Keys
           /\ Moves(ready, Rest, 1, {})
<1>1. ready # <<>> /\ 1 \in DOMAIN ready /\ ready[1] = Head(ready) /\ ready[1][1] = "load" /\ Head(ready)[2] \in Keys
  BY HeadIs, EntryKinds DEF IInv, Ready
<1>2. Moves(ready, Rest, 1, {})
  BY <1>1, Kept, QueueIs DEF Rest, IInv, TypeOK
<1>. QED BY <1>1, <1>2

(* The retrieval task sends its request, or another one ...                *)
LEMMA StartLoadStep == ASSUME IInv, StartLoad PROVE IInv'
<1>. DEFINE k == Head(ready)[2]
<1>1. ready # <<>> /\ ready[1][1] = "load" /\ k \in Keys /\ Moves(ready, ready', 1, {})
  BY LoadAtHead DEF StartLoad
<1>2. /\ retrieval' = [retrieval EXCEPT ![k] = "running"]
      /\ cancelled' \subseteq Keys /\ answered' \subseteq answered /\ lost' \subseteq Keys
      /\ \A l \in answered \cup lost : l \in answered' \cup lost'
      /\ UNCHANGED <<table, eventVars, cacheEnabled, waiters, cached>>
  BY DEF StartLoad, answerVars, IInv, TypeOK
<1>. HIDE DEF k
<1>. QED BY <1>1, <1>2, RetrievalStep

LEMMA AskAgainStep == ASSUME IInv, AskAgain PROVE IInv'
<1>. DEFINE k == Head(ready)[2]
<1>1. ready # <<>> /\ ready[1][1] = "load" /\ k \in Keys /\ Moves(ready, ready', 1, {})
  BY LoadAtHead DEF AskAgain
<1>2. /\ retrieval' = [retrieval EXCEPT ![k] = "running"]
      /\ cancelled' \subseteq Keys /\ answered' \subseteq answered /\ lost' \subseteq Keys
      /\ \A l \in answered \cup lost : l \in answered' \cup lost'
      /\ UNCHANGED <<table, eventVars, cacheEnabled, waiters, cached>>
  BY <1>1 DEF AskAgain, IInv, TypeOK
<1>. HIDE DEF k
<1>. QED BY <1>1, <1>2, RetrievalStep

(* ... and has its answer, or is cancelled.                                *)
LEMMA LoadAnsweredStep == ASSUME IInv, NEW k \in Keys, LoadAnswered(k) PROVE IInv'
<1>1. ready' = Append(ready, <<"load", k, "due">>)
  BY DEF LoadAnswered
<1>2. <<"load", k, "due">> \in Entries /\ ready \in Seq(Entries)
  BY EntryMembers DEF IInv, TypeOK
<1>3. Moves(ready, ready', 0, {<<"load", k, "due">>})
  <2>1. Moves(ready, Append(Queue(ready, 0), <<"load", k, "due">>), 0, {<<"load", k, "due">>})
    BY <1>2, Appended
  <2>. QED BY <1>1, <2>1, QueueIs
<1>4. /\ retrieval' = [retrieval EXCEPT ![k] = "due"]
      /\ cancelled' \subseteq Keys /\ answered' \subseteq answered /\ lost' \subseteq Keys
      /\ \A l \in answered \cup lost : l \in answered' \cup lost'
      /\ UNCHANGED <<table, eventVars, cacheEnabled, waiters, cached>>
  BY DEF LoadAnswered, answerVars, IInv, TypeOK
<1>. DEFINE S == {<<"load", k, "due">>}
            r == "due"
            d == 0
<1>5. S \in SUBSET ({"load"} \X Keys \X {"start", "due"}) /\ r \in {"running", "due"} /\ d \in {0, 1} /\ d # 1
  OBVIOUS
<1>6. Moves(ready, ready', d, S) /\ retrieval' = [retrieval EXCEPT ![k] = r]
  BY <1>3, <1>4
<1>. HIDE DEF S, r, d
<1>. QED BY <1>4, <1>5, <1>6, RetrievalStep

LEMMA CancelReadStep == ASSUME IInv, NEW e \in Events, CancelRead(e) PROVE IInv'
<1>. DEFINE k == frame[e].key
            d == 0
<1>1. frame[e] \in Frames /\ k \in Keys
  BY FramesAssumption DEF CancelRead, IInv, TypeOK
<1>2. /\ retrieval' = retrieval
      /\ cancelled' \subseteq Keys /\ answered' \subseteq answered /\ lost' \subseteq Keys
      /\ \A l \in answered \cup lost : l \in answered' \cup lost'
      /\ UNCHANGED <<table, ready, eventVars, cacheEnabled, waiters, cached>>
  BY <1>1 DEF CancelRead, IInv, TypeOK
<1>3. d \in {0, 1} /\ d # 1 /\ Moves(ready, ready', d, {})
  BY <1>2, Kept, QueueIs DEF IInv, TypeOK
<1>. HIDE DEF k, d
<1>. QED BY <1>1, <1>2, <1>3, RetrievalStep

(* Extended, when the head stays.                                          *)
LEMMA Joined ==
    ASSUME NEW r \in Seq(Entries), NEW S \in SUBSET Entries, NEW new \in Seq(S)
    PROVE  /\ Moves(r, r \o new, 0, S)
           /\ Len(r \o new) = Len(r) + Len(new)
           /\ \A j \in DOMAIN new : (r \o new)[Len(r) + j] = new[j]
<1>1. Queue(r, 0) = r
  BY QueueIs
<1>. DEFINE d == 0
            q == Queue(r, d)
            s == q \o new
<1>2. d \in {0, 1} /\ d # 1
  OBVIOUS
<1>3. /\ Moves(r, s, d, S)
      /\ Len(s) = Len(r) - d + Len(new)
      /\ \A j \in DOMAIN new : s[Len(r) - d + j] = new[j]
  <2>. HIDE DEF d
  <2>. QED BY <1>2, Extended
<1>4. Len(r) - d = Len(r)
  BY LenProperties
<1>5. s = r \o new
  BY <1>1
<1>. HIDE DEF s
<1>. QED BY <1>3, <1>4, <1>5

(* A frame arrives: its handlers are queued, Internal at most once.        *)
LEMMA ArrivesStep == ASSUME IInv, NEW e \in Events, NEW f \in Frames, Arrives(e, f) PROVE IInv'
<1>. DEFINE hs == MercuryMatching(f)
            new == EntriesFor("event", e, hs)
            S == {<<"event", e, h>> : h \in RawHandlers \cup {Internal}}
            n == Len(ready)
<1>. USE DEF IInv
<1>1. /\ frame[e] = None /\ frame' = [frame EXCEPT ![e] = f] /\ f # None
      /\ ready' = ready \o new
      /\ UNCHANGED <<table, dispatched, begun, missed, content, read, cacheEnabled, retrieval, waiters,
                     cancelled, answered, lost, cached>>
  BY NamesAssumption DEF Arrives, kmsVars, answerVars
<1>2. /\ hs \in Seq(RawHandlers \cup {Internal})
      /\ \A i, j \in DOMAIN hs : hs[i] = Internal /\ hs[j] = Internal => i = j
  BY MercuryMatchingIs
<1>. HIDE DEF hs
<1>3. /\ new \in Seq(S) /\ Len(new) = Len(hs) /\ DOMAIN new = DOMAIN hs
      /\ \A i \in DOMAIN hs : new[i] = <<"event", e, hs[i]>>
  <2>1. /\ new = [i \in DOMAIN hs |-> <<"event", e, hs[i]>>]
        /\ \A i \in DOMAIN hs : hs[i] \in RawHandlers \cup {Internal}
    BY <1>2, LenProperties DEF EntriesFor
  <2>2. /\ DOMAIN new = DOMAIN hs /\ new = [i \in DOMAIN hs |-> new[i]]
        /\ \A i \in DOMAIN hs : new[i] = <<"event", e, hs[i]>>
    BY <2>1
  <2>3. \A i \in DOMAIN hs : new[i] \in S
    BY <2>1, <2>2
  <2>. HIDE DEF new, S
  <2>. QED BY <1>2, <2>2, <2>3, Mapped
<1>. HIDE DEF new
<1>4. S \in SUBSET Entries
  BY EntryMembers
<1>5. /\ Moves(ready, ready', 0, S) /\ Len(ready') = n + Len(new)
      /\ \A j \in DOMAIN new : ready'[n + j] = new[j]
  <2>. HIDE DEF S
  <2>1. ready \in Seq(Entries) /\ n \in Nat
    BY LenProperties DEF TypeOK
  <2>. QED BY <1>1, <1>3, <1>4, <2>1, Joined
<1>6. \A x \in S : x[1] = "event" /\ x[2] = e
  OBVIOUS
<1>. HIDE DEF S
<1>7. TypeOK'
  <2>1. ready' \in Seq(Entries)
    BY <1>5 DEF Moves
  <2>2. frame' \in [Events -> Frames \cup {None}]
    BY <1>1 DEF TypeOK
  <2>. QED BY <1>1, <2>1, <2>2 DEF TypeOK
<1>8. TablesHold'
  BY <1>1, TablesSame
<1>9. \A x \in Events : x # e => frame'[x] = frame[x]
  BY <1>1 DEF TypeOK
<1>10. frame'[e] = f
  BY <1>1 DEF TypeOK
<1>11. Arrived'
  <2>1. \A x \in Events : frame'[x] = None
            => dispatched'[x] = <<>> /\ begun'[x] = {} /\ missed'[x] = {} /\ content'[x] = "empty"
    BY <1>1, <1>9, <1>10 DEF Arrived
  <2>2. \A k \in Keys : \A t \in Tasks : t \in ToSet(waiters'[k]) => Waits(t, k)
    BY <1>1 DEF Waits
  <2>. QED BY <1>1, <1>5, <1>6, <1>9, <1>10, <2>1, <2>2, ArrivedKept
<1>12. SuccessIsCached'
  <2>1. \A x \in Events : frame[x] = None => content'[x] = "empty"
    BY <1>1 DEF Arrived
  <2>. QED BY <1>1, <1>5, <1>6, <1>9, <2>1, SuccessKept
<1>13. AnswersAwaited' /\ KeyComesFirst'
  BY <1>1, <1>5, <1>6, <1>9, AnswersKept, StillFirst
<1>14. SeenOnce'
  <2>1. dispatched[e] = <<>>
    BY <1>1 DEF Arrived
  <2>2. /\ n \in Nat /\ DOMAIN ready = 1 .. n /\ DOMAIN ready' = 1 .. n + Len(hs) /\ DOMAIN hs = 1 .. Len(hs) /\ Len(hs) \in Nat
        /\ \A q \in DOMAIN ready : ready'[q] = ready[q]
    BY <1>2, <1>3, <1>5, LenProperties DEF TypeOK, Moves
  <2>3. \A q \in DOMAIN ready' : q \notin DOMAIN ready
            => q - n \in DOMAIN hs /\ ready'[q] = <<"event", e, hs[q - n]>>
    <3>. TAKE q \in DOMAIN ready'
    <3>. HAVE q \notin DOMAIN ready
    <3>1. q - n \in DOMAIN hs /\ n + (q - n) = q
      BY <2>2
    <3>. QED BY <1>3, <1>5, <3>1
  <2>4. \A q \in DOMAIN ready : ready[q][1] = "event" => ready[q][2] # e
    BY <1>1 DEF Arrived
  <2>. SUFFICES ASSUME NEW i \in DOMAIN ready', NEW j \in DOMAIN ready',
                       ready'[i][1] = "event", ready'[i][3] = Internal
       PROVE  dispatched'[ready'[i][2]] = <<>> /\ (ready'[j] = ready'[i] => j = i)
    BY DEF SeenOnce
  <2>5. CASE i \in DOMAIN ready
    <3>1. ready'[i] = ready[i] /\ ready[i][2] # e
      BY <2>2, <2>4, <2>5
    <3>2. ready'[j] = ready'[i] => j \in DOMAIN ready
      BY <2>3, <3>1
    <3>. QED BY <1>1, <2>2, <2>5, <3>1, <3>2 DEF SeenOnce
  <2>6. CASE i \notin DOMAIN ready
    <3>1. i - n \in DOMAIN hs /\ hs[i - n] = Internal /\ ready'[i] = <<"event", e, Internal>>
      BY <2>3, <2>6
    <3>2. ASSUME ready'[j] = ready'[i] PROVE j = i
      <4>1. j \notin DOMAIN ready
        BY <2>2, <2>4, <3>1, <3>2
      <4>2. j - n \in DOMAIN hs /\ hs[j - n] = Internal
        BY <2>3, <3>1, <3>2, <4>1
      <4>3. j - n = i - n
        BY <1>2, <3>1, <4>2
      <4>. QED BY <2>2, <4>3
    <3>. QED BY <1>1, <2>1, <3>1, <3>2
  <2>. QED BY <2>5, <2>6
<1>15. Blocks'
  <2>1. dispatched[e] = <<>>
    BY <1>1 DEF Arrived
  <2>2. ASSUME NEW x \in Events PROVE SameRuns(x, 0, S)
    BY <1>1, <1>5, <1>6, <2>1 DEF SameRuns, Past
  <2>. QED BY <2>2, BlocksKept
<1>. QED BY <1>7, <1>8, <1>11, <1>12, <1>13, <1>14, <1>15

(* A user asks for the key of a copy; no handler is touched.               *)
LEMMA GetMessageContentStep == ASSUME IInv, NEW e \in Events, GetMessageContent(e) PROVE IInv'
<1>. DEFINE k == frame[e].key
            task == <<"read", e>>
            S == {<<"load", k, "start">>}
<1>. USE DEF IInv
<1>1. /\ frame[e] # None /\ frame[e] \in Frames /\ k \in Keys /\ task \in Tasks
      /\ UNCHANGED <<table, frame, dispatched, begun, missed, content, cacheEnabled,
                     cancelled, answered, lost, cached>>
      /\ read' \in [Events -> {"none", "wait", "over"}]
  <2>1. frame[e] # None /\ frame[e] \in Frames /\ k \in Keys
    BY FramesAssumption DEF GetMessageContent, TypeOK
  <2>2. task \in Tasks
    BY EntryMembers
  <2>3. read' \in [Events -> {"none", "wait", "over"}]
    BY DEF GetMessageContent, TypeOK
  <2>. QED BY <2>1, <2>2, <2>3 DEF GetMessageContent, answerVars
<1>2. \/ UNCHANGED <<ready, retrieval, waiters>>
      \/ GetKey(task, k, ready)
  BY DEF GetMessageContent
<1>. HIDE DEF k, task
<1>3. /\ Moves(ready, ready', 0, S)
      /\ retrieval' \in [Keys -> {"none"} \cup Pending \cup Over]
      /\ waiters' \in [Keys -> Seq(Tasks)]
      /\ \A l \in Keys : waiters'[l] # <<>> => retrieval'[l] \in Pending
      /\ \A l \in Keys : retrieval'[l] = "ok" => retrieval[l] = "ok"
      /\ \A l \in Keys : retrieval[l] \in {"running", "due"} => retrieval'[l] = retrieval[l]
      /\ waiters' = waiters \/ waiters' = [waiters EXCEPT ![k] = Append(waiters[k], task)]
  <2>1. CASE UNCHANGED <<ready, retrieval, waiters>>
    <3>. DEFINE new == <<>>
    <3>1. ready \in Seq(Entries) /\ S \in SUBSET Entries /\ new \in Seq(S)
      BY <1>1, EntryMembers, EmptySeq DEF TypeOK
    <3>2. ready \o new = ready
      BY <3>1, ConcatEmptySeq
    <3>3. Moves(ready, ready \o new, 0, S)
      <4>. HIDE DEF S, new
      <4>. QED BY <3>1, Joined
    <3>4. ready' = ready \o new
      BY <2>1, <3>2
    <3>. HIDE DEF S, new
    <3>. QED BY <2>1, <3>3, <3>4 DEF TypeOK
  <2>2. CASE GetKey(task, k, ready)
    <3>. DEFINE d == 0
    <3>1. d \in {0, 1} /\ d # 1 /\ GetKey(task, k, Queue(ready, d))
      BY <2>2, QueueIs
    <3>. HIDE DEF d
    <3>2. /\ Moves(ready, ready', d, S)
          /\ retrieval' \in [Keys -> {"none"} \cup Pending \cup Over]
          /\ waiters' \in [Keys -> Seq(Tasks)]
          /\ \A l \in Keys : waiters'[l] # <<>> => retrieval'[l] \in Pending
          /\ \A l \in Keys : retrieval'[l] = "ok" => retrieval[l] = "ok"
          /\ \A l \in Keys : retrieval[l] \in {"running", "due"} => retrieval'[l] = retrieval[l]
          /\ IF Immediate(k) = "wait"
             THEN ~InCache(k) /\ waiters' = [waiters EXCEPT ![k] = Append(waiters[k], task)]
             ELSE waiters' = waiters /\ Immediate(k) \in Over
      BY <1>1, <3>1, AsksForKey
    <3>. QED BY <3>2 DEF d
  <2>. QED BY <1>2, <2>1, <2>2
<1>4. \A x \in S : x[1] = "load"
  OBVIOUS
<1>. HIDE DEF S
<1>5. TypeOK'
  BY <1>1, <1>3 DEF TypeOK, Moves
<1>6. TablesHold'
  BY <1>1, TablesSame
<1>7. Arrived'
  <2>1. \A x \in Events : frame'[x] = None
            => dispatched'[x] = <<>> /\ begun'[x] = {} /\ missed'[x] = {} /\ content'[x] = "empty"
    BY <1>1 DEF Arrived
  <2>2. \A l \in Keys : \A t \in Tasks : t \in ToSet(waiters'[l])
            => Waits(t, l) \/ (t = task /\ l = k)
    BY <1>1, <1>3, WaitersAdded DEF Waits
  <2>3. /\ frame[task[2]] # None /\ frame[task[2]].key = k /\ task[1] # "handler"
    BY <1>1 DEF task, k
  <2>4. \A l \in Keys : \A t \in Tasks :
          t \in ToSet(waiters'[l]) => 
               \/ Waits(t, l)
               \/ /\ frame[t[2]] # None /\ frame[t[2]].key = l
                  /\ t[1] = "handler" => Sealed(frame[t[2]])
    BY <2>2, <2>3
  <2>. QED BY <1>1, <1>3, <1>4, <2>1, <2>4, ArrivedKept
<1>8. SuccessIsCached'
  <2>1. \A x \in Events : frame[x] = None => content'[x] = "empty"
    BY <1>1 DEF Arrived
  <2>2. \A t \in Tasks : <<"wake", t, "ok">> \notin S
    BY <1>4
  <2>. QED BY <1>1, <1>3, <2>1, <2>2, SuccessKept
<1>9. AnswersAwaited' /\ KeyComesFirst'
  BY <1>1, <1>3, <1>4, AnswersKept, StillFirst
<1>10. SeenOnce'
  BY <1>1, <1>3, <1>4, StillOnce
<1>11. Blocks'
  <2>1. \A x \in Events, h \in Handlers :
            <<"handler", x, h>> \in Tasks /\ <<"handler", x, h>> # task
    BY EntryMembers DEF task
  <2>2. ASSUME NEW x \in Events, NEW l \in Keys, NEW h \in Handlers
        PROVE {q \in DOMAIN waiters'[l] : waiters'[l][q] = <<"handler", x, h>>}
                  = {q \in DOMAIN waiters[l] : waiters[l][q] = <<"handler", x, h>>}
    BY <1>1, <1>3, <2>1, WaitersAdded, ZenonT(60)
  <2>3. ASSUME NEW x \in Events PROVE SameRuns(x, 0, S)
    BY <1>1, <1>3, <1>4, <2>2 DEF SameRuns, Past
  <2>. QED BY <2>3, BlocksKept
<1>. QED BY <1>5, <1>6, <1>7, <1>8, <1>9, <1>10, <1>11

(* A handler that needs no key: no handler of its event waits for one.     *)
LEMMA RunPlainHandlerStep == ASSUME IInv, RunPlainHandler PROVE IInv'
<1>. USE DEF IInv
<1>1. PICK e \in Events, h \in Handlers :
        /\ ready # <<>> /\ ready[1] = <<"handler", e, h>> /\ 1 \in DOMAIN ready
        /\ e = Event /\ h = Handler
  BY HeadIs, EntryKinds DEF RunPlainHandler, Ready, Event, Handler
<1>2. /\ begun' = [begun EXCEPT ![e] = begun[e] \cup {h}]
      /\ content' = content \/ content' = [content EXCEPT ![e] = "clear"]
      /\ ~Sealed(frame[e])
      /\ UNCHANGED <<table, frame, dispatched, missed, read, cacheEnabled, retrieval, waiters,
                     cancelled, answered, lost, cached>>
  BY <1>1 DEF RunPlainHandler, Begin, kmsVars, answerVars, Sealed
<1>3. Moves(ready, ready', 1, {})
  BY <1>1, Kept, QueueIs DEF RunPlainHandler, Rest, TypeOK
<1>4. frame[e] # None
  BY <1>1 DEF Arrived
<1>5. TypeOK'
  <2>1. ready' \in Seq(Entries)
    BY <1>3 DEF Moves
  <2>2. begun' \in [Events -> SUBSET UserHandlers]
    BY <1>1, <1>2 DEF TypeOK, UserHandlers
  <2>3. content' \in [Events -> {"empty", "cipher", "clear"}]
    BY <1>1, <1>2 DEF TypeOK
  <2>. QED BY <1>2, <2>1, <2>2, <2>3 DEF TypeOK
<1>6. TablesHold'
  BY <1>2, TablesSame
<1>7. \A x \in Events : x # e => begun'[x] = begun[x] /\ content'[x] = content[x]
  BY <1>2 DEF TypeOK
<1>8. Arrived'
  <2>2. \A x \in Events : frame'[x] = None
            => dispatched'[x] = <<>> /\ begun'[x] = {} /\ missed'[x] = {} /\ content'[x] = "empty"
    BY <1>2, <1>4, <1>7 DEF Arrived
  <2>3. \A k \in Keys : \A t \in Tasks : t \in ToSet(waiters'[k]) => Waits(t, k)
    BY <1>2 DEF Waits
  <2>. QED BY <1>2, <1>3, <2>2, <2>3, ArrivedKept
<1>9. SuccessIsCached'
  <2>1. \A x \in Events : frame[x] = None => content'[x] = "empty"
    BY <1>4, <1>7 DEF Arrived
  <2>2. \A x \in Events : content'[x] = "clear" /\ frame[x] # None /\ Sealed(frame[x])
            => content[x] = "clear"
    BY <1>2, <1>7
  <2>. QED BY <1>2, <1>3, <2>1, <2>2, SuccessKept
<1>10. AnswersAwaited' /\ KeyComesFirst'
  BY <1>1, <1>2, <1>3, AnswersKept, StillFirst
<1>11. SeenOnce'
  BY <1>2, <1>3, StillOnce
<1>12. Blocks'
  <2>1. ASSUME NEW x \in Events, x # e PROVE BlockHolds(x)'
    <3>1. SameRuns(x, 1, {})
      BY <1>1, <1>2, <1>3, <1>7, <2>1 DEF SameRuns, Past
    <3>. QED BY <3>1, BlockKept
  <2>2. BlockHolds(e)'
    <3>1. VerbsFirst(e) /\ InSequence(e) /\ \E b : InBlock(e, b)
      BY <1>1, BlocksHold DEF BlockHolds
    <3>2. \A g \in Handlers, k \in Keys : ~Waits(<<"handler", e, g>>, k)
      <4>1. \A g \in Handlers : <<"handler", e, g>> \in Tasks
        BY <1>1, EntryMembers
      <4>. QED BY <1>2, <4>1 DEF Arrived
    <3>3. Past(e)' = Past(e) \cup {h} /\ dispatched'[e] = dispatched[e]
      BY <1>1, <1>2 DEF TypeOK, Past
    <3>4. InSequence(e)' /\ \E c \in Int : InBlock(e, c)'
      <4>1. PICK b : InBlock(e, b)
        BY <3>1
      <4>2. Clean(e, {})
        BY DEF Clean
      <4>. QED BY <1>1, <1>2, <1>3, <3>1, <3>2, <3>3, <4>1, <4>2, Begins
    <3>5. VerbsFirst(e)'
      BY <3>1, <3>3 DEF VerbsFirst
    <3>. QED BY <3>4, <3>5 DEF BlockHolds
  <2>. QED BY <2>1, <2>2, BlocksHold
<1>. QED BY <1>5, <1>6, <1>8, <1>9, <1>10, <1>11, <1>12

(* A handler is past when its task has ended, whether it was called or not. *)
LEMMA CallsTyped ==
    ASSUME TypeOK, NEW e \in Events, NEW h \in Handlers, NEW o, Calls(e, h, o)
    PROVE  /\ begun' \in [Events -> SUBSET UserHandlers] /\ missed' \in [Events -> SUBSET Handlers]
           /\ \A x \in Events : x # e => begun'[x] = begun[x] /\ missed'[x] = missed[x]
           /\ o \in Over => Past(e)' = Past(e) \cup {h}
           /\ o \notin Over => Past(e)' = Past(e)
<1>1. /\ begun \in [Events -> SUBSET UserHandlers] /\ missed \in [Events -> SUBSET Handlers]
      /\ begun[e] \cup {h} \subseteq UserHandlers /\ missed[e] \cup {h} \subseteq Handlers
  BY DEF TypeOK, UserHandlers
<1>2. CASE o \in {"ok", "failed"}
  <2>1. begun' = [begun EXCEPT ![e] = begun[e] \cup {h}] /\ missed' = [missed EXCEPT ![e] = missed[e]]
    BY <1>2 DEF Calls
  <2>. QED BY <1>1, <1>2, <2>1 DEF Over, Past
<1>3. CASE o = "cancelled"
  <2>1. begun' = [begun EXCEPT ![e] = begun[e]] /\ missed' = [missed EXCEPT ![e] = missed[e] \cup {h}]
    BY <1>3 DEF Calls
  <2>. QED BY <1>1, <1>3, <2>1 DEF Over, Past
<1>4. CASE o \notin Over
  <2>1. begun' = [begun EXCEPT ![e] = begun[e]] /\ missed' = [missed EXCEPT ![e] = missed[e]]
    BY <1>4 DEF Calls, Over
  <2>. QED BY <1>1, <1>4, <2>1 DEF Past
<1>. QED BY <1>2, <1>3, <1>4 DEF Over

(* A handler that needs its key: it is called when no other handler of the *)
(* event waits, for those wait for the same key, which would be pending.   *)
LEMMA RunMessageHandlerStep == ASSUME IInv, RunMessageHandler PROVE IInv'
<1>. USE DEF IInv
<1>1. PICK e \in Events, h \in Handlers :
        /\ ready # <<>> /\ ready[1] = <<"handler", e, h>> /\ 1 \in DOMAIN ready /\ Head(ready) = ready[1]
        /\ e = Event /\ h = Handler /\ <<"handler", e, h>> \in Tasks
  BY HeadIs, EntryKinds DEF RunMessageHandler, Ready, Event, Handler
<1>2. PICK k \in Keys : frame[e] # None /\ k = frame[e].key
  <2>1. frame[e] # None
    BY <1>1 DEF Arrived
  <2>2. frame[e] \in Frames
    BY <2>1 DEF TypeOK
  <2>. QED BY <2>1, <2>2, FramesAssumption
<1>. DEFINE task == <<"handler", e, h>>
            S == {<<"load", k, "start">>}
<1>3. /\ Sealed(frame[e])
      /\ GetKey(task, k, Tail(ready))
      /\ content' = [content EXCEPT ![e] = Revealed(Immediate(k))]
      /\ Calls(e, h, Immediate(k))
      /\ UNCHANGED <<table, frame, dispatched, read, cacheEnabled, cancelled, answered, lost, cached>>
  BY <1>1, <1>2 DEF RunMessageHandler, Rest, answerVars, Sealed
<1>4. /\ Moves(ready, ready', 1, S)
      /\ retrieval' \in [Keys -> {"none"} \cup Pending \cup Over]
      /\ waiters' \in [Keys -> Seq(Tasks)]
      /\ \A l \in Keys : waiters'[l] # <<>> => retrieval'[l] \in Pending
      /\ \A l \in Keys : retrieval'[l] = "ok" => retrieval[l] = "ok"
      /\ \A l \in Keys : retrieval[l] \in {"running", "due"} => retrieval'[l] = retrieval[l]
      /\ IF Immediate(k) = "wait"
         THEN ~InCache(k) /\ waiters' = [waiters EXCEPT ![k] = Append(waiters[k], task)]
         ELSE waiters' = waiters /\ Immediate(k) \in Over
      /\ Immediate(k) = "ok" => InCache(k) \/ retrieval[k] = "ok"
  <2>. DEFINE d == 1
  <2>1. d \in {0, 1} /\ GetKey(task, k, Queue(ready, d)) /\ task \in Tasks
    BY <1>1, <1>3, QueueIs
  <2>. HIDE DEF d
  <2>2. /\ Moves(ready, ready', d, S)
        /\ retrieval' \in [Keys -> {"none"} \cup Pending \cup Over]
        /\ waiters' \in [Keys -> Seq(Tasks)]
        /\ \A l \in Keys : waiters'[l] # <<>> => retrieval'[l] \in Pending
        /\ \A l \in Keys : retrieval'[l] = "ok" => retrieval[l] = "ok"
        /\ \A l \in Keys : retrieval[l] \in {"running", "due"} => retrieval'[l] = retrieval[l]
        /\ IF Immediate(k) = "wait"
           THEN ~InCache(k) /\ waiters' = [waiters EXCEPT ![k] = Append(waiters[k], task)]
           ELSE waiters' = waiters /\ Immediate(k) \in Over
        /\ Immediate(k) = "ok" => InCache(k) \/ retrieval[k] = "ok"
    <3>. HIDE DEF task
    <3>. QED BY <1>1, <2>1, AsksForKey
  <2>. QED BY <2>2 DEF d
<1>5. \A x \in S : x[1] = "load"
  OBVIOUS
<1>. HIDE DEF S
<1>6. TypeOK'
  <2>1. ready' \in Seq(Entries)
    BY <1>4 DEF Moves
  <2>2. begun' \in [Events -> SUBSET UserHandlers] /\ missed' \in [Events -> SUBSET Handlers]
    BY <1>3, CallsTyped
  <2>3. content' \in [Events -> {"empty", "cipher", "clear"}]
    BY <1>1, <1>3 DEF TypeOK, Revealed
  <2>. QED BY <1>3, <1>4, <2>1, <2>2, <2>3 DEF TypeOK
<1>7. TablesHold'
  BY <1>3, TablesSame
<1>8. \A x \in Events : x # e => begun'[x] = begun[x] /\ missed'[x] = missed[x] /\ content'[x] = content[x]
  BY <1>3, CallsTyped DEF TypeOK
<1>9. content'[e] = Revealed(Immediate(k))
  BY <1>3 DEF TypeOK
<1>10. Arrived'
  <2>1. \A x \in Events : frame'[x] = None
            => dispatched'[x] = <<>> /\ begun'[x] = {} /\ missed'[x] = {} /\ content'[x] = "empty"
    BY <1>2, <1>3, <1>8 DEF Arrived
  <2>2. \A l \in Keys : \A t \in Tasks : t \in ToSet(waiters'[l])
            => Waits(t, l) \/ (t = task /\ l = k)
    <3>. HIDE DEF task
    <3>1. CASE waiters' = waiters
      BY <3>1 DEF Waits
    <3>2. CASE waiters' = [waiters EXCEPT ![k] = Append(waiters[k], task)]
      BY <1>1, <3>2, WaitersAdded DEF task
    <3>. QED BY <1>4, <3>1, <3>2
  <2>3. /\ frame[task[2]] # None /\ frame[task[2]].key = k /\ Sealed(frame[task[2]])
    BY <1>2, <1>3
  <2>4. \A l \in Keys : \A t \in Tasks :
          t \in ToSet(waiters'[l]) => 
               \/ Waits(t, l)
               \/ /\ frame[t[2]] # None /\ frame[t[2]].key = l
                  /\ t[1] = "handler" => Sealed(frame[t[2]])
    BY <2>2, <2>3
  <2>. QED BY <1>3, <1>4, <1>5, <2>1, <2>4, ArrivedKept
<1>11. cacheEnabled /\ Immediate(k) = "ok" => k \in cached
  BY <1>4 DEF InCache, SuccessIsCached
<1>12. SuccessIsCached'
  <2>1. \A x \in Events : frame[x] = None => content'[x] = "empty"
    BY <1>2, <1>8 DEF Arrived
  <2>2. \A t \in Tasks : <<"wake", t, "ok">> \notin S
    BY <1>5
  <2>3. cacheEnabled => \A x \in Events :
          content'[x] = "clear" /\ frame[x] # None /\ Sealed(frame[x])
              => content[x] = "clear" \/ frame[x].key \in cached'
    BY <1>2, <1>3, <1>8, <1>9, <1>11 DEF Revealed
  <2>. QED BY <1>3, <1>4, <2>1, <2>2, <2>3, SuccessKept
<1>13. AnswersAwaited' /\ KeyComesFirst'
  <2>1. AnswersAwaited'
    BY <1>3, <1>4, AnswersKept
  <2>. QED BY <1>1, <1>3, <1>4, <1>5, <2>1, StillFirst, SMTT(30)
<1>14. SeenOnce'
  BY <1>3, <1>4, <1>5, StillOnce
<1>15. ASSUME NEW x \in Events, x # e PROVE BlockHolds(x)'
  <2>1. \A g \in Handlers : <<"handler", x, g>> \in Tasks /\ <<"handler", x, g>> # task
    BY <1>15, EntryMembers
  <2>2. ASSUME NEW l \in Keys, NEW g \in Handlers
        PROVE {q \in DOMAIN waiters'[l] : waiters'[l][q] = <<"handler", x, g>>}
                  = {q \in DOMAIN waiters[l] : waiters[l][q] = <<"handler", x, g>>}
    <3>. HIDE DEF task
    <3>1. CASE waiters' = waiters
      BY <3>1
    <3>2. CASE waiters' = [waiters EXCEPT ![k] = Append(waiters[k], task)]
      BY <1>1, <2>1, <3>2, WaitersAdded DEF task
    <3>. QED BY <1>4, <3>1, <3>2
  <2>3. SameRuns(x, 1, S)
    BY <1>1, <1>3, <1>4, <1>5, <1>8, <1>15, <2>2 DEF SameRuns, Past
  <2>. QED BY <2>3, BlockKept
<1>16. BlockHolds(e)'
  <2>1. VerbsFirst(e) /\ InSequence(e) /\ \E b : InBlock(e, b)
    BY <1>1, BlocksHold DEF BlockHolds
  <2>2. PICK b : InBlock(e, b)
    BY <2>1
  <2>3. dispatched'[e] = dispatched[e]
    BY <1>3
  <2>4. \A g \in Handlers, l \in Keys : Waits(<<"handler", e, g>>, l) => l = k
    <3>1. \A g \in Handlers : <<"handler", e, g>> \in Tasks
      BY EntryMembers
    <3>. QED BY <1>2, <3>1 DEF Arrived
  <2>5. Clean(e, S)
    BY <1>5 DEF Clean
  <2>6. InSequence(e)' /\ \E c \in Int : InBlock(e, c)'
    <3>1. CASE Immediate(k) = "wait"
      <4>1. ~InCache(k)'
        BY <1>3, <1>4, <3>1 DEF InCache
      <4>2. /\ waiters' = [waiters EXCEPT ![k] = Append(waiters[k], <<"handler", e, h>>)]
            /\ Past(e)' = Past(e)
        BY <1>3, <1>4, <3>1, CallsTyped DEF Over
      <4>. QED BY <1>1, <1>4, <2>1, <2>2, <2>3, <2>4, <2>5, <4>1, <4>2, StartsToWait
    <3>2. CASE Immediate(k) # "wait"
      <4>1. waiters' = waiters /\ Past(e)' = Past(e) \cup {h}
        BY <1>3, <1>4, <3>2, CallsTyped
      <4>2. ASSUME NEW g \in Handlers, NEW l \in Keys, Waits(<<"handler", e, g>>, l) PROVE FALSE
        <5>1. l = k /\ waiters[k] # <<>>
          BY <2>4, <4>2, EmptySeq DEF Waits, ToSet
        <5>2. retrieval[k] \in Pending
          BY <5>1 DEF TypeOK
        <5>3. ~InCache(k)
          BY <1>1, <2>2, <4>2, <5>1, HandlerAtHead
        <5>. QED BY <3>2, <5>2, <5>3 DEF Immediate, Pending, Over
      <4>. QED BY <1>1, <1>4, <2>1, <2>2, <2>3, <2>5, <4>1, <4>2, Begins
    <3>. QED BY <3>1, <3>2
  <2>7. VerbsFirst(e)'
    BY <2>1, <2>3 DEF VerbsFirst
  <2>. QED BY <2>6, <2>7 DEF BlockHolds
<1>17. Blocks'
  BY <1>15, <1>16, BlocksHold
<1>. QED BY <1>6, <1>7, <1>10, <1>12, <1>13, <1>14, <1>17

(* A retrieval ends and wakes those who wait for it.                       *)
LEMMA FinishLoadStep == ASSUME IInv, FinishLoad PROVE IInv'
<1>. USE DEF IInv
<1>0. PICK k \in Keys :
        /\ ready # <<>> /\ ready[1][1] = "load" /\ 1 \in DOMAIN ready
        /\ k = Head(ready)[2]
  BY LoadAtHead DEF FinishLoad
<1>1. PICK o \in Over :
        /\ ready # <<>> /\ ready[1][1] = "load" /\ 1 \in DOMAIN ready
        /\ retrieval' = [retrieval EXCEPT ![k] = o]
        /\ lost' = IF k \in answered /\ o # "ok" THEN lost \cup {k} ELSE lost
        /\ Store(k, o)
        /\ Wakes(k, o)
  BY <1>0 DEF FinishLoad, Outcomes, Over
<1>. DEFINE ws == waiters[k]
            new == [i \in DOMAIN ws |-> <<"wake", ws[i], o>>]
            S == {<<"wake", t, o>> : t \in ToSet(ws)}
            n == Len(ready)
<1>2. /\ retrieval' = [retrieval EXCEPT ![k] = o]
      /\ cached' = IF o = "ok" /\ cacheEnabled THEN cached \cup {k} ELSE cached
      /\ ready' = Tail(ready) \o new
      /\ waiters' = [waiters EXCEPT ![k] = <<>>]
      /\ cancelled' = cancelled \ {k} /\ answered' = answered \ {k}
      /\ UNCHANGED <<table, frame, dispatched, begun, missed, content, read, cacheEnabled>>
  BY <1>0, <1>1 DEF FinishLoad, Store, Wakes, Rest, eventVars
<1>3. /\ ws \in Seq(Tasks) /\ waiters'[k] = <<>> /\ \A l \in Keys : l # k
             => waiters'[l] = waiters[l]
  BY <1>2 DEF TypeOK
<1>4. \A i \in DOMAIN ws : ws[i] \in ToSet(ws) /\ ws[i] \in Tasks
  BY <1>3, LenProperties DEF ToSet
<1>5. /\ new \in Seq(S) /\ Len(new) = Len(ws) /\ DOMAIN new = DOMAIN ws
      /\ \A i \in DOMAIN ws : new[i] = <<"wake", ws[i], o>>
  <2>1. /\ DOMAIN new = DOMAIN ws /\ new = [i \in DOMAIN ws |-> new[i]]
        /\ \A i \in DOMAIN ws : new[i] = <<"wake", ws[i], o>>
    OBVIOUS
  <2>2. \A i \in DOMAIN ws : new[i] \in S
    BY <1>4, <2>1
  <2>. HIDE DEF new, S, ws
  <2>. QED BY <1>3, <2>1, <2>2, Mapped
<1>6. S \in SUBSET Entries
  <2>1. \A t \in ToSet(ws) : t \in Tasks
    BY <1>4 DEF ToSet
  <2>. QED BY <2>1, EntryMembers
<1>7. /\ Moves(ready, ready', 1, S) /\ Len(ready') = n - 1 + Len(ws)
      /\ \A j \in DOMAIN ws : ready'[n - 1 + j] = <<"wake", ws[j], o>>
  <2>. HIDE DEF S, new, ws
  <2>1. ready \in Seq(Entries)
    BY DEF TypeOK
  <2>. DEFINE d == 1
              s == Queue(ready, d) \o new
  <2>2. /\ Moves(ready, s, d, S) /\ Len(s) = n - d + Len(new)
        /\ \A j \in DOMAIN new : s[n - d + j] = new[j]
    <3>1. d \in {0, 1}
      OBVIOUS
    <3>. HIDE DEF d
    <3>. QED BY <1>1, <1>5, <1>6, <2>1, <3>1, Extended, ZenonT(60)
  <2>3. ready' = s
    BY <1>2, QueueIs
  <2>. HIDE DEF s
  <2>. QED BY <1>5, <2>2, <2>3
<1>8. \A x \in S : x[1] = "wake" /\ x[2] \in ToSet(ws) /\ x[2] \in Tasks /\ x = <<"wake", x[2], o>>
  BY <1>4 DEF ToSet
<1>9. \A t \in Tasks : t \in ToSet(ws) => frame[t[2]] # None /\ frame[t[2]].key = k
  BY DEF Arrived, Waits
<1>10. WakesAll(k, o)
  BY <1>1, <1>3, <1>7 DEF WakesAll
<1>. HIDE DEF S, new, ws
<1>11. TypeOK'
  <2>1. ready' \in Seq(Entries)
    BY <1>7 DEF Moves
  <2>2. /\ retrieval' \in [Keys -> {"none"} \cup Pending \cup Over] /\ cached' \subseteq Keys
        /\ cancelled' \subseteq Keys /\ answered' \subseteq Keys /\ lost' \subseteq Keys
    BY <1>1, <1>2 DEF TypeOK
  <2>3. waiters' \in [Keys -> Seq(Tasks)]
    BY <1>2, EmptySeq DEF TypeOK
  <2>4. \A l \in Keys : waiters'[l] # <<>> => retrieval'[l] \in Pending
    BY <1>2, <1>3 DEF TypeOK
  <2>. QED BY <1>2, <2>1, <2>2, <2>3, <2>4 DEF TypeOK
<1>12. TablesHold'
  BY <1>2, TablesSame
<1>13. Arrived'
  <2>1. \A x \in Events : frame'[x] = None
            => dispatched'[x] = <<>> /\ begun'[x] = {} /\ missed'[x] = {} /\ content'[x] = "empty"
    BY <1>2 DEF Arrived
  <2>2. \A l \in Keys : \A t \in Tasks : t \in ToSet(waiters'[l]) => Waits(t, l)
    <3>1. ToSet(<<>>) = {}
      BY DEF ToSet
    <3>. QED BY <1>3, <3>1 DEF Waits
  <2>3. \A x \in S : /\ x[1] \in {"event", "handler"} => frame'[x[2]] # None
                     /\ x[1] = "wake" => frame'[x[2][2]] # None
    BY <1>2, <1>8, <1>9
  <2>. QED BY <1>2, <1>7, <2>1, <2>2, <2>3, ArrivedKept
<1>14. SuccessIsCached'
  <2>1. \A x \in Events : frame[x] = None => content'[x] = "empty"
    BY <1>2 DEF Arrived
  <2>2. cacheEnabled => \A t \in Tasks :
          <<"wake", t, "ok">> \in S => frame[t[2]] # None /\ frame[t[2]].key \in cached'
    <3>. SUFFICES ASSUME cacheEnabled, NEW t \in Tasks, <<"wake", t, "ok">> \in S
         PROVE frame[t[2]] # None /\ frame[t[2]].key \in cached'
      OBVIOUS
    <3>1. t \in ToSet(ws) /\ o = "ok"
      BY <1>8
    <3>. QED BY <1>2, <1>9, <3>1
  <2>3. cacheEnabled => \A l \in Keys : retrieval'[l] = "ok"
            => retrieval[l] = "ok" \/ l \in cached'
    BY <1>2 DEF TypeOK
  <2>4. cached \subseteq cached'
    BY <1>2
  <2>. QED BY <1>2, <1>7, <2>1, <2>2, <2>3, <2>4, SuccessKept
<1>15. AnswersAwaited' /\ KeyComesFirst'
  <2>1. AnswersAwaited'
    BY <1>2, AnswersKept DEF TypeOK
  <2>2. \A x \in S : x[1] # "handler"
    BY <1>8
  <2>3. cacheEnabled => \A l \in cached \cup answered \cup lost : l \in cached' \cup answered' \cup lost'
    BY <1>1, <1>2
  <2>. QED BY <1>2, <1>7, <2>1, <2>2, <2>3, StillFirst
<1>16. SeenOnce'
  <2>1. \A x \in S : ~(x[1] = "event" /\ x[3] = Internal)
    BY <1>8
  <2>. QED BY <1>2, <1>7, <2>1, StillOnce
<1>17. ASSUME NEW e \in Events PROVE BlockHolds(e)'
  <2>1. dispatched'[e] = dispatched[e] /\ Past(e)' = Past(e)
    BY <1>2 DEF Past
  <2>2. CASE \A h \in Handlers : ~Waits(<<"handler", e, h>>, k)
    <3>1. SameRuns(e, 1, {<<"wake", t, o>> : t \in ToSet(waiters[k])})
      BY <1>10, <2>1, <2>2, WakesNone
    <3>. QED BY <3>1, BlockKept
  <2>3. CASE \E h \in Handlers : Waits(<<"handler", e, h>>, k)
    <3>1. VerbsFirst(e) /\ InSequence(e) /\ \E b : InBlock(e, b)
      BY BlocksHold DEF BlockHolds
    <3>2. PICK b : InBlock(e, b)
      BY <3>1
    <3>3. InSequence(e)' /\ \E c \in Int : InBlock(e, c)'
      BY <1>10, <2>1, <2>3, <3>1, <3>2, WakesSome
    <3>4. VerbsFirst(e)'
      BY <2>1, <3>1 DEF VerbsFirst
    <3>. QED BY <3>3, <3>4 DEF BlockHolds
  <2>. QED BY <2>2, <2>3
<1>18. Blocks'
  BY <1>17, BlocksHold
<1>. QED BY <1>11, <1>12, <1>13, <1>14, <1>15, <1>16, <1>18

(* One of them resumes.                                                    *)
LEMMA WakeUpStep == ASSUME IInv, WakeUp PROVE IInv'
<1>. USE DEF IInv
<1>1. PICK t \in Tasks, o \in Over :
        /\ ready # <<>> /\ ready[1] = <<"wake", t, o>> /\ 1 \in DOMAIN ready
        /\ t = Head(ready)[2] /\ o = Head(ready)[3]
  BY HeadIs, EntryKinds DEF WakeUp, Ready
<1>2. PICK e \in Events : e = t[2]
  BY TaskKinds
<1>3. frame[e] # None /\ (cacheEnabled /\ o = "ok" => frame[e].key \in cached)
  BY <1>1, <1>2 DEF Arrived, SuccessIsCached, ToSet
<1>4. /\ \E k : retrieval' = IF retrieval[k] \in Over THEN [retrieval EXCEPT ![k] = "none"] ELSE retrieval
      /\ \/ t[1] = "handler" /\ Decrypted(e, t[3], o) /\ UNCHANGED read
         \/ /\ t[1] = "read"
            /\ read' = [read EXCEPT ![e] = "over"]
            /\ UNCHANGED <<content, begun, missed>>
      /\ UNCHANGED <<table, frame, dispatched, cacheEnabled, waiters, cancelled, answered, lost, cached>>
  BY <1>1, <1>2 DEF WakeUp, answerVars
<1>5. Moves(ready, ready', 1, {})
  <2>1. ready' = Queue(ready, 1) /\ ready \in Seq(Entries)
    BY QueueIs DEF WakeUp, Rest, TypeOK
  <2>. QED BY <1>1, <2>1, Kept
<1>6. /\ retrieval' \in [Keys -> {"none"} \cup Pending \cup Over]
      /\ \A l \in Keys : retrieval'[l] = retrieval[l] \/ (retrieval'[l] = "none" /\ retrieval[l] \in Over)
  BY <1>4, ZenonT(60) DEF TypeOK
<1>7. \/ /\ t[1] = "handler" /\ t[3] \in Handlers /\ t = <<"handler", e, t[3]>>
         /\ content' = content \/ (o = "ok" /\ content' = [content EXCEPT ![e] = "clear"])
         /\ Calls(e, t[3], o)
         /\ read' = read
      \/ /\ t[1] = "read"
         /\ read' = [read EXCEPT ![e] = "over"]
         /\ UNCHANGED <<content, begun, missed>>
  BY <1>2, <1>4, TaskKinds DEF Decrypted, Revealed
<1>8. TypeOK'
  <2>1. ready' \in Seq(Entries)
    BY <1>5 DEF Moves
  <2>2. begun' \in [Events -> SUBSET UserHandlers] /\ missed' \in [Events -> SUBSET Handlers]
    <3>1. CASE UNCHANGED <<begun, missed>>
      BY <3>1 DEF TypeOK
    <3>. QED BY <1>7, <3>1, CallsTyped
  <2>3. content' \in [Events -> {"empty", "cipher", "clear"}] /\ read' \in [Events -> {"none", "wait", "over"}]
    BY <1>7 DEF TypeOK
  <2>4. \A k \in Keys : waiters'[k] # <<>> => retrieval'[k] \in Pending
    BY <1>4, <1>6 DEF TypeOK, Pending, Over
  <2>. QED BY <1>4, <1>6, <2>1, <2>2, <2>3, <2>4 DEF TypeOK
<1>9. TablesHold'
  BY <1>4, TablesSame
<1>10. \A x \in Events : x # e => begun'[x] = begun[x] /\ missed'[x] = missed[x] /\ content'[x] = content[x]
  BY <1>7, CallsTyped DEF TypeOK
<1>11. Arrived'
  <2>2. \A x \in Events : frame'[x] = None
            => dispatched'[x] = <<>> /\ begun'[x] = {} /\ missed'[x] = {} /\ content'[x] = "empty"
    BY <1>3, <1>4, <1>10 DEF Arrived
  <2>3. \A k \in Keys : \A u \in Tasks : u \in ToSet(waiters'[k]) => Waits(u, k)
    BY <1>4 DEF Waits
  <2>. QED BY <1>4, <1>5, <2>2, <2>3, ArrivedKept
<1>12. SuccessIsCached'
  <2>1. \A x \in Events : frame[x] = None => content'[x] = "empty"
    BY <1>3, <1>10 DEF Arrived
  <2>2. cacheEnabled => \A x \in Events :
          content'[x] = "clear" /\ frame[x] # None /\ Sealed(frame[x])
              => content[x] = "clear" \/ frame[x].key \in cached'
    BY <1>3, <1>4, <1>7, <1>10 DEF TypeOK
  <2>3. \A l \in Keys : retrieval'[l] = "ok" => retrieval[l] = "ok"
    BY <1>6
  <2>. QED BY <1>4, <1>5, <2>1, <2>2, <2>3, SuccessKept
<1>13. AnswersAwaited' /\ KeyComesFirst'
  <2>1. \A l \in Keys : retrieval[l] \in {"running", "due"} => retrieval'[l] = retrieval[l]
    BY <1>6 DEF Over
  <2>2. AnswersAwaited'
    BY <1>4, <2>1, AnswersKept
  <2>. QED BY <1>1, <1>4, <1>5, <2>2, StillFirst
<1>14. SeenOnce'
  BY <1>4, <1>5, StillOnce
<1>15. ASSUME NEW x \in Events, x # e \/ t[1] = "read" PROVE BlockHolds(x)'
  <2>1. Past(x)' = Past(x)
    BY <1>7, <1>10, <1>15 DEF Past
  <2>2. \A h \in Handlers, u \in Over : ready[1] # <<"wake", <<"handler", x, h>>, u>>
    BY <1>1, <1>2, <1>15
  <2>3. SameRuns(x, 1, {})
    BY <1>1, <1>4, <1>5, <2>1, <2>2 DEF SameRuns
  <2>. QED BY <2>3, BlockKept
<1>16. ASSUME t[1] = "handler" PROVE BlockHolds(e)'
  <2>1. PICK h \in Handlers : t = <<"handler", e, h>> /\ Past(e)' = Past(e) \cup {h}
    BY <1>7, <1>16, CallsTyped
  <2>2. VerbsFirst(e) /\ InSequence(e) /\ \E b : InBlock(e, b)
    BY BlocksHold DEF BlockHolds
  <2>3. PICK b : InBlock(e, b)
    BY <2>2
  <2>4. dispatched'[e] = dispatched[e] /\ waiters' = waiters /\ ready[1] = <<"wake", <<"handler", e, h>>, o>>
    BY <1>1, <1>4, <2>1
  <2>5. InSequence(e)' /\ \E c \in Int : InBlock(e, c)'
    BY <1>1, <1>5, <2>1, <2>2, <2>3, <2>4, Resumes
  <2>6. VerbsFirst(e)'
    BY <2>2, <2>4 DEF VerbsFirst
  <2>. QED BY <2>5, <2>6 DEF BlockHolds
<1>17. Blocks'
  <2>1. t[1] \in {"handler", "read"}
    BY TaskKinds
  <2>. QED BY <1>15, <1>16, <2>1, BlocksHold
<1>. QED BY <1>8, <1>9, <1>11, <1>12, <1>13, <1>14, <1>17

(* A block of handlers behind a queue.                                     *)
LEMMA BlockBehind ==
    ASSUME NEW q \in Seq(Entries), NEW e \in Events, NEW hs \in Seq(Handlers)
    PROVE  LET s == q \o EntriesFor("handler", e, hs) IN
           /\ s \in Seq(Entries) /\ Len(s) = Len(q) + Len(hs) /\ DOMAIN s = 1 .. Len(q) + Len(hs)
           /\ \A i \in 1 .. Len(q) : s[i] = q[i]
           /\ \A i \in DOMAIN hs : s[Len(q) + i] = <<"handler", e, hs[i]>> /\ hs[i] \in Handlers
           /\ \A i \in DOMAIN s : i <= Len(q) \/ i - Len(q) \in DOMAIN hs
<1>. DEFINE new == EntriesFor("handler", e, hs)
            s == q \o new
<1>1. /\ new \in Seq(Entries) /\ Len(new) = Len(hs) /\ DOMAIN new = DOMAIN hs
      /\ DOMAIN hs = 1 .. Len(hs) /\ Len(hs) \in Nat
      /\ \A i \in DOMAIN hs : new[i] = <<"handler", e, hs[i]>> /\ hs[i] \in Handlers
  <2>1. /\ new = [i \in DOMAIN hs |-> <<"handler", e, hs[i]>>]
        /\ \A i \in DOMAIN hs : hs[i] \in Handlers
        /\ DOMAIN hs = 1 .. Len(hs) /\ Len(hs) \in Nat
    BY LenProperties DEF EntriesFor
  <2>2. /\ DOMAIN new = DOMAIN hs /\ new = [i \in DOMAIN hs |-> new[i]]
        /\ \A i \in DOMAIN hs : new[i] = <<"handler", e, hs[i]>>
    BY <2>1
  <2>3. \A i \in DOMAIN hs : new[i] \in Entries
    BY <2>1, <2>2, EntryMembers
  <2>. HIDE DEF new
  <2>. QED BY <2>1, <2>2, <2>3, Mapped
<1>. HIDE DEF new
<1>2. Len(q) \in Nat /\ DOMAIN q = 1 .. Len(q)
  BY LenProperties
<1>3. /\ s \in Seq(Entries) /\ Len(s) = Len(q) + Len(hs) /\ DOMAIN s = 1 .. Len(q) + Len(hs)
      /\ \A i \in DOMAIN s : s[i] = IF i <= Len(q) THEN q[i] ELSE new[i - Len(q)]
  <2>1. /\ s \in Seq(Entries) /\ Len(s) = Len(q) + Len(new) /\ DOMAIN s = 1 .. Len(q) + Len(new)
        /\ \A i \in DOMAIN s : s[i] = IF i <= Len(q) THEN q[i] ELSE new[i - Len(q)]
    BY <1>1, Concatenation, ZenonT(60)
  <2>. HIDE DEF s
  <2>. QED BY <1>1, <2>1
<1>. HIDE DEF s
<1>4. \A i \in 1 .. Len(q) : s[i] = q[i]
  BY <1>1, <1>2, <1>3
<1>5. ASSUME NEW i \in DOMAIN hs PROVE s[Len(q) + i] = <<"handler", e, hs[i]>>
  <2>1. Len(q) + i \in DOMAIN s /\ ~(Len(q) + i <= Len(q)) /\ Len(q) + i - Len(q) = i
    BY <1>1, <1>2, <1>3
  <2>. QED BY <1>1, <1>3, <2>1
<1>6. \A i \in DOMAIN s : i <= Len(q) \/ i - Len(q) \in DOMAIN hs
  BY <1>1, <1>2, <1>3
<1>. QED BY <1>1, <1>3, <1>4, <1>5, <1>6 DEF s, new

(* What ConversationClient adds to the queue: the handlers of the activity. *)
Added(e) == {<<"handler", e, h>> : h \in Handlers}

LEMMA QueuedByDispatch ==
    ASSUME NEW r \in Seq(Entries), r # <<>>, NEW e \in Events, NEW hs \in Seq(Handlers)
    PROVE  LET s == Tail(r) \o EntriesFor("handler", e, hs) IN
           /\ Moves(r, s, 1, Added(e))
           /\ Len(r) - 1 \in Nat /\ Len(s) = Len(r) - 1 + Len(hs)
           /\ \A i \in 1 .. Len(r) - 1 : s[i] \in ToSet(r)
           /\ \A i \in DOMAIN hs : s[Len(r) - 1 + i] = <<"handler", e, hs[i]>>
<1>. DEFINE n == Len(r)
            t == Tail(r)
            s == t \o EntriesFor("handler", e, hs)
<1>1. n \in Nat /\ DOMAIN r = 1 .. n /\ n >= 1
  BY EmptySeq, LenProperties
<1>2. /\ t \in Seq(Entries) /\ Len(t) = n - 1
      /\ \A i \in 1 .. n - 1 : t[i] = r[i + 1]
  <2>1. /\ Queue(r, 1) \in Seq(Entries) /\ Len(Queue(r, 1)) = n - 1
        /\ \A i \in 1 .. n - 1 : Queue(r, 1)[i] = r[i + 1]
    BY <1>1, QueueProperties
  <2>. QED BY <2>1, QueueIs
<1>. HIDE DEF t
<1>3. /\ s \in Seq(Entries) /\ Len(s) = Len(t) + Len(hs) /\ DOMAIN s = 1 .. Len(t) + Len(hs)
      /\ \A i \in 1 .. Len(t) : s[i] = t[i]
      /\ \A i \in DOMAIN hs : s[Len(t) + i] = <<"handler", e, hs[i]>> /\ hs[i] \in Handlers
      /\ \A i \in DOMAIN s : i <= Len(t) \/ i - Len(t) \in DOMAIN hs
  BY <1>2, BlockBehind
<1>. HIDE DEF s
<1>. HIDE DEF n
<1>4. Len(hs) \in Nat
  BY LenProperties
<1>5. ASSUME NEW i \in 1 .. n - 1 PROVE s[i] = r[i + 1] /\ s[i] \in ToSet(r)
  <2>1. i + 1 \in DOMAIN r
    BY <1>1
  <2>. QED BY <1>2, <1>3, <2>1 DEF ToSet
<1>6. Moves(r, s, 1, Added(e))
  <2>1. ASSUME NEW i \in DOMAIN s, i <= n - 1 PROVE s[i] = r[i + 1]
    BY <1>1, <1>2, <1>3, <1>4, <1>5, <2>1
  <2>2. ASSUME NEW i \in DOMAIN s, ~(i <= n - 1) PROVE s[i] \in Added(e)
    <3>1. i - Len(t) \in DOMAIN hs /\ Len(t) + (i - Len(t)) = i
      BY <1>1, <1>2, <1>3, <1>4, <2>2
    <3>2. s[i] = <<"handler", e, hs[i - Len(t)]>> /\ hs[i - Len(t)] \in Handlers
      BY <1>3, <3>1
    <3>. QED BY <3>2 DEF Added
  <2>3. n - 1 <= Len(s)
    BY <1>1, <1>2, <1>3, <1>4
  <2>. QED BY <1>1, <1>3, <2>1, <2>2, <2>3 DEF Moves, n
<1>. QED BY <1>1, <1>2, <1>3, <1>5, <1>6 DEF n, t, s

(* The dispatch of an activity, or of nothing.                             *)
LEMMA DispatchIs ==
    ASSUME TypeOK, TablesHold, NEW e \in Events, NEW q \in Seq(Entries), frame[e] \in Frames,
           dispatched[e] = <<>>, Dispatch(e, q)
    PROVE  /\ dispatched' \in [Events -> Seq(Handlers)]
           /\ \A x \in Events : x # e => dispatched'[x] = dispatched[x]
           /\ ready' = q \o EntriesFor("handler", e, dispatched'[e])
           /\ \A i, j \in DOMAIN dispatched'[e] :
                /\ dispatched'[e][i] = dispatched'[e][j] => i = j
                /\ Topic[dispatched'[e][i]] = "any" /\ i < j => Topic[dispatched'[e][j]] = "any"
<1>1. CASE IsActivity(frame[e]) /\ ~Fails(frame[e])
  <2>. DEFINE hs == ActivityMatching(frame[e])
  <2>1. /\ hs \in Seq(Handlers)
        /\ \A i, j \in DOMAIN hs :
             /\ hs[i] = hs[j] => i = j
             /\ Topic[hs[i]] = "any" /\ i < j => Topic[hs[j]] = "any"
    BY ActivityMatchingIs
  <2>2. /\ dispatched' = [dispatched EXCEPT ![e] = hs]
        /\ ready' = q \o EntriesFor("handler", e, dispatched'[e])
    BY <1>1 DEF Dispatch
  <2>. HIDE DEF hs
  <2>3. dispatched'[e] = hs /\ \A x \in Events : x # e => dispatched'[x] = dispatched[x]
    BY <2>2 DEF TypeOK
  <2>4. dispatched' \in [Events -> Seq(Handlers)]
    BY <2>1, <2>2 DEF TypeOK
  <2>. QED BY <2>1, <2>2, <2>3, <2>4
<1>2. CASE ~(IsActivity(frame[e]) /\ ~Fails(frame[e]))
  <2>1. dispatched' = dispatched /\ ready' = q
    BY <1>2 DEF Dispatch
  <2>. DEFINE hs == <<>>
  <2>2. dispatched'[e] = hs /\ hs \in Seq(Handlers) /\ DOMAIN hs = {}
    BY <2>1, EmptySeq
  <2>. HIDE DEF hs
  <2>3. q \o EntriesFor("handler", e, hs) = q
    <3>1. EntriesFor("handler", e, hs) = <<>>
      BY <2>2 DEF EntriesFor
    <3>2. q \o <<>> = q
      BY ConcatEmptySeq
    <3>. QED BY <3>1, <3>2
  <2>. QED BY <2>1, <2>2, <2>3 DEF TypeOK
<1>. QED BY <1>1, <1>2

(* ConversationClient takes the key that has come and dispatches.          *)
LEMMA RunInternalHandlerStep == ASSUME IInv, RunInternalHandler PROVE IInv'
<1>. USE DEF IInv
<1>1. PICK e \in Events :
        /\ ready # <<>> /\ ready[1] = <<"event", e, Internal>> /\ 1 \in DOMAIN ready
        /\ e = Event
  BY HeadIs, EntryKinds DEF RunInternalHandler, Ready, Event, Handler
<1>2. frame[e] # None /\ frame[e] \in Frames /\ dispatched[e] = <<>>
  <2>1. frame[e] # None
    BY <1>1 DEF Arrived
  <2>2. frame[e] \in Frames
    BY <2>1 DEF TypeOK
  <2>3. dispatched[e] = <<>>
    BY <1>1 DEF SeenOnce
  <2>. QED BY <2>1, <2>2, <2>3
<1>3. PICK k \in Keys : k = frame[e].key
  BY <1>2, FramesAssumption
<1>. DEFINE t == Tail(ready)
            S == Added(e)
<1>4. ready \in Seq(Entries) /\ t \in Seq(Entries)
  <2>1. ready \in Seq(Entries)
    BY DEF TypeOK
  <2>. QED BY <1>1, <2>1, QueueProperties, QueueIs
<1>5. UNCHANGED <<table, frame, begun, missed, content, read, cacheEnabled, retrieval, waiters, cancelled>>
  BY DEF RunInternalHandler
<1>6. /\ Dispatch(e, t)
      /\ cached' = cached \/ cached' = cached \cup {k}
      /\ answered' = answered \/ (retrieval[k] \in {"running", "due"} /\ answered' = answered \cup {k})
      /\ lost' = lost \/ (lost' = lost \ {k} /\ k \in answered')
      /\ BringsKey(frame[e]) => k \in cached' \cup answered'
  <2>1. BringsNothing(frame[e]) \/ ResolvesPending(frame[e]) \/ CachesKey(frame[e])
    BY <1>1 DEF RunInternalHandler
  <2>2. CASE BringsNothing(frame[e])
    BY <1>1, <2>2, ZenonT(30) DEF BringsNothing, Rest
  <2>3. CASE ResolvesPending(frame[e])
    BY <1>1, <1>3, <2>3 DEF ResolvesPending, Rest
  <2>4. CASE CachesKey(frame[e])
    BY <1>1, <1>3, <2>4, ZenonT(30) DEF CachesKey, Rest
  <2>. QED BY <2>1, <2>2, <2>3, <2>4
<1>7. /\ dispatched' \in [Events -> Seq(Handlers)]
      /\ \A y \in Events : y # e => dispatched'[y] = dispatched[y]
      /\ ready' = t \o EntriesFor("handler", e, dispatched'[e])
      /\ \A i, j \in DOMAIN dispatched'[e] :
           /\ dispatched'[e][i] = dispatched'[e][j] => i = j
           /\ Topic[dispatched'[e][i]] = "any" /\ i < j => Topic[dispatched'[e][j]] = "any"
  BY <1>2, <1>4, <1>6, DispatchIs
<1>8. PICK hs \in Seq(Handlers) : hs = dispatched'[e]
  BY <1>7
<1>9. /\ Moves(ready, ready', 1, S)
      /\ Len(ready) - 1 \in Nat /\ Len(ready') = Len(ready) - 1 + Len(hs)
      /\ \A i \in 1 .. Len(ready) - 1 : ready'[i] \in ToSet(ready)
      /\ \A i \in DOMAIN hs : ready'[Len(ready) - 1 + i] = <<"handler", e, hs[i]>>
  <2>1. ready' = Tail(ready) \o EntriesFor("handler", e, hs)
    BY <1>7, <1>8
  <2>2. ready \in Seq(Entries) /\ ready # <<>>
    BY <1>1, <1>4
  <2>. HIDE DEF S
  <2>. QED BY <2>1, <2>2, QueuedByDispatch DEF S
<1>10. \A y \in S : y[1] = "handler" /\ y[2] = e
  BY DEF Added
<1>. HIDE DEF S, t
<1>12. TypeOK'
  <2>1. ready' \in Seq(Entries)
    BY <1>9 DEF Moves
  <2>2. cached' \subseteq Keys /\ answered' \subseteq Keys /\ lost' \subseteq Keys
    BY <1>6 DEF TypeOK
  <2>. QED BY <1>5, <1>7, <2>1, <2>2 DEF TypeOK
<1>13. TablesHold'
  BY <1>5, TablesSame
<1>14. Arrived'
  <2>1. \A y \in Events : frame'[y] = None
            => dispatched'[y] = <<>> /\ begun'[y] = {} /\ missed'[y] = {} /\ content'[y] = "empty"
    BY <1>2, <1>5, <1>7 DEF Arrived
  <2>2. \A l \in Keys : \A u \in Tasks : u \in ToSet(waiters'[l]) => Waits(u, l)
    BY <1>5 DEF Waits
  <2>3. \A y \in S : /\ y[1] \in {"event", "handler"} => frame'[y[2]] # None
                     /\ y[1] = "wake" => frame'[y[2][2]] # None
    BY <1>2, <1>5, <1>10
  <2>. QED BY <1>5, <1>9, <2>1, <2>2, <2>3, ArrivedKept
<1>15. SuccessIsCached'
  <2>1. \A y \in Events : frame[y] = None => content'[y] = "empty"
    BY <1>5 DEF Arrived
  <2>2. \A u \in Tasks : <<"wake", u, "ok">> \notin S
    BY <1>10
  <2>3. \A l \in Keys : retrieval'[l] = "ok" => retrieval[l] = "ok"
    BY <1>5
  <2>4. cached \subseteq cached'
    BY <1>6
  <2>. QED BY <1>5, <1>9, <2>1, <2>2, <2>3, <2>4, SuccessKept
<1>16. AnswersAwaited' /\ KeyComesFirst'
  <2>1. /\ Len(ready) \in Nat /\ Len(ready) >= 1 /\ DOMAIN ready = 1 .. Len(ready)
        /\ DOMAIN ready' = 1 .. Len(ready') /\ Len(ready') \in Nat /\ Len(ready) - 1 <= Len(ready')
        /\ \A i \in DOMAIN ready' : IF i <= Len(ready) - 1 THEN ready'[i] = ready[i + 1]
               ELSE ready'[i] \in S
    BY <1>9, LenProperties DEF Moves
  <2>2. AnswersAwaited'
    BY <1>5, <1>6 DEF AnswersAwaited
  <2>. SUFFICES ASSUME cacheEnabled, NEW i \in DOMAIN ready', ready'[i][1] = "handler",
                       BringsKey(frame'[ready'[i][2]])
       PROVE frame'[ready'[i][2]].key \in cached' \cup answered' \cup lost'
    BY <1>5, <2>2 DEF KeyComesFirst
  <2>3. CASE i <= Len(ready) - 1
    <3>1. i + 1 \in DOMAIN ready /\ ready'[i] = ready[i + 1]
      BY <2>1, <2>3
    <3>2. frame[ready[i + 1][2]].key \in cached \cup answered \cup lost
      BY <1>5, <3>1 DEF KeyComesFirst
    <3>. QED BY <1>5, <1>6, <3>1, <3>2
  <2>4. CASE i > Len(ready) - 1
    <3>1. ready'[i][2] = e
      BY <1>10, <2>1, <2>4
    <3>. QED BY <1>3, <1>5, <1>6, <3>1
  <2>. QED BY <2>1, <2>3, <2>4
<1>17. SeenOnce'
  <2>1. \A y \in S : ~(y[1] = "event" /\ y[3] = Internal)
    BY <1>10
  <2>2. \A y \in Events : dispatched'[y] = dispatched[y] \/ ready[1] = <<"event", y, Internal>>
    BY <1>1, <1>7
  <2>. QED BY <1>9, <2>1, <2>2, StillOnce
<1>18. ASSUME NEW y \in Events, y # e PROVE BlockHolds(y)'
  <2>1. SameRuns(y, 1, S)
    BY <1>1, <1>5, <1>7, <1>9, <1>10, <1>18 DEF SameRuns, Past
  <2>. QED BY <2>1, BlockKept
<1>19. BlockHolds(e)'
  <2>1. PICK b : InBlock(e, b)
    BY BlocksHold DEF BlockHolds
  <2>2. VerbsFirst(e)'
    BY <1>7 DEF VerbsFirst
  <2>. DEFINE m == Len(ready) - 1
  <2>3. /\ m \in Nat /\ Len(ready') = m + Len(dispatched'[e])
        /\ \A i \in 1 .. m : ready'[i] \in ToSet(ready)
        /\ Past(e)' = Past(e)
        /\ \A i \in DOMAIN dispatched'[e] : ready'[m + i] = <<"handler", e, dispatched'[e][i]>>
    BY <1>5, <1>8, <1>9 DEF Past
  <2>. HIDE DEF m
  <2>4. InSequence(e)' /\ \E c \in Int : InBlock(e, c)'
    BY <1>2, <1>5, <1>12, <2>1, <2>3, Dispatched
  <2>. QED BY <2>2, <2>4 DEF BlockHolds
<1>20. Blocks'
  BY <1>18, <1>19, BlocksHold
<1>. QED BY <1>12, <1>13, <1>14, <1>15, <1>16, <1>17, <1>20

-----------------------------------------------------------------------------
(* The theorems.                                                           *)

(* Together: the invariant is inductive.                                   *)
LEMMA Invariance == Spec => []IInv
<1>1. ASSUME IInv, [Next]_vars PROVE IInv'
  <2>1. CASE UNCHANGED vars
    <3>1. UNCHANGED <<table, ready, frame, dispatched, begun, missed, content, read, cacheEnabled, retrieval,
                     waiters, cancelled, answered, lost, cached>>
      BY <2>1 DEF vars, eventVars, kmsVars, answerVars
    <3>2. QueuesSafe'
      BY <1>1, <3>1, QueuesSame DEF IInv, QueuesSafe, eventVars, kmsVars, answerVars
    <3>3. TypeOK' /\ TablesHold'
      BY <1>1, <3>1, TablesSame DEF IInv, TypeOK
    <3>. QED BY <3>2, <3>3 DEF IInv, QueuesSafe
  <2>2. CASE Next
    <3>1. CASE UserStep
      BY <1>1, <3>1, OnStep, OffStep, ClearHandlersStep, GetMessageContentStep,
         CancelReadStep DEF UserStep
    <3>2. CASE Run
      BY <1>1, <3>2, RunRawHandlerStep, RunInternalHandlerStep, RunPlainHandlerStep,
         RunMessageHandlerStep,
         StartLoadStep, FinishLoadStep, AskAgainStep, WakeUpStep DEF Run
    <3>3. CASE \E e \in Events, f \in Frames : Arrives(e, f)
      BY <1>1, <3>3, ArrivesStep
    <3>4. CASE \E k \in Keys : LoadAnswered(k)
      BY <1>1, <3>4, LoadAnsweredStep
    <3>. QED BY <2>2, <3>1, <3>2, <3>3, <3>4 DEF Next
  <2>. QED BY <1>1, <2>1, <2>2
<1>. QED BY <1>1, Initially, PTL DEF Spec

(* Every queue, table and field keeps its type, and tasks wait only for a  *)
(* retrieval that is under way.                                            *)
THEOREM TypeCorrect == Spec => []TypeOK
BY Invariance, PTL DEF IInv

(* The handlers of one activity begin in the order of its dispatch, verb   *)
(* before wildcard and after all Mercury handlers for the event, although  *)
(* each runs in a task that waits for the key by itself, and may never be  *)
(* called if that retrieval is cancelled.                                  *)
THEOREM HandlersInOrder == Spec => []InOrder
<1>1. IInv => InOrder
  <2>. SUFFICES ASSUME IInv, NEW e \in Events
       PROVE  LET hs == dispatched[e] IN
              /\ \A i, j \in DOMAIN hs : i < j /\ hs[j] \in Past(e) => hs[i] \in Past(e)
              /\ \A i, j \in DOMAIN hs : Topic[hs[i]] = "any" /\ i < j => Topic[hs[j]] = "any"
              /\ begun[e] \cap Handlers # {} =>
                   \A i \in DOMAIN ready : ready[i][1] = "event" => ready[i][2] # e
    BY DEF InOrder
  <2>1. VerbsFirst(e) /\ InSequence(e)
    BY DEF IInv, Blocks
  <2>2. PICK b \in -Len(dispatched[e]) .. Len(ready) - Len(dispatched[e]) :
                 Queued(e, b) /\ HaveRun(e, b)
    BY DEF IInv, Blocks
  <2>3. b \in Int /\ DOMAIN dispatched[e] = 1 .. Len(dispatched[e]) /\ Len(dispatched[e]) \in Nat
        /\ DOMAIN ready = 1 .. Len(ready) /\ Len(ready) \in Nat
    BY LenProperties DEF IInv, TypeOK
  <2>4. ASSUME NEW h \in begun[e] \cap Handlers, NEW q \in DOMAIN ready, ready[q][1] = "event",
               ready[q][2] = e
        PROVE FALSE
    <3>1. PICK i \in DOMAIN dispatched[e] : b + i < 1
      BY <2>2 DEF HaveRun, Past
    <3>2. q <= b
      BY <2>2, <2>4, <3>1 DEF Queued
    <3>. QED BY <2>3, <3>1, <3>2
  <2>. QED BY <2>1, <2>4 DEF VerbsFirst, InSequence, Precedes, IsPast
<1>. QED BY <1>1, Invariance, PTL

(* With the key cache on, no handler replaces plaintext that another       *)
(* handler of the same activity has decrypted by ciphertext.               *)
THEOREM PlaintextIsKept == Spec => PlaintextStays
<1>1. ASSUME IInv, [Next]_vars, cacheEnabled, NEW e \in Events, content[e] = "clear"
      PROVE content'[e] = "clear"
  <2>1. content \in [Events -> {"empty", "cipher", "clear"}]
    BY <1>1 DEF IInv, TypeOK
  <2>2. CASE UNCHANGED content
    BY <1>1, <2>2
  <2>3. CASE RunPlainHandler
    BY <1>1, <2>1, <2>3 DEF RunPlainHandler
  <2>4. CASE RunMessageHandler
    <3>1. content' = [content EXCEPT ![Event] = Revealed(Immediate(frame[Event].key))] /\ Sealed(frame[Event])
      BY <2>4 DEF RunMessageHandler, Sealed
    <3>2. CASE Event # e
      BY <1>1, <2>1, <3>1, <3>2
    <3>3. CASE Event = e
      <4>1. frame[e].key \in cached
        BY <1>1, <3>1, <3>3 DEF IInv, SuccessIsCached
      <4>2. Revealed(Immediate(frame[e].key)) = "clear"
        BY <1>1, <4>1 DEF Revealed, Immediate, InCache
      <4>. QED BY <2>1, <3>1, <3>3, <4>2
    <3>. QED BY <3>2, <3>3
  <2>5. CASE WakeUp
    BY <1>1, <2>1, <2>5, ZenonT(60) DEF WakeUp, Decrypted, Revealed
  <2>. QED BY <1>1, <2>2, <2>3, <2>4, <2>5
       DEF Next, UserStep, Run, On, Off, ClearHandlers, GetMessageContent, CancelRead, Arrives,
       AskAgain, LoadAnswered, RunRawHandler,
           RunInternalHandler, StartLoad, FinishLoad, vars, eventVars
<1>2. IInv /\ [Next]_vars => (cacheEnabled => \A e \in Events : content[e] = "clear" => content'[e] = "clear")
  BY <1>1
<1>. QED BY <1>2, Invariance, PTL DEF Spec, PlaintextStays

(* With the key cache on, the handlers of an activity that has brought its *)
(* own key never make EncryptionClient ask KMS for it, unless a retrieval  *)
(* that was under way has taken the key and lost it.                       *)
THEOREM KeyIsUsed == Spec => KeyAlongsideIsUsed
<1>1. ASSUME IInv, [Next]_vars, cacheEnabled, Ready("handler"), BringsKey(frame[Event]), 
             frame[Event].key \notin lost, retrieval[frame[Event].key] = "none"
      PROVE  retrieval'[frame[Event].key] = "none"
  <2>1. PICK e \in Events, h \in Handlers :
          ready # <<>> /\ ready[1] = <<"handler", e, h>> /\ 1 \in DOMAIN ready /\ Head(ready) = ready[1] /\ e = Event
          /\ <<"handler", e, h>> \in Tasks
    BY <1>1, HeadIs, EntryKinds DEF IInv, Ready, Event
  <2>2. frame[e] # None /\ frame[e] \in Frames
    <3>1. frame[e] # None
      BY <1>1, <2>1 DEF IInv, Arrived
    <3>. QED BY <1>1, <3>1 DEF IInv, TypeOK
  <2>3. PICK k \in Keys : k = frame[e].key
    BY <2>2, FramesAssumption
  <2>4. InCache(k)
    <3>1. k \in cached \cup answered \cup lost
      BY <1>1, <2>1, <2>3 DEF IInv, KeyComesFirst
    <3>2. k \notin answered
      BY <1>1, <2>1, <2>3 DEF IInv, AnswersAwaited
    <3>. QED BY <1>1, <2>1, <2>3, <3>1, <3>2 DEF InCache
  <2>5. ASSUME NEW task \in Tasks, NEW l \in Keys, NEW d \in {0, 1},
               GetKey(task, l, Queue(ready, d))
        PROVE  retrieval'[k] = retrieval[k]
    BY <1>1, <2>1, <2>4, <2>5, AsksForKey DEF IInv
  <2>6. CASE UNCHANGED retrieval
    BY <1>1, <2>1, <2>3, <2>6
  <2>7. CASE RunMessageHandler
    <3>1. GetKey(<<"handler", e, h>>, k, Queue(ready, 1))
      BY <2>1, <2>3, <2>7, QueueIs DEF RunMessageHandler, Rest
    <3>. QED BY <1>1, <2>1, <2>3, <2>5, <3>1
  <2>8. ASSUME NEW x \in Events, GetMessageContent(x) PROVE retrieval'[k] = retrieval[k]
    <3>1. CASE GetKey(<<"read", x>>, frame[x].key, ready)
      <4>1. GetKey(<<"read", x>>, frame[x].key, Queue(ready, 0)) /\ <<"read", x>> \in Tasks
        BY <3>1, EntryMembers, QueueIs
      <4>2. frame[x] # None /\ frame[x] \in Frames
        BY <1>1, <2>8 DEF GetMessageContent, IInv, TypeOK
      <4>3. frame[x].key \in Keys
        BY <4>2, FramesAssumption
      <4>. QED BY <2>5, <4>1, <4>3
    <3>. QED BY <2>8, <3>1 DEF GetMessageContent
  <2>9. ASSUME NEW l \in Keys, LoadAnswered(l) PROVE retrieval'[k] = retrieval[k]
    BY <1>1, <2>1, <2>3, <2>9 DEF LoadAnswered, IInv, TypeOK
  <2>10. ~RunRawHandler /\ ~RunInternalHandler /\ ~StartLoad /\ ~FinishLoad /\ ~AskAgain /\ ~WakeUp
    BY <2>1 DEF RunRawHandler, RunInternalHandler, StartLoad, FinishLoad, AskAgain, WakeUp, Ready
  <2>11. RunPlainHandler \/ (\E x \in UserHandlers : On(x) \/ Off(x)) \/ (\E t \in MercuryTopics : ClearHandlers(t))
         \/ (\E x \in Events, f \in Frames : Arrives(x, f)) \/ (\E x \in Events : CancelRead(x)) \/ UNCHANGED vars
           => UNCHANGED retrieval
    BY DEF RunPlainHandler, On, Off, ClearHandlers, Arrives, CancelRead, vars, kmsVars
  <2>. QED BY <1>1, <2>1, <2>3, <2>6, <2>7, <2>8, <2>9, <2>10, <2>11 DEF Next, UserStep, Run
<1>. QED BY <1>1, Invariance, PTL DEF Spec, KeyAlongsideIsUsed
=============================================================================
