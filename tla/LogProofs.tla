----------------------------- MODULE LogProofs -----------------------------
(***************************************************************************)
(* Proofs about the log, for buffers and lines of every length.  There are *)
(* two inductive invariants.  OnceInv says, as long as nothing has gone    *)
(* wrong, what exactly the file and the buffer hold at each step.  TextInv *)
(* holds whatever goes wrong, until the array is overrun: the buffer holds *)
(* a text that ends within the array, file and text are in order, and      *)
(* while no call has failed nothing is missing from the two together.      *)
(***************************************************************************)
EXTENDS Log, SequenceTheorems, TLAPS

-----------------------------------------------------------------------------
(* The string functions. *)

\* s holds a text of n characters.
HasText(s, n) == /\ \A k \in 1..n : s[k] # Nul
                 /\ s[n + 1] = Nul

Buffers == [1..Memory -> Nat]
Values(s, n) == {s[k] : k \in 1..n}

\* strlen finds the first NUL.
LEMMA StrlenIs ==
  ASSUME NEW s, NEW n \in 0..Memory-1, HasText(s, n)
  PROVE  Strlen(s) = n
<1> DEFINE P(i) == /\ s[i] = Nul
                   /\ \A j \in 1..i-1 : s[j] # Nul
<1>1. n \in Nat /\ n + 1 \in 1..Memory /\ P(n + 1)
  BY MemoryAssumption DEF HasText
<1>2. ASSUME NEW i \in 1..Memory, P(i)
      PROVE  i = n + 1
  <2>1. ~(i <= n)
    BY <1>2 DEF HasText
  <2>2. ~(n + 1 < i)
    BY <1>1, <1>2
  <2> QED
    BY <1>1, <2>1, <2>2
<1>3. (CHOOSE i \in 1..Memory : P(i)) = n + 1
  <2> HIDE DEF P
  <2> QED
    BY <1>1, <1>2
<1> QED
  BY <1>1, <1>3 DEF Strlen

\* strncat puts a text behind the one that is there, if there is room.
LEMMA StrncatIs ==
  ASSUME NEW s \in Buffers, NEW n \in 0..Memory-1, HasText(s, n),
         NEW text \in Seq(Nat \ {Nul}), n + Len(text) < Memory
  PROVE  LET r == Strncat(s, text)
         IN /\ r \in Buffers
            /\ HasText(r, n + Len(text))
            /\ \A k \in 1..n : r[k] = s[k]
            /\ \A k \in 1..Len(text) : r[n + k] = text[k]
<1> DEFINE r == Strncat(s, text)
           l == Len(text)
<1>1. l \in Nat /\ DOMAIN text = 1..l /\ \A k \in 1..l : text[k] \in Nat \ {Nul}
  BY LenProperties
<1>2. r = [i \in 1..Memory |-> IF i <= n THEN s[i]
                               ELSE IF i <= n + l THEN text[i - n]
                               ELSE IF i = n + l + 1 THEN Nul
                               ELSE s[i]]
  BY StrlenIs DEF Strncat
<1> HIDE DEF l
<1>3. n \in Nat /\ n + l < Memory /\ Memory \in Nat
  BY MemoryAssumption DEF l
<1>4. \A i \in 1..Memory : n < i /\ i <= n + l => i - n \in 1..l
  BY <1>1, <1>3
<1>5. r \in Buffers
  <2>1. \A i \in 1..Memory : s[i] \in Nat /\ Nul \in Nat
    BY DEF Buffers, Nul
  <2> QED
    BY <1>1, <1>2, <1>3, <1>4, <2>1 DEF Buffers
<1>6. \A k \in 1..n : r[k] = s[k]
  BY <1>2, <1>3
<1>7. ASSUME NEW k \in 1..l
      PROVE  r[n + k] = text[k]
  <2>1. n + k \in 1..Memory /\ ~(n + k <= n) /\ n + k <= n + l /\ (n + k) - n = k
    BY <1>1, <1>3
  <2> QED
    BY <1>2, <2>1
<1>8. HasText(r, n + l)
  <2>1. r[n + l + 1] = Nul
    <3>1. n + l + 1 \in 1..Memory /\ ~(n + l + 1 <= n) /\ ~(n + l + 1 <= n + l)
      BY <1>1, <1>3
    <3> QED
      BY <1>2, <3>1
  <2>2. ASSUME NEW k \in 1..n + l
        PROVE  r[k] # Nul
    <3>1. CASE k <= n
      <4>1. k \in 1..n
        BY <1>1, <1>3, <3>1
      <4> QED
        BY <1>6, <4>1 DEF HasText
    <3>2. CASE n < k
      <4>1. k - n \in 1..l /\ n + (k - n) = k
        BY <1>1, <1>3, <3>2
      <4> QED
        BY <1>1, <1>7, <4>1
    <3> QED
      BY <1>1, <1>3, <3>1, <3>2
  <2> QED
    BY <2>1, <2>2 DEF HasText
<1> HIDE DEF r
<1> QED
  BY <1>5, <1>6, <1>7, <1>8 DEF r, l

\* memset empties the buffer.
LEMMA MemsetIs ==
  ASSUME NEW s \in Buffers
  PROVE  Memset(s) \in Buffers /\ HasText(Memset(s), 0)
<1>1. 1 \in 1..Memory /\ 1 <= LogBuffer
  BY MemoryAssumption, LogBufferAssumption
<1> QED
  BY <1>1 DEF Memset, Buffers, HasText, Nul

\* The first n characters.
LEMMA CharsAre ==
  ASSUME NEW s \in Buffers, NEW from \in 0..Memory, NEW n \in Nat, from + n <= Memory
  PROVE  LET t == SubSeq(s, from + 1, from + n)
         IN t \in Seq(Nat) /\ Len(t) = n /\ \A k \in 1..n : t[k] = s[from + k]
<1> DEFINE t == SubSeq(s, from + 1, from + n)
<1>0. Memory \in Nat /\ from \in Nat
  BY MemoryAssumption
<1>1. t = [k \in 1..n |-> s[from + k]]
  <2>1. t = [k \in 1..(1 + (from + n) - (from + 1)) |-> s[k + (from + 1) - 1]]
    BY <1>0
  <2>2. 1 + (from + n) - (from + 1) = n /\ \A k \in 1..n : k + (from + 1) - 1 = from + k
    BY <1>0
  <2> QED
    BY <2>1, <2>2
<1>2. \A k \in 1..n : from + k \in 1..Memory
  BY <1>0
<1>3. t \in [1..n -> Nat]
  BY <1>1, <1>2 DEF Buffers
<1> HIDE DEF t
<1>4. t \in Seq(Nat) /\ Len(t) = n
  BY <1>3
<1>5. \A k \in 1..n : t[k] = s[from + k]
  BY <1>1
<1> QED
  BY <1>4, <1>5 DEF t

LEMMA FirstChars ==
  ASSUME NEW s \in Buffers, NEW n \in 0..Memory
  PROVE  /\ Chars(s, n) \in Seq(Nat) /\ Len(Chars(s, n)) = n
         /\ \A k \in 1..n : Chars(s, n)[k] = s[k]
<1> DEFINE z == 0
           t == SubSeq(s, z + 1, z + n)
<1>1. /\ z \in 0..Memory /\ n \in Nat /\ z + n <= Memory /\ z + 1 = 1 /\ z + n = n
      /\ \A k \in 1..n : z + k = k
  BY MemoryAssumption
<1> HIDE DEF z
<1>2. t \in Seq(Nat) /\ Len(t) = n /\ \A k \in 1..n : t[k] = s[z + k]
  BY <1>1, CharsAre
<1>3. t = Chars(s, n)
  BY <1>1 DEF Chars
<1> QED
  BY <1>1, <1>2, <1>3

-----------------------------------------------------------------------------
(* The steps to be made.  Shape: what is appended behind LOG_BUFFER is     *)
(* written next, and what is written is cleared next; nothing else is      *)
(* written or appended without a line being printed first.                 *)

Calm(steps) == \A p \in DOMAIN steps : steps[p] \notin {"tail", "write"}

Shape(steps) ==
  \A p \in DOMAIN steps :
    /\ steps[p] = "tail" => p = 1 /\ 2 \in DOMAIN steps /\ steps[2] = "write"
    /\ steps[p] = "write" => /\ p = 1 \/ (p = 2 /\ steps[1] = "tail")
                             /\ p + 1 \in DOMAIN steps /\ steps[p + 1] = "clear"

\* What clears the buffer has written it before.
SavedFirst(steps) ==
  \A p \in DOMAIN steps : steps[p] = "clear" /\ p > 1 => steps[p - 1] \in {"write", "save"}

\* A save is followed by a clear.
ThenCleared(steps) ==
  \A p \in DOMAIN steps :
    steps[p] = "save" => p + 1 \in DOMAIN steps /\ steps[p + 1] = "clear"

\* The steps lead to the end of the process, and every line is saved before.
SavesAll(steps) ==
  /\ steps # <<>> /\ steps[Len(steps)] \in {"exit", "end"}
  /\ \A p \in DOMAIN steps :
       /\ steps[p] = "print" => \E q \in DOMAIN steps : q > p /\ steps[q] = "save"
       /\ steps[p] \in {"exit", "end"} => p = Len(steps)
Saves(steps) == \E p \in DOMAIN steps : steps[p] = "save"

\* The step that has been made is taken off.
LEMMA TailIs ==
  ASSUME NEW s \in Seq(Steps), s # <<>>
  PROVE  /\ Tail(s) \in Seq(Steps) /\ Len(s) \in Nat \ {0} /\ Len(Tail(s)) = Len(s) - 1
         /\ DOMAIN s = 1..Len(s) /\ DOMAIN Tail(s) = 1..Len(s) - 1
         /\ Head(s) = s[1] /\ Head(s) \in Steps
         /\ \A p \in 1..Len(s) - 1 : Tail(s)[p] = s[p + 1]
         /\ Tail(s) # <<>> => Len(s) > 1 /\ Head(Tail(s)) = s[2]
         /\ Len(s) > 1 => Tail(s) # <<>>
<1>1. /\ Tail(s) \in Seq(Steps) /\ Len(s) \in Nat \ {0} /\ Len(Tail(s)) = Len(s) - 1
      /\ DOMAIN s = 1..Len(s) /\ Head(s) = s[1] /\ Head(s) \in Steps
      /\ \A p \in 1..Len(s) - 1 : Tail(s)[p] = s[p + 1]
  BY HeadTailProperties, EmptySeq, LenProperties
<1>2. DOMAIN Tail(s) = 1..Len(s) - 1
  BY <1>1, LenProperties
<1>3. Tail(s) # <<>> => Len(s) > 1 /\ Head(Tail(s)) = s[2]
  <2> SUFFICES ASSUME Tail(s) # <<>>
               PROVE  Len(s) > 1 /\ Head(Tail(s)) = s[2]
    OBVIOUS
  <2>1. Len(Tail(s)) \in Nat \ {0} /\ Head(Tail(s)) = Tail(s)[1]
    BY <1>1, HeadTailProperties, EmptySeq, LenProperties
  <2> QED
    BY <1>1, <2>1
<1>4. Len(s) > 1 => Tail(s) # <<>>
  <2> DEFINE t == Tail(s)
  <2>1. Len(t) = Len(s) - 1 /\ Len(s) \in Nat
    BY <1>1
  <2> HIDE DEF t
  <2>2. t = <<>> => Len(t) = 0
    OBVIOUS
  <2>3. Len(s) > 1 => t # <<>>
    BY <2>1, <2>2
  <2> QED
    BY <2>3 DEF t
<1> QED
  BY <1>1, <1>2, <1>3, <1>4

\* Steps are put in front.
LEMMA ThenIs ==
  ASSUME NEW a \in Seq(Steps), NEW s \in Seq(Steps)
  PROVE  /\ a \o s \in Seq(Steps)
         /\ Len(a \o s) = Len(a) + Len(s) /\ Len(a) \in Nat /\ Len(s) \in Nat
         /\ DOMAIN (a \o s) = 1..Len(a) + Len(s)
         /\ DOMAIN a = 1..Len(a) /\ DOMAIN s = 1..Len(s)
         /\ \A p \in 1..Len(a) : (a \o s)[p] = a[p]
         /\ \A p \in 1..Len(s) : (a \o s)[Len(a) + p] = s[p]
         /\ \A p \in DOMAIN (a \o s) :
              \/ p \in DOMAIN a /\ (a \o s)[p] = a[p]
              \/ p > Len(a) /\ p - Len(a) \in DOMAIN s /\ (a \o s)[p] = s[p - Len(a)]
<1> DEFINE r == a \o s
<1>1. r \in Seq(Steps) /\ Len(r) = Len(a) + Len(s) /\ Len(a) \in Nat /\ Len(s) \in Nat
  BY ConcatProperties, LenProperties
<1>2. /\ DOMAIN r = 1..Len(a) + Len(s)
      /\ DOMAIN a = 1..Len(a) /\ DOMAIN s = 1..Len(s)
      /\ \A p \in 1..Len(a) : r[p] = a[p]
      /\ \A p \in 1..Len(s) : r[Len(a) + p] = s[p]
  BY <1>1, ConcatProperties, LenProperties
<1> HIDE DEF r
<1>3. ASSUME NEW p \in DOMAIN r, p > Len(a)
      PROVE  p - Len(a) \in DOMAIN s /\ r[p] = s[p - Len(a)]
  <2>1. p - Len(a) \in 1..Len(s) /\ Len(a) + (p - Len(a)) = p
    BY <1>1, <1>2, <1>3
  <2>2. r[Len(a) + (p - Len(a))] = s[p - Len(a)]
    BY <1>2, <2>1
  <2> QED
    BY <1>2, <2>1, <2>2
<1>4. ASSUME NEW p \in DOMAIN r
      PROVE  \/ p \in DOMAIN a /\ r[p] = a[p]
             \/ p > Len(a) /\ p - Len(a) \in DOMAIN s /\ r[p] = s[p - Len(a)]
  BY <1>1, <1>2, <1>3
<1> QED
  BY <1>1, <1>2, <1>4 DEF r
\* What is left to do when the first step has been made.
LEMMA PopShape ==
  ASSUME NEW s \in Seq(Steps), s # <<>>, Shape(s)
  PROVE  /\ Shape(Tail(s))
         /\ Head(s) # "tail" => Calm(Tail(s))
         /\ Head(s) = "tail" => Tail(s) # <<>> /\ Head(Tail(s)) = "write"
         /\ Head(s) = "write" => Tail(s) # <<>> /\ Head(Tail(s)) = "clear"
<1> DEFINE t == Tail(s)
<1>1. /\ Len(s) \in Nat \ {0} /\ DOMAIN s = 1..Len(s) /\ DOMAIN t = 1..Len(s) - 1
      /\ Head(s) = s[1] /\ \A p \in 1..Len(s) - 1 : t[p] = s[p + 1]
      /\ t # <<>> => Head(t) = s[2]
      /\ Len(s) > 1 => t # <<>>
  BY TailIs
<1> HIDE DEF t
<1>2. ASSUME NEW p \in DOMAIN t, t[p] \in {"tail", "write"}
      PROVE  p = 1 /\ t[p] = "write" /\ s[1] = "tail" /\ s[3] = "clear" /\ 3 \in DOMAIN s
  <2>1. p \in Nat \ {0} /\ p + 1 \in DOMAIN s /\ s[p + 1] \in {"tail", "write"}
    BY <1>1, <1>2
  <2>2. s[p + 1] = "write" /\ p + 1 = 2 /\ s[1] = "tail"
    <3>1. s[p + 1] # "tail"
      <4>1. s[p + 1] = "tail" => p + 1 = 1
        BY <2>1 DEF Shape
      <4> QED
        BY <2>1, <4>1
    <3>2. s[p + 1] = "write" => p + 1 = 1 \/ (p + 1 = 2 /\ s[1] = "tail")
      BY <2>1 DEF Shape
    <3> QED
      BY <2>1, <3>1, <3>2
  <2>3. p = 1 /\ t[p] = "write"
    BY <1>1, <2>1, <2>2
  <2>4. s[2] = "write" /\ 2 \in DOMAIN s
    BY <2>1, <2>2, <2>3
  <2>5. 2 + 1 \in DOMAIN s /\ s[2 + 1] = "clear"
    BY <2>4 DEF Shape
  <2> QED
    BY <2>2, <2>3, <2>5
<1>3. Shape(t)
  <2>1. ASSUME NEW p \in DOMAIN t, t[p] \in {"tail", "write"}
        PROVE  p = 1 /\ t[p] = "write" /\ p + 1 \in DOMAIN t /\ t[p + 1] = "clear"
    <3>1. p = 1 /\ t[p] = "write" /\ s[3] = "clear" /\ 3 \in DOMAIN s
      BY <1>2, <2>1
    <3> QED
      BY <1>1, <3>1
  <2> QED
    BY <2>1 DEF Shape
<1>4. Head(s) # "tail" => Calm(t)
  BY <1>1, <1>2 DEF Calm
<1>5. Head(s) = "tail" => t # <<>> /\ Head(t) = "write"
  <2>1. Head(s) = "tail" => 2 \in DOMAIN s /\ s[2] = "write"
    <3>1. 1 \in DOMAIN s
      BY <1>1
    <3> QED
      BY <1>1, <3>1 DEF Shape
  <2> QED
    BY <1>1, <2>1
<1>6. Head(s) = "write" => t # <<>> /\ Head(t) = "clear"
  <2>1. Head(s) = "write" => 1 + 1 \in DOMAIN s /\ s[1 + 1] = "clear"
    <3>1. 1 \in DOMAIN s
      BY <1>1
    <3> QED
      BY <1>1, <3>1 DEF Shape
  <2> QED
    BY <1>1, <2>1
<1> QED
  BY <1>3, <1>4, <1>5, <1>6 DEF t

LEMMA CalmShape == \A s \in Seq(Steps) : Calm(s) => Shape(s)
BY DEF Calm, Shape

\* A line that fills the buffer, in front of what is left to do.
LEMMA FillShape ==
  ASSUME NEW s \in Seq(Steps), Calm(s)
  PROVE  LET r == <<"tail", "write", "clear">> \o s
         IN /\ r \in Seq(Steps) /\ Shape(r) /\ r # <<>> /\ Head(r) = "tail"
            /\ SavedFirst(s) /\ (s # <<>> => Head(s) # "clear") => SavedFirst(r)
            /\ ThenCleared(s) => ThenCleared(r)
            /\ SavesAll(s) => SavesAll(r)
            /\ Saves(s) => Saves(r)
<1> DEFINE a == <<"tail", "write", "clear">>
           r == a \o s
<1>1. a \in Seq(Steps) /\ Len(a) = 3
  BY DEF Steps
<1>2. /\ r \in Seq(Steps) /\ Len(r) = 3 + Len(s) /\ Len(s) \in Nat
      /\ DOMAIN r = 1..3 + Len(s) /\ DOMAIN s = 1..Len(s)
      /\ \A p \in 1..3 : r[p] = a[p]
      /\ \A p \in 1..Len(s) : r[3 + p] = s[p]
  <2> HIDE DEF a
  <2>1. /\ a \o s \in Seq(Steps)
        /\ Len(a \o s) = Len(a) + Len(s) /\ Len(s) \in Nat
        /\ DOMAIN (a \o s) = 1..Len(a) + Len(s)
        /\ DOMAIN s = 1..Len(s)
        /\ \A p \in 1..Len(a) : (a \o s)[p] = a[p]
        /\ \A p \in 1..Len(s) : (a \o s)[Len(a) + p] = s[p]
    BY <1>1, ThenIs
  <2> QED
    BY <1>1, <2>1
<1>3. r[1] = "tail" /\ r[2] = "write" /\ r[3] = "clear"
  BY <1>2
<1> HIDE DEF r
<1>4. \A p \in DOMAIN r : p > 3 => p - 3 \in DOMAIN s /\ r[p] = s[p - 3]
  <2>1. ASSUME NEW p \in DOMAIN r, p > 3
        PROVE  p - 3 \in DOMAIN s /\ r[p] = s[p - 3]
    <3>1. p - 3 \in 1..Len(s) /\ 3 + (p - 3) = p
      BY <1>2, <2>1
    <3>2. r[3 + (p - 3)] = s[p - 3]
      BY <1>2, <3>1
    <3> QED
      BY <1>2, <3>1, <3>2
  <2> QED
    BY <2>1
<1>5. \A p \in DOMAIN r : p \in Nat \ {0} /\ (p <= 3 => p = 1 \/ p = 2 \/ p = 3)
  BY <1>2
<1>6. r # <<>> /\ Head(r) = "tail"
  <2>1. r # <<>>
    BY <1>2, EmptySeq
  <2> QED
    BY <1>2, <1>3, <2>1, TailIs
<1>7. Shape(r)
  <2>1. ASSUME NEW p \in DOMAIN r, r[p] \in {"tail", "write"}
        PROVE  (p = 1 /\ r[p] = "tail") \/ (p = 2 /\ r[p] = "write")
    BY <1>3, <1>4, <1>5, <2>1 DEF Calm
  <2>2. 2 \in DOMAIN r /\ 3 \in DOMAIN r
    BY <1>2
  <2> QED
    BY <1>3, <2>1, <2>2 DEF Shape
<1>8. ASSUME SavedFirst(s), s # <<>> => Head(s) # "clear"
      PROVE  SavedFirst(r)
  <2> SUFFICES ASSUME NEW p \in DOMAIN r, r[p] = "clear", p > 1
               PROVE  r[p - 1] \in {"write", "save"}
    BY DEF SavedFirst
  <2>1. CASE p <= 3
    BY <1>3, <1>5, <2>1
  <2>2. CASE p = 4
    <3>1. 1 \in DOMAIN s /\ s[1] = "clear"
      BY <1>4, <2>2
    <3>2. s # <<>> /\ Head(s) = s[1]
      <4>1. s # <<>>
        BY <3>1, <1>2, EmptySeq
      <4> QED
        BY <4>1, TailIs
    <3> QED
      BY <1>8, <3>1, <3>2
  <2>3. CASE p > 4
    <3>1. p - 3 \in DOMAIN s /\ s[p - 3] = "clear" /\ p - 3 > 1
      BY <1>4, <1>5, <2>3
    <3>2. s[(p - 3) - 1] \in {"write", "save"}
      BY <1>8, <3>1 DEF SavedFirst
    <3>3. p - 1 \in DOMAIN r /\ p - 1 > 3 /\ (p - 1) - 3 = (p - 3) - 1
      BY <1>2, <2>3
    <3> QED
      BY <1>4, <3>2, <3>3
  <2> QED
    BY <1>5, <2>1, <2>2, <2>3
<1>9. ASSUME ThenCleared(s)
      PROVE  ThenCleared(r)
  <2> SUFFICES ASSUME NEW p \in DOMAIN r, r[p] = "save"
               PROVE  p + 1 \in DOMAIN r /\ r[p + 1] = "clear"
    BY DEF ThenCleared
  <2>1. p > 3 /\ p - 3 \in DOMAIN s /\ s[p - 3] = "save"
    BY <1>3, <1>4, <1>5
  <2>2. (p - 3) + 1 \in DOMAIN s /\ s[(p - 3) + 1] = "clear"
    BY <1>9, <2>1 DEF ThenCleared
  <2>3. p + 1 \in DOMAIN r /\ p + 1 > 3 /\ (p + 1) - 3 = (p - 3) + 1
    BY <1>2, <2>1, <2>2
  <2> QED
    BY <1>4, <2>2, <2>3
<1>10. ASSUME NEW q \in DOMAIN s
       PROVE  3 + q \in DOMAIN r /\ r[3 + q] = s[q]
  BY <1>2
<1>11. Saves(s) => Saves(r)
  BY <1>10 DEF Saves
<1>12. ASSUME SavesAll(s)
       PROVE  SavesAll(r)
  <2>1. Len(s) \in DOMAIN s
    BY <1>12, <1>2, EmptySeq DEF SavesAll
  <2>2. r[Len(r)] \in {"exit", "end"}
    BY <1>10, <1>12, <1>2, <2>1 DEF SavesAll
  <2>3. ASSUME NEW p \in DOMAIN r, r[p] \in {"print", "exit", "end"}
        PROVE  /\ r[p] = "print" => \E q \in DOMAIN r : q > p /\ r[q] = "save"
               /\ r[p] \in {"exit", "end"} => p = Len(r)
    <3>1. p > 3 /\ p - 3 \in DOMAIN s /\ s[p - 3] = r[p]
      BY <1>3, <1>4, <1>5, <2>3
    <3>2. r[p] \in {"exit", "end"} => p - 3 = Len(s)
      BY <1>12, <3>1 DEF SavesAll
    <3>3. ASSUME r[p] = "print"
          PROVE  \E q \in DOMAIN r : q > p /\ r[q] = "save"
      <4>1. PICK q \in DOMAIN s : q > p - 3 /\ s[q] = "save"
        BY <1>12, <3>1, <3>3 DEF SavesAll
      <4>2. 3 + q \in DOMAIN r /\ r[3 + q] = "save" /\ 3 + q > p
        BY <1>2, <1>10, <3>1, <4>1
      <4> QED
        BY <4>2
    <3> QED
      BY <1>2, <3>1, <3>2, <3>3
  <2> QED
    BY <1>6, <2>2, <2>3 DEF SavesAll
<1> QED
  BY <1>2, <1>6, <1>7, <1>8, <1>9, <1>11, <1>12 DEF r
-----------------------------------------------------------------------------
(* What the program sets out to do.                                        *)

\* Lines and saves, as SOCKET_free and app_terminate make them.
Block(s) ==
  /\ s \in Seq(Steps)
  /\ \A p \in DOMAIN s :
       /\ s[p] \in {"print", "save", "clear"}
       /\ s[p] = "clear" => p > 1 /\ s[p - 1] = "save"
       /\ s[p] = "save" => p + 1 \in DOMAIN s /\ s[p + 1] = "clear"
PrintsSaved(s) ==
  \A p \in DOMAIN s : s[p] = "print" => \E q \in DOMAIN s : q > p /\ s[q] = "save"

Plan(s) == /\ s \in Seq(Steps) /\ s # <<>>
           /\ Head(s) \in {"print", "save", "exit", "end"}
           /\ Calm(s) /\ SavedFirst(s) /\ ThenCleared(s)

LEMMA BlockJoin ==
  ASSUME NEW a, NEW b, Block(a), Block(b)
  PROVE  /\ Block(a \o b)
         /\ Saves(a) \/ Saves(b) => Saves(a \o b)
         /\ PrintsSaved(b) /\ (PrintsSaved(a) \/ Saves(b)) => PrintsSaved(a \o b)
<1> DEFINE r == a \o b
           m == Len(a)
<1>0. a \in Seq(Steps) /\ b \in Seq(Steps)
  BY DEF Block
<1>1. /\ r \in Seq(Steps) /\ m \in Nat /\ Len(b) \in Nat
      /\ DOMAIN r = 1..m + Len(b) /\ DOMAIN a = 1..m /\ DOMAIN b = 1..Len(b)
      /\ \A p \in 1..m : r[p] = a[p]
      /\ \A p \in 1..Len(b) : r[m + p] = b[p]
      /\ \A p \in DOMAIN r : \/ p \in DOMAIN a /\ r[p] = a[p]
                             \/ p > m /\ p - m \in DOMAIN b /\ r[p] = b[p - m]
  BY <1>0, ThenIs
<1> HIDE DEF r, m
<1>2. \A p \in DOMAIN a : p \in DOMAIN r /\ r[p] = a[p]
  BY <1>1
<1>3. \A p \in DOMAIN b : m + p \in DOMAIN r /\ r[m + p] = b[p]
  BY <1>1
<1>4. ASSUME NEW p \in DOMAIN r
      PROVE  /\ r[p] \in {"print", "save", "clear"}
             /\ r[p] = "clear" => p > 1 /\ r[p - 1] = "save"
             /\ r[p] = "save" => p + 1 \in DOMAIN r /\ r[p + 1] = "clear"
  <2>1. CASE p \in DOMAIN a /\ r[p] = a[p]
    <3>1. /\ a[p] \in {"print", "save", "clear"}
          /\ a[p] = "clear" => p > 1 /\ a[p - 1] = "save"
          /\ a[p] = "save" => p + 1 \in DOMAIN a /\ a[p + 1] = "clear"
      BY <2>1 DEF Block
    <3>2. p > 1 => p - 1 \in DOMAIN a
      BY <1>1, <2>1
    <3> QED
      BY <1>2, <2>1, <3>1, <3>2
  <2>2. CASE p > m /\ p - m \in DOMAIN b /\ r[p] = b[p - m]
    <3> DEFINE q == p - m
    <3>1. /\ b[q] \in {"print", "save", "clear"}
          /\ b[q] = "clear" => q > 1 /\ b[q - 1] = "save"
          /\ b[q] = "save" => q + 1 \in DOMAIN b /\ b[q + 1] = "clear"
      BY <2>2 DEF Block
    <3>2. /\ q \in Nat /\ p \in Nat /\ m \in Nat
          /\ m + (q - 1) = p - 1 /\ m + (q + 1) = p + 1
          /\ q > 1 => q - 1 \in DOMAIN b /\ p > 1
      BY <1>1, <2>2
    <3> HIDE DEF q
    <3>3. q > 1 => r[p - 1] = b[q - 1]
      BY <1>3, <3>2
    <3>4. q + 1 \in DOMAIN b => p + 1 \in DOMAIN r /\ r[p + 1] = b[q + 1]
      BY <1>3, <3>2
    <3>5. r[p] = b[q]
      BY <2>2 DEF q
    <3> QED
      BY <3>1, <3>2, <3>3, <3>4, <3>5
  <2> QED
    BY <1>1, <2>1, <2>2
<1>5. Block(r)
  BY <1>1, <1>4 DEF Block
<1>6. Saves(a) \/ Saves(b) => Saves(r)
  BY <1>2, <1>3 DEF Saves
<1>7. ASSUME PrintsSaved(b), PrintsSaved(a) \/ Saves(b),
             NEW p \in DOMAIN r, r[p] = "print"
      PROVE  \E q \in DOMAIN r : q > p /\ r[q] = "save"
  <2>1. CASE p \in DOMAIN a /\ r[p] = a[p] /\ PrintsSaved(a)
    <3>1. PICK q \in DOMAIN a : q > p /\ a[q] = "save"
      BY <1>7, <2>1 DEF PrintsSaved
    <3> QED
      BY <1>2, <3>1
  <2>2. CASE p \in DOMAIN a /\ Saves(b)
    <3>1. PICK q \in DOMAIN b : b[q] = "save"
      BY <2>2 DEF Saves
    <3>2. m + q > p
      BY <1>1, <2>2, <3>1
    <3> QED
      BY <1>3, <3>1, <3>2
  <2>3. CASE p > m /\ p - m \in DOMAIN b /\ r[p] = b[p - m]
    <3>1. PICK q \in DOMAIN b : q > p - m /\ b[q] = "save"
      BY <1>7, <2>3 DEF PrintsSaved
    <3>2. m + q > p
      BY <1>1, <2>3, <3>1
    <3> QED
      BY <1>3, <3>1, <3>2
  <2> QED
    BY <1>1, <1>7, <2>1, <2>2, <2>3
<1>8. PrintsSaved(b) /\ (PrintsSaved(a) \/ Saves(b)) => PrintsSaved(r)
  BY <1>7 DEF PrintsSaved
<1> QED
  BY <1>5, <1>6, <1>8 DEF r

LEMMA BlockPlan ==
  ASSUME NEW b, Block(b), b # <<>>
  PROVE  Plan(b)
<1>1. /\ b \in Seq(Steps) /\ Len(b) \in Nat \ {0} /\ DOMAIN b = 1..Len(b) /\ Head(b) = b[1]
  BY TailIs DEF Block
<1>2. Head(b) \in {"print", "save"}
  <2>1. 1 \in DOMAIN b
    BY <1>1
  <2>2. b[1] \in {"print", "save", "clear"} /\ (b[1] = "clear" => 1 > 1)
    BY <2>1 DEF Block
  <2> QED
    BY <1>1, <2>2
<1>3. Calm(b) /\ SavedFirst(b) /\ ThenCleared(b)
  BY DEF Block, Calm, SavedFirst, ThenCleared
<1> QED
  BY <1>1, <1>2, <1>3 DEF Plan

\* ... and then the process ends.
LEMMA BlockEnds ==
  ASSUME NEW b, Block(b), NEW x \in {"exit", "end"}
  PROVE  /\ Plan(b \o <<x>>)
         /\ PrintsSaved(b) => SavesAll(b \o <<x>>)
         /\ Saves(b) => Saves(b \o <<x>>)
<1> DEFINE e == <<x>>
           r == b \o e
           m == Len(b)
<1>0. b \in Seq(Steps) /\ e \in Seq(Steps) /\ Len(e) = 1 /\ e[1] = x
  BY DEF Block, Steps
<1> HIDE DEF e
<1>1. /\ r \in Seq(Steps) /\ Len(r) = m + Len(e) /\ m \in Nat
      /\ DOMAIN r = 1..m + Len(e) /\ DOMAIN b = 1..m /\ DOMAIN e = 1..Len(e)
      /\ \A p \in 1..m : r[p] = b[p]
      /\ \A p \in 1..Len(e) : r[m + p] = e[p]
  BY <1>0, ThenIs
<1> HIDE DEF r, m
<1>2. /\ Len(r) = m + 1 /\ DOMAIN r = 1..m + 1
      /\ r[m + 1] = x
  BY <1>0, <1>1
<1>3. \A p \in DOMAIN r : \/ p \in DOMAIN b /\ r[p] = b[p]
                          \/ p = m + 1 /\ r[p] = x
  BY <1>1, <1>2
<1>4. r # <<>> /\ Head(r) = r[1]
  <2>1. r # <<>>
    BY <1>1, <1>2, EmptySeq
  <2> QED
    BY <1>1, <2>1, TailIs
<1>5. \A p \in DOMAIN b : /\ r[p] = b[p] /\ p \in DOMAIN r
                          /\ r[p] \in {"print", "save", "clear"}
                          /\ r[p] = "clear" => p > 1 /\ r[p - 1] = "save"
                          /\ r[p] = "save" => p + 1 \in DOMAIN r /\ r[p + 1] = "clear"
  <2>1. ASSUME NEW p \in DOMAIN b
        PROVE  /\ r[p] = b[p] /\ p \in DOMAIN r
               /\ r[p] \in {"print", "save", "clear"}
               /\ r[p] = "clear" => p > 1 /\ r[p - 1] = "save"
               /\ r[p] = "save" => p + 1 \in DOMAIN r /\ r[p + 1] = "clear"
    <3>1. /\ b[p] \in {"print", "save", "clear"}
          /\ b[p] = "clear" => p > 1 /\ b[p - 1] = "save"
          /\ b[p] = "save" => p + 1 \in DOMAIN b /\ b[p + 1] = "clear"
      BY <2>1 DEF Block
    <3>2. p > 1 => p - 1 \in DOMAIN b
      BY <1>1
    <3> QED
      BY <1>1, <1>2, <3>1, <3>2
  <2> QED
    BY <2>1
<1>6. Head(r) \in {"print", "save", "exit", "end"}
  <2>1. 1 \in DOMAIN r
    BY <1>1, <1>2
  <2> QED
    BY <1>3, <1>4, <1>5, <2>1
<1>7. Calm(r) /\ SavedFirst(r) /\ ThenCleared(r)
  BY <1>3, <1>5 DEF Calm, SavedFirst, ThenCleared
<1>8. ASSUME PrintsSaved(b)
      PROVE  SavesAll(r)
  <2>1. ASSUME NEW p \in DOMAIN r, r[p] = "print"
        PROVE  \E q \in DOMAIN r : q > p /\ r[q] = "save"
    <3>1. p \in DOMAIN b /\ b[p] = "print"
      BY <1>3, <1>5, <2>1
    <3>2. PICK q \in DOMAIN b : q > p /\ b[q] = "save"
      BY <1>8, <3>1 DEF PrintsSaved
    <3> QED
      BY <1>5, <3>2
  <2>2. \A p \in DOMAIN r : r[p] \in {"exit", "end"} => p = Len(r)
    BY <1>2, <1>3, <1>5
  <2>3. r[Len(r)] \in {"exit", "end"}
    BY <1>2
  <2> QED
    BY <1>4, <2>1, <2>2, <2>3 DEF SavesAll
<1>9. Saves(b) => Saves(r)
  BY <1>5 DEF Saves
<1> QED
  BY <1>1, <1>4, <1>6, <1>7, <1>8, <1>9 DEF Plan, r, e
\* SOCKET_free logs, if FreeLines is not 0, and saves.
LEMMA FreeBlock ==
  /\ Block(SOCKET_free) /\ PrintsSaved(SOCKET_free) /\ Saves(SOCKET_free)
  /\ SOCKET_free # <<>>
  /\ Block(LOG_save) /\ PrintsSaved(LOG_save) /\ Saves(LOG_save) /\ LOG_save # <<>>
  /\ Block(<<"print">>) /\ Block(<<>>) /\ PrintsSaved(<<>>)
<1> DEFINE lines == [i \in 1..FreeLines |-> "print"]
           line == <<"print">>
           none == <<>>
<1>1. Block(LOG_save) /\ PrintsSaved(LOG_save) /\ Saves(LOG_save)
  <2>1. /\ LOG_save \in Seq(Steps) /\ DOMAIN LOG_save = {1, 2}
        /\ LOG_save[1] = "save" /\ LOG_save[2] = "clear"
    BY DEF LOG_save, Steps
  <2> QED
    BY <2>1 DEF Block, PrintsSaved, Saves
<1>2. Block(line)
  <2>1. line \in Seq(Steps) /\ DOMAIN line = {1} /\ line[1] = "print"
    BY DEF Steps
  <2> HIDE DEF line
  <2> QED
    BY <2>1 DEF Block
<1>3. Block(none) /\ PrintsSaved(none)
  <2>1. none \in Seq(Steps) /\ DOMAIN none = {}
    BY EmptySeq, LenProperties
  <2> HIDE DEF none
  <2> QED
    BY <2>1 DEF Block, PrintsSaved
<1>4. Block(lines)
  <2>1. lines \in Seq(Steps) /\ DOMAIN lines = 1..FreeLines
        /\ \A p \in DOMAIN lines : lines[p] = "print"
    BY FreeLinesAssumption DEF Steps
  <2> HIDE DEF lines
  <2> QED
    BY <2>1 DEF Block
<1>5. Block(SOCKET_free) /\ PrintsSaved(SOCKET_free) /\ Saves(SOCKET_free)
  <2>1. SOCKET_free = lines \o LOG_save
    BY DEF SOCKET_free
  <2> HIDE DEF lines
  <2> QED
    BY <1>1, <1>4, <2>1, BlockJoin
<1>6. \A b : Saves(b) => b # <<>>
  <2>1. DOMAIN none = {}
    BY EmptySeq, LenProperties
  <2> QED
    BY <2>1 DEF Saves
<1> QED
  BY <1>1, <1>2, <1>3, <1>5, <1>6

LEMMA PlansAre ==
  /\ Plan(<<"print">>) /\ Plan(LOG_save) /\ Plan(<<"exit">>)
  /\ Plan(<<"print">> \o LOG_save \o <<"exit">>)
  /\ Plan(SOCKET_free \o <<"exit">>)
  /\ Plan(SOCKET_free \o <<"end">>)
  /\ SavesAll(SOCKET_free \o <<"end">>) /\ Saves(SOCKET_free \o <<"end">>)
  /\ Plan(<<"end">>) /\ SavesAll(<<"end">>)
  /\ Plan(<<"print", "exit">>)
  /\ Plan(app_terminate) /\ SavesAll(app_terminate) /\ Saves(app_terminate)
  /\ Head(app_terminate) = "print"
<1> DEFINE line == <<"print">>
           none == <<>>
<1>1. Plan(line) /\ Plan(LOG_save)
  <2>1. line # <<>>
    OBVIOUS
  <2> QED
    BY <2>1, FreeBlock, BlockPlan
<1>2. ASSUME NEW x \in {"exit", "end"}
      PROVE  Plan(<<x>>) /\ SavesAll(<<x>>)
  <2>1. Plan(none \o <<x>>) /\ SavesAll(none \o <<x>>)
    BY FreeBlock, BlockEnds
  <2>2. none \o <<x>> = <<x>>
    OBVIOUS
  <2> QED
    BY <2>1, <2>2
<1>3. Plan(line \o LOG_save \o <<"exit">>)
  <2>1. Block(line \o LOG_save)
    BY FreeBlock, BlockJoin
  <2> QED
    BY <2>1, BlockEnds
<1>4. ASSUME NEW x \in {"exit", "end"}
      PROVE  /\ Plan(SOCKET_free \o <<x>>) /\ SavesAll(SOCKET_free \o <<x>>)
             /\ Saves(SOCKET_free \o <<x>>)
  BY FreeBlock, BlockEnds
<1>5. Plan(<<"print", "exit">>)
  <2>1. Plan(line \o <<"exit">>)
    BY FreeBlock, BlockEnds
  <2> DEFINE last == <<"exit">>
             pair == <<"print", "exit">>
             r == line \o last
  <2>2. /\ line \in Seq(Steps) /\ Len(line) = 1 /\ line[1] = "print"
        /\ last \in Seq(Steps) /\ Len(last) = 1 /\ last[1] = "exit"
        /\ pair \in Seq(Steps) /\ Len(pair) = 2 /\ pair[1] = "print" /\ pair[2] = "exit"
    BY DEF Steps
  <2>3. r = pair
    <3> HIDE DEF line, last, pair
    <3>1. /\ r \in Seq(Steps) /\ Len(r) = 1 + 1
          /\ \A p \in 1..1 : r[p] = line[p]
          /\ \A p \in 1..1 : r[1 + p] = last[p]
      BY <2>2, ThenIs
    <3> HIDE DEF r
    <3>2. Len(r) = 2 /\ r[1] = "print" /\ r[2] = "exit"
      BY <2>2, <3>1
    <3>3. \A p \in 1..Len(r) : p = 1 \/ p = 2
      BY <3>2
    <3> QED
      BY <2>2, <3>1, <3>2, <3>3, SeqEqual
  <2> QED
    BY <2>1, <2>3
<1>6. Plan(app_terminate) /\ SavesAll(app_terminate) /\ Saves(app_terminate)
  <2> DEFINE a == line \o SOCKET_free
             b == a \o line
             c == b \o LOG_save
  <2>1. Block(a)
    BY FreeBlock, BlockJoin
  <2>2. Block(b)
    BY FreeBlock, <2>1, BlockJoin
  <2>3. Block(c) /\ PrintsSaved(c) /\ Saves(c)
    BY FreeBlock, <2>2, BlockJoin
  <2>4. app_terminate = c \o <<"exit">>
    BY DEF app_terminate
  <2> HIDE DEF c
  <2> QED
    BY <2>3, <2>4, BlockEnds
<1>7. Head(app_terminate) = "print"
  <2> DEFINE a == line \o SOCKET_free
             b == a \o line
             c == b \o LOG_save
             d == c \o <<"exit">>
  <2>0. /\ line \in Seq(Steps) /\ LOG_save \in Seq(Steps) /\ SOCKET_free \in Seq(Steps)
        /\ <<"exit">> \in Seq(Steps) /\ Len(line) = 1 /\ line[1] = "print"
    BY FreeBlock DEF Block, Steps
  <2> HIDE DEF line
  <2>1. a \in Seq(Steps) /\ a[1] = "print" /\ Len(a) \in Nat \ {0}
    BY <2>0, ThenIs
  <2> HIDE DEF a
  <2>2. b \in Seq(Steps) /\ b[1] = "print" /\ Len(b) \in Nat \ {0}
    BY <2>0, <2>1, ThenIs
  <2> HIDE DEF b
  <2>3. c \in Seq(Steps) /\ c[1] = "print" /\ Len(c) \in Nat \ {0}
    BY <2>0, <2>2, ThenIs
  <2> HIDE DEF c
  <2>4. d \in Seq(Steps) /\ d[1] = "print" /\ Len(d) \in Nat \ {0}
    BY <2>0, <2>3, ThenIs
  <2>5. app_terminate = d
    BY DEF app_terminate, line, a, b, c, d
  <2> QED
    BY <1>6, <2>4, <2>5, TailIs DEF Plan
<1> QED
  BY <1>1, <1>2, <1>3, <1>4, <1>5, <1>6, <1>7

\* What the rest of the steps keeps when the first is made.
LEMMA PopIs ==
  ASSUME NEW s \in Seq(Steps), s # <<>>
  PROVE  /\ Tail(s) \in Seq(Steps)
         /\ Calm(s) => Calm(Tail(s))
         /\ SavedFirst(s) => SavedFirst(Tail(s))
         /\ ThenCleared(s) => ThenCleared(Tail(s))
         /\ SavedFirst(s) /\ Head(s) \notin {"write", "save"} /\ Tail(s) # <<>> =>
              Head(Tail(s)) # "clear"
         /\ ThenCleared(s) /\ Head(s) = "save" => Tail(s) # <<>> /\ Head(Tail(s)) = "clear"
         /\ SavesAll(s) /\ Head(s) \notin {"exit", "end"} => SavesAll(Tail(s))
         /\ SavesAll(s) /\ Head(s) \in {"exit", "end"} => ~Saves(s)
         /\ SavesAll(s) /\ Head(s) = "print" => Saves(s)
         /\ Saves(s) /\ Head(s) # "save" => Saves(Tail(s))
<1> DEFINE t == Tail(s)
<1>1. /\ t \in Seq(Steps) /\ Len(s) \in Nat \ {0} /\ Len(t) = Len(s) - 1
      /\ DOMAIN s = 1..Len(s) /\ DOMAIN t = 1..Len(s) - 1
      /\ Head(s) = s[1] /\ \A p \in 1..Len(s) - 1 : t[p] = s[p + 1]
      /\ t # <<>> => Len(s) > 1 /\ Head(t) = s[2]
      /\ Len(s) > 1 => t # <<>>
  BY TailIs
<1> HIDE DEF t
<1>2. \A p \in DOMAIN t : p \in Nat \ {0} /\ p + 1 \in DOMAIN s /\ t[p] = s[p + 1]
  BY <1>1
<1>3. \A p \in DOMAIN s : p \in Nat \ {0} /\ (p > 1 => p - 1 \in DOMAIN t /\ t[p - 1] = s[p])
  <2>1. ASSUME NEW p \in DOMAIN s, p > 1
        PROVE  p - 1 \in DOMAIN t /\ t[p - 1] = s[p]
    <3>1. p - 1 \in 1..Len(s) - 1 /\ (p - 1) + 1 = p
      BY <1>1, <2>1
    <3> QED
      BY <1>1, <3>1
  <2> QED
    BY <1>1, <2>1
<1>4. Calm(s) => Calm(t)
  BY <1>2 DEF Calm
<1>5. SavedFirst(s) => SavedFirst(t)
  <2> SUFFICES ASSUME SavedFirst(s), NEW p \in DOMAIN t, t[p] = "clear", p > 1
               PROVE  t[p - 1] \in {"write", "save"}
    BY DEF SavedFirst
  <2>1. p + 1 \in DOMAIN s /\ s[p + 1] = "clear" /\ p + 1 > 1 /\ (p + 1) - 1 = p /\ p \in Nat
    BY <1>2
  <2>2. s[(p + 1) - 1] \in {"write", "save"}
    BY <2>1 DEF SavedFirst
  <2>3. p \in DOMAIN s
    BY <1>1, <2>1
  <2> QED
    BY <1>3, <2>1, <2>2, <2>3
<1>6. ThenCleared(s) => ThenCleared(t)
  <2> SUFFICES ASSUME ThenCleared(s), NEW p \in DOMAIN t, t[p] = "save"
               PROVE  p + 1 \in DOMAIN t /\ t[p + 1] = "clear"
    BY DEF ThenCleared
  <2>1. p + 1 \in DOMAIN s /\ s[p + 1] = "save" /\ p \in Nat \ {0}
    BY <1>2
  <2>2. (p + 1) + 1 \in DOMAIN s /\ s[(p + 1) + 1] = "clear"
    BY <2>1 DEF ThenCleared
  <2>3. ((p + 1) + 1) - 1 = p + 1 /\ (p + 1) + 1 > 1
    BY <2>1
  <2> QED
    BY <1>3, <2>2, <2>3
<1>7. 1 \in DOMAIN s /\ (t # <<>> => 2 \in DOMAIN s)
  BY <1>1
<1>8. SavedFirst(s) /\ Head(s) \notin {"write", "save"} /\ t # <<>> => Head(t) # "clear"
  <2>1. t # <<>> /\ s[2] = "clear" /\ SavedFirst(s) => s[2 - 1] \in {"write", "save"}
    BY <1>7 DEF SavedFirst
  <2> QED
    BY <1>1, <2>1
<1>9. ThenCleared(s) /\ Head(s) = "save" => t # <<>> /\ Head(t) = "clear"
  <2>1. ThenCleared(s) /\ s[1] = "save" => 1 + 1 \in DOMAIN s /\ s[1 + 1] = "clear"
    BY <1>7 DEF ThenCleared
  <2> QED
    BY <1>1, <2>1
<1>10. ASSUME SavesAll(s), Head(s) \notin {"exit", "end"}
       PROVE  SavesAll(t)
  <2>1. Len(s) > 1 /\ Len(s) \in DOMAIN s /\ s[Len(s)] \in {"exit", "end"}
    BY <1>1, <1>10 DEF SavesAll
  <2>2. t # <<>> /\ t[Len(t)] \in {"exit", "end"}
    BY <1>1, <1>3, <2>1
  <2>3. ASSUME NEW p \in DOMAIN t
        PROVE  /\ t[p] = "print" => \E q \in DOMAIN t : q > p /\ t[q] = "save"
               /\ t[p] \in {"exit", "end"} => p = Len(t)
    <3>1. p + 1 \in DOMAIN s /\ t[p] = s[p + 1] /\ p \in Nat \ {0}
      BY <1>2
    <3>2. t[p] \in {"exit", "end"} => p + 1 = Len(s)
      BY <1>10, <3>1 DEF SavesAll
    <3>3. ASSUME t[p] = "print"
          PROVE  \E q \in DOMAIN t : q > p /\ t[q] = "save"
      <4>1. PICK q \in DOMAIN s : q > p + 1 /\ s[q] = "save"
        BY <1>10, <3>1, <3>3 DEF SavesAll
      <4>2. q - 1 \in DOMAIN t /\ t[q - 1] = "save" /\ q - 1 > p
        BY <1>3, <3>1, <4>1
      <4> QED
        BY <4>2
    <3> QED
      BY <1>1, <3>1, <3>2, <3>3
  <2> QED
    BY <2>2, <2>3 DEF SavesAll
<1>11. ASSUME SavesAll(s), Head(s) \in {"exit", "end"}
       PROVE  ~Saves(s)
  <2>1. Len(s) = 1
    BY <1>1, <1>7, <1>11 DEF SavesAll
  <2>2. \A p \in DOMAIN s : p = 1
    BY <1>1, <2>1
  <2> QED
    BY <1>1, <1>11, <2>2 DEF Saves
<1>12. SavesAll(s) /\ Head(s) = "print" => Saves(s)
  BY <1>1, <1>7 DEF SavesAll, Saves
<1>13. ASSUME Saves(s), Head(s) # "save"
       PROVE  Saves(t)
  <2>1. PICK p \in DOMAIN s : s[p] = "save"
    BY <1>13 DEF Saves
  <2>2. p > 1
    BY <1>1, <1>13, <2>1
  <2> QED
    BY <1>3, <2>1, <2>2 DEF Saves
<1> QED
  BY <1>1, <1>4, <1>5, <1>6, <1>8, <1>9, <1>10, <1>11, <1>12, <1>13 DEF t
-----------------------------------------------------------------------------
(* The order of what is in the file and in the buffer.                     *)

Contents(file) == {file[p] : p \in DOMAIN file}

\* A character is seen in its turn: before it are all that were seen for the
\* first time and logged earlier.
Ordered(s, n) ==
  \A p \in 1..n : \A q \in p+1..n :
    s[q] < s[p] => \E r \in 1..p-1 : s[r] = s[q]

\* What the file shows of the text that comes before something it holds.
Later(s, n, file) ==
  \A k \in 1..n : \A v \in Contents(file) : s[k] < v => s[k] \in Contents(file)

LEMMA OrderedPart ==
  ASSUME NEW s, NEW n \in Nat, NEW j \in 0..n, Ordered(s, n)
  PROVE  Ordered(s, j)
BY DEF Ordered

\* b is put behind a.
LEMMA OrderedJoin ==
  ASSUME NEW a, NEW n \in Nat, NEW b, NEW m \in Nat, NEW c,
         \A k \in 1..n : c[k] = a[k] /\ a[k] \in Nat,
         \A k \in 1..m : c[n + k] = b[k] /\ b[k] \in Nat,
         Ordered(a, n),
         \A k \in 1..m : \A p \in 1..n : b[k] < a[p] => b[k] \in Values(a, n),
         \A p \in 1..m : \A q \in p+1..m :
           b[q] < b[p] => b[q] \in Values(a, n) \/ \E r \in 1..p-1 : b[r] = b[q]
  PROVE  Ordered(c, n + m)
<1> SUFFICES ASSUME NEW p \in 1..n + m, NEW q \in p+1..n + m, c[q] < c[p]
             PROVE  \E r \in 1..p-1 : c[r] = c[q]
  BY DEF Ordered
<1>1. CASE q <= n
  <2>1. p \in 1..n /\ q \in p+1..n
    BY <1>1
  <2>2. c[q] = a[q] /\ c[p] = a[p]
    BY <2>1
  <2>3. PICK r \in 1..p-1 : a[r] = a[q]
    BY <2>1, <2>2 DEF Ordered
  <2>4. r \in 1..n
    BY <2>1
  <2> QED
    BY <2>2, <2>3, <2>4
<1>2. CASE p <= n /\ n < q
  <2> DEFINE k == q - n
  <2>1. p \in 1..n /\ k \in 1..m /\ n + k = q
    BY <1>2
  <2>2. c[p] = a[p] /\ c[n + k] = b[k]
    BY <2>1
  <2>3. b[k] \in Values(a, n)
    BY <2>1, <2>2
  <2>4. PICK r \in 1..n : a[r] = b[k]
    BY <2>3 DEF Values
  <2> HIDE DEF k
  <2>5. c[q] = b[k] /\ b[k] < a[p]
    BY <2>1, <2>2
  <2>6. CASE r < p
    <3>1. r \in 1..p-1
      BY <2>1, <2>6
    <3> QED
      BY <2>4, <2>5, <3>1
  <2>7. CASE r > p
    <3>1. r \in p+1..n /\ a[r] < a[p]
      BY <2>1, <2>4, <2>5, <2>7
    <3>2. PICK i \in 1..p-1 : a[i] = a[r]
      BY <2>1, <3>1 DEF Ordered
    <3>3. i \in 1..n
      BY <2>1
    <3> QED
      BY <2>4, <2>5, <3>2, <3>3
  <2>8. r # p
    <3>1. a[p] \in Nat /\ b[k] \in Nat
      BY <2>1
    <3> QED
      BY <2>4, <2>5, <3>1
  <2> QED
    BY <2>1, <2>6, <2>7, <2>8
<1>3. CASE n < p
  <2> DEFINE k == q - n
             i == p - n
  <2>1. i \in 1..m /\ k \in i+1..m /\ k \in 1..m /\ n + i = p /\ n + k = q
    BY <1>3
  <2>2. c[n + i] = b[i] /\ c[n + k] = b[k]
    BY <2>1
  <2> HIDE DEF i, k
  <2>3. b[k] < b[i] /\ c[q] = b[k]
    BY <2>1, <2>2
  <2>4. CASE b[k] \in Values(a, n)
    <3>1. PICK r \in 1..n : a[r] = b[k]
      BY <2>4 DEF Values
    <3>2. r \in 1..p-1
      BY <1>3
    <3> QED
      BY <2>3, <3>1, <3>2
  <2>5. CASE \E r \in 1..i-1 : b[r] = b[k]
    <3>1. PICK r \in 1..i-1 : b[r] = b[k]
      BY <2>5
    <3>2. n + r \in 1..p-1 /\ r \in 1..m
      BY <2>1
    <3>3. c[n + r] = b[r]
      BY <3>2
    <3> QED
      BY <2>3, <3>1, <3>2, <3>3
  <2> QED
    BY <2>1, <2>3, <2>4, <2>5
<1> QED
  BY <1>1, <1>2, <1>3

\* The first j characters of the text are written.
LEMMA FlushIs ==
  ASSUME NEW file \in Seq(Nat), NEW s \in Buffers, NEW n \in 0..Memory-1, NEW j \in 0..n,
         Ordered(file, Len(file)), Ordered(s, n), Later(s, n, file)
  PROVE  LET f == file \o Chars(s, j)
         IN /\ f \in Seq(Nat)
            /\ Contents(f) = Contents(file) \cup Values(s, j)
            /\ Ordered(f, Len(f))
            /\ Later(s, n, f)
<1> DEFINE t == Chars(s, j)
           f == file \o t
           l == Len(file)
<1>0. Memory \in Nat /\ n \in Nat /\ j \in Nat /\ j <= n /\ n <= Memory
  BY MemoryAssumption
<1>1. t \in Seq(Nat) /\ Len(t) = j /\ \A k \in 1..j : t[k] = s[k]
  BY <1>0, FirstChars
<1> HIDE DEF t
<1>2. /\ f \in Seq(Nat) /\ l \in Nat /\ Len(f) = l + j
      /\ DOMAIN file = 1..l /\ DOMAIN t = 1..j /\ DOMAIN f = 1..l + j
      /\ \A k \in 1..l : f[k] = file[k]
      /\ \A k \in 1..j : f[l + k] = t[k]
  <2>1. f \in Seq(Nat) /\ l \in Nat /\ Len(f) = l + j
    BY <1>1, ConcatProperties, LenProperties
  <2>2. DOMAIN file = 1..l /\ DOMAIN t = 1..j /\ DOMAIN f = 1..l + j
    BY <1>1, <2>1, LenProperties
  <2>3. \A k \in 1..l : f[k] = file[k]
    BY <1>0, <1>1, <2>1, ConcatProperties
  <2>4. \A k \in 1..j : f[l + k] = t[k]
    <3>1. \A k \in 1..j : l + k \in 1..l + j /\ ~(l + k <= l) /\ (l + k) - l = k
      BY <1>0, <2>1
    <3>2. \A i \in 1..l + j : f[i] = IF i <= l THEN file[i] ELSE t[i - l]
      BY <1>0, <1>1, <2>1, ConcatProperties
    <3> QED
      BY <3>1, <3>2
  <2> QED
    BY <2>1, <2>2, <2>3, <2>4
<1> HIDE DEF f, l
<1>3. /\ \A k \in 1..l : file[k] \in Nat
      /\ \A k \in 1..n : s[k] \in Nat
  <2>1. file \in [1..l -> Nat]
    BY LenProperties DEF l
  <2> QED
    BY <1>0, <2>1 DEF Buffers
<1>4. Contents(f) = Contents(file) \cup Values(s, j)
  <2>1. ASSUME NEW p \in DOMAIN f
        PROVE  f[p] \in Contents(file) \cup Values(s, j)
    <3>1. CASE p <= l
      <4>1. p \in DOMAIN file /\ f[p] = file[p]
        BY <1>2, <3>1
      <4> QED
        BY <4>1 DEF Contents
    <3>2. CASE p > l
      <4>1. p - l \in 1..j /\ l + (p - l) = p
        BY <1>0, <1>2, <3>2
      <4>2. f[l + (p - l)] = t[p - l]
        BY <1>2, <4>1
      <4>3. f[p] = s[p - l]
        BY <1>1, <4>1, <4>2
      <4> QED
        BY <4>1, <4>3 DEF Values
    <3> QED
      BY <1>2, <3>1, <3>2
  <2>2. ASSUME NEW p \in DOMAIN file
        PROVE  file[p] \in Contents(f)
    <3>1. p \in DOMAIN f /\ f[p] = file[p]
      BY <1>0, <1>2
    <3> QED
      BY <3>1 DEF Contents
  <2>3. ASSUME NEW k \in 1..j
        PROVE  s[k] \in Contents(f)
    <3>1. l + k \in DOMAIN f /\ f[l + k] = s[k]
      BY <1>0, <1>1, <1>2
    <3> QED
      BY <3>1 DEF Contents
  <2>4. Contents(f) \subseteq Contents(file) \cup Values(s, j)
    BY <2>1 DEF Contents
  <2>5. Contents(file) \subseteq Contents(f)
    BY <2>2 DEF Contents
  <2>6. Values(s, j) \subseteq Contents(f)
    BY <2>3 DEF Values
  <2> QED
    BY <2>4, <2>5, <2>6
<1>5. Values(file, l) = Contents(file)
  BY <1>2 DEF Values, Contents
<1>6. \A k \in 1..j : k \in 1..n /\ t[k] = s[k]
  BY <1>0, <1>1
<1>7. Ordered(s, j)
  BY <1>0, OrderedPart
<1>8. Ordered(f, l + j)
  <2>1. \A k \in 1..j : \A p \in 1..l : t[k] < file[p] => t[k] \in Values(file, l)
    BY <1>2, <1>5, <1>6 DEF Later, Contents
  <2>2. \A p \in 1..j : \A q \in p+1..j :
          t[q] < t[p] => \E r \in 1..p-1 : t[r] = t[q]
    <3>1. ASSUME NEW p \in 1..j, NEW q \in p+1..j, t[q] < t[p]
          PROVE  \E r \in 1..p-1 : t[r] = t[q]
      <4>1. q \in 1..j /\ \A r \in 1..p-1 : r \in 1..j
        BY <1>0
      <4>2. s[q] < s[p]
        BY <1>6, <3>1, <4>1
      <4>3. PICK r \in 1..p-1 : s[r] = s[q]
        BY <1>7, <4>2 DEF Ordered
      <4> QED
        BY <1>6, <4>1, <4>3
    <3> QED
      BY <3>1
  <2>3. \A k \in 1..l : f[k] = file[k] /\ file[k] \in Nat
    BY <1>2, <1>3
  <2>4. \A k \in 1..j : f[l + k] = t[k] /\ t[k] \in Nat
    BY <1>2, <1>3, <1>6
  <2>5. Ordered(file, l)
    BY DEF l
  <2> QED
    BY <1>0, <1>2, <2>1, <2>2, <2>3, <2>4, <2>5, OrderedJoin
<1>9. Later(s, n, f)
  <2> SUFFICES ASSUME NEW k \in 1..n, NEW v \in Contents(f), s[k] < v
               PROVE  s[k] \in Contents(f)
    BY DEF Later
  <2>1. CASE v \in Contents(file)
    BY <1>4, <2>1 DEF Later
  <2>2. CASE v \in Values(s, j)
    <3>1. PICK i \in 1..j : v = s[i]
      BY <2>2 DEF Values
    <3>2. CASE k \in 1..j
      BY <1>4, <3>2 DEF Values
    <3>3. CASE k > j
      <4>1. i \in 1..n /\ k \in i+1..n
        BY <1>0, <3>3
      <4>2. PICK r \in 1..i-1 : s[r] = s[k]
        BY <3>1, <4>1 DEF Ordered
      <4>3. r \in 1..j
        BY <1>0
      <4>4. s[k] \in Values(s, j)
        BY <4>2, <4>3 DEF Values
      <4> QED
        BY <1>4, <4>4
    <3> QED
      BY <1>0, <3>2, <3>3
  <2> QED
    BY <1>4, <2>1, <2>2
<1> QED
  BY <1>2, <1>4, <1>8, <1>9 DEF f, t
\* The m characters that are logged after the first g.
NewLine(g, m) == [i \in 1..m |-> g + i]

\* A line of m characters is put behind the text.
LEMMA LineIs ==
  ASSUME NEW s \in Buffers, NEW n \in 0..Memory-1, HasText(s, n),
         NEW m \in Nat, n + m < Memory, NEW g \in Nat
  PROVE  LET r == Strncat(s, NewLine(g, m))
         IN /\ r \in Buffers /\ HasText(r, n + m) /\ Strlen(r) = n + m
            /\ \A k \in 1..n : r[k] = s[k]
            /\ \A k \in 1..m : r[n + k] = g + k
<1> DEFINE text == NewLine(g, m)
           r == Strncat(s, text)
<1>1. text \in Seq(Nat \ {Nul}) /\ Len(text) = m /\ \A k \in 1..m : text[k] = g + k
  BY DEF Nul, NewLine
<1>2. n + m \in 0..Memory-1
  BY MemoryAssumption
<1> HIDE DEF text
<1>3. /\ r \in Buffers /\ HasText(r, n + m)
      /\ \A k \in 1..n : r[k] = s[k]
      /\ \A k \in 1..m : r[n + k] = text[k]
  BY <1>1, StrncatIs
<1>4. Strlen(r) = n + m
  BY <1>2, <1>3, StrlenIs
<1> QED
  BY <1>1, <1>3, <1>4 DEF text

\* What was logged is less than what the new line brings.
LEMMA LineOrdered ==
  ASSUME NEW s \in Buffers, NEW n \in 0..Memory-1, NEW m \in Nat, NEW g \in Nat, NEW r,
         n + m < Memory,
         \A k \in 1..n : r[k] = s[k], \A k \in 1..m : r[n + k] = g + k,
         \A k \in 1..n : s[k] <= g,
         NEW file \in Seq(Nat), \A v \in Contents(file) : v <= g,
         Ordered(s, n), Later(s, n, file)
  PROVE  /\ Ordered(r, n + m) /\ Later(r, n + m, file)
         /\ Values(r, n + m) = Values(s, n) \cup g+1..g+m
         /\ \A k \in 1..n + m : r[k] <= g + m
<1>0. Memory \in Nat /\ n \in Nat
  BY MemoryAssumption
<1>1. \A k \in 1..n : s[k] \in Nat /\ s[k] <= g
  BY <1>0 DEF Buffers
<1> DEFINE b == [i \in 1..m |-> g + i]
<1>2. \A k \in 1..m : b[k] = g + k /\ b[k] \in Nat
  OBVIOUS
<1> HIDE DEF b
<1>3. Ordered(r, n + m)
  <2>1. \A k \in 1..m : \A p \in 1..n : b[k] < s[p] => b[k] \in Values(s, n)
    BY <1>1, <1>2
  <2>2. \A p \in 1..m : \A q \in p+1..m :
          b[q] < b[p] => b[q] \in Values(s, n) \/ \E i \in 1..p-1 : b[i] = b[q]
    BY <1>2
  <2>3. \A k \in 1..n : r[k] = s[k] /\ s[k] \in Nat
    BY <1>1
  <2>4. \A k \in 1..m : r[n + k] = b[k] /\ b[k] \in Nat
    BY <1>2
  <2> QED
    BY <1>0, <2>1, <2>2, <2>3, <2>4, OrderedJoin
<1>4. \A k \in 1..n + m : \/ k \in 1..n /\ r[k] = s[k]
                          \/ k - n \in 1..m /\ r[k] = g + (k - n)
  <2>1. ASSUME NEW k \in 1..n + m, n < k
        PROVE  k - n \in 1..m /\ r[k] = g + (k - n)
    <3>1. k - n \in 1..m /\ n + (k - n) = k
      BY <1>0, <2>1
    <3>2. r[n + (k - n)] = g + (k - n)
      BY <3>1
    <3> QED
      BY <3>1, <3>2
  <2> QED
    BY <1>0, <2>1
<1>5. Later(r, n + m, file)
  <2> SUFFICES ASSUME NEW k \in 1..n + m, NEW v \in Contents(file), r[k] < v
               PROVE  r[k] \in Contents(file)
    BY DEF Later
  <2>1. v <= g /\ v \in Nat
    <3>1. file \in [1..Len(file) -> Nat] /\ DOMAIN file = 1..Len(file)
      BY LenProperties
    <3> QED
      BY <3>1 DEF Contents
  <2>2. CASE k \in 1..n /\ r[k] = s[k]
    BY <2>2 DEF Later
  <2>3. CASE k - n \in 1..m /\ r[k] = g + (k - n)
    BY <1>0, <2>1, <2>3
  <2> QED
    BY <1>4, <2>2, <2>3
<1>6. Values(r, n + m) = Values(s, n) \cup g+1..g+m
  <2>1. ASSUME NEW k \in 1..n + m
        PROVE  r[k] \in Values(s, n) \cup g+1..g+m
    <3>1. CASE k \in 1..n /\ r[k] = s[k]
      BY <3>1 DEF Values
    <3>2. CASE k - n \in 1..m /\ r[k] = g + (k - n)
      BY <1>0, <3>2
    <3> QED
      BY <1>4, <3>1, <3>2
  <2>2. ASSUME NEW k \in 1..n
        PROVE  s[k] \in Values(r, n + m)
    <3>1. k \in 1..n + m /\ r[k] = s[k]
      BY <1>0
    <3> QED
      BY <3>1 DEF Values
  <2>3. ASSUME NEW v \in g+1..g+m
        PROVE  v \in Values(r, n + m)
    <3>1. v - g \in 1..m /\ n + (v - g) \in 1..n + m /\ g + (v - g) = v
      BY <1>0
    <3>2. r[n + (v - g)] = v
      BY <3>1
    <3> QED
      BY <3>1, <3>2 DEF Values
  <2>4. Values(r, n + m) \subseteq Values(s, n) \cup g+1..g+m
    BY <2>1 DEF Values
  <2>5. Values(s, n) \subseteq Values(r, n + m)
    BY <2>2 DEF Values
  <2> QED
    BY <2>3, <2>4, <2>5
<1>7. \A k \in 1..n + m : r[k] <= g + m
  <2>1. ASSUME NEW k \in 1..n + m
        PROVE  r[k] <= g + m
    <3>1. CASE k \in 1..n /\ r[k] = s[k]
      BY <1>1, <3>1
    <3>2. CASE k - n \in 1..m /\ r[k] = g + (k - n)
      BY <1>0, <3>2
    <3> QED
      BY <1>4, <3>1, <3>2
  <2> QED
    BY <2>1
<1> QED
  BY <1>3, <1>5, <1>6, <1>7

\* The l characters behind LOG_BUFFER are put behind the text once more.
LEMMA CopyIs ==
  ASSUME NEW s \in Buffers, NEW l \in Nat, LogBuffer + 2 * l < Memory,
         HasText(s, LogBuffer + l)
  PROVE  LET r == Strncat(s, SubSeq(s, LogBuffer + 1, LogBuffer + l))
             n == LogBuffer + l
         IN /\ r \in Buffers /\ HasText(r, n + l) /\ n \in 0..Memory-1 /\ n + l \in 0..Memory-1
            /\ \A k \in 1..n : r[k] = s[k]
            /\ \A k \in 1..l : r[n + k] = s[LogBuffer + k]
            /\ \A k \in 1..l : LogBuffer + k \in 1..n
<1> DEFINE text == SubSeq(s, LogBuffer + 1, LogBuffer + l)
           n == LogBuffer + l
           r == Strncat(s, text)
<1>0. LogBuffer \in Nat \ {0} /\ Memory \in Nat
  BY LogBufferAssumption, MemoryAssumption
<1>1. n \in 0..Memory-1 /\ n + l \in 0..Memory-1 /\ n + l < Memory
      /\ LogBuffer \in 0..Memory /\ LogBuffer + l <= Memory
      /\ \A k \in 1..l : LogBuffer + k \in 1..n
  BY <1>0
<1>2. text \in Seq(Nat) /\ Len(text) = l /\ \A k \in 1..l : text[k] = s[LogBuffer + k]
  BY <1>1, CharsAre
<1> HIDE DEF text
<1>3. text \in Seq(Nat \ {Nul})
  <2>1. \A k \in 1..l : text[k] \in Nat \ {Nul}
    <3>1. \A k \in 1..l : text[k] # Nul
      BY <1>1, <1>2 DEF HasText
    <3>2. text \in [1..l -> Nat]
      BY <1>2, LenProperties
    <3> QED
      BY <3>1, <3>2
  <2>2. text \in [1..l -> Nat \ {Nul}]
    <3>1. DOMAIN text = 1..l /\ text = [k \in 1..l |-> text[k]]
      BY <1>2, LenProperties
    <3> QED
      BY <2>1, <3>1
  <2> QED
    BY <2>2
<1>4. HasText(s, n)
  OBVIOUS
<1> HIDE DEF n
<1>5. /\ r \in Buffers /\ HasText(r, n + l)
      /\ \A k \in 1..n : r[k] = s[k]
      /\ \A k \in 1..l : r[n + k] = text[k]
  BY <1>1, <1>2, <1>3, <1>4, StrncatIs
<1> QED
  BY <1>1, <1>2, <1>5 DEF text, n

LEMMA CopyOrdered ==
  ASSUME NEW s \in Buffers, NEW n \in 0..Memory-1, NEW l \in Nat, NEW r, NEW file,
         n + l < Memory,
         \A k \in 1..n : r[k] = s[k],
         \A k \in 1..l : \E i \in 1..n : r[n + k] = s[i],
         Ordered(s, n), Later(s, n, file)
  PROVE  /\ Ordered(r, n + l) /\ Later(r, n + l, file)
         /\ Values(r, n + l) = Values(s, n)
<1>0. Memory \in Nat /\ n \in Nat
  BY MemoryAssumption
<1>1. \A k \in 1..n : s[k] \in Nat
  BY <1>0 DEF Buffers
<1> DEFINE b == [k \in 1..l |-> r[n + k]]
<1>2. \A k \in 1..l : b[k] = r[n + k] /\ b[k] \in Nat /\ b[k] \in Values(s, n)
  BY <1>1 DEF Values
<1> HIDE DEF b
<1>3. Ordered(r, n + l)
  <2>1. \A k \in 1..l : \A p \in 1..n : b[k] < s[p] => b[k] \in Values(s, n)
    BY <1>2
  <2>2. \A p \in 1..l : \A q \in p+1..l :
          b[q] < b[p] => b[q] \in Values(s, n) \/ \E i \in 1..p-1 : b[i] = b[q]
    <3>1. \A p \in 1..l : \A q \in p+1..l : q \in 1..l
      OBVIOUS
    <3> QED
      BY <1>2, <3>1
  <2>3. \A k \in 1..n : r[k] = s[k] /\ s[k] \in Nat
    BY <1>1
  <2>4. \A k \in 1..l : r[n + k] = b[k] /\ b[k] \in Nat
    BY <1>2
  <2> QED
    BY <1>0, <2>1, <2>2, <2>3, <2>4, OrderedJoin
<1>4. \A k \in 1..n + l : \E i \in 1..n : r[k] = s[i]
  <2>1. ASSUME NEW k \in 1..n + l, n < k
        PROVE  \E i \in 1..n : r[k] = s[i]
    <3>1. k - n \in 1..l /\ n + (k - n) = k
      BY <1>0, <2>1
    <3>2. \E i \in 1..n : r[n + (k - n)] = s[i]
      BY <3>1
    <3> QED
      BY <3>1, <3>2
  <2> QED
    BY <1>0, <2>1
<1>5. Later(r, n + l, file)
  BY <1>4 DEF Later
<1>6. Values(r, n + l) = Values(s, n)
  <2>1. \A k \in 1..n : k \in 1..n + l
    BY <1>0
  <2>2. Values(r, n + l) \subseteq Values(s, n)
    BY <1>4 DEF Values
  <2>3. Values(s, n) \subseteq Values(r, n + l)
    BY <2>1 DEF Values
  <2> QED
    BY <2>2, <2>3
<1> QED
  BY <1>3, <1>5, <1>6
-----------------------------------------------------------------------------
(* What the steps do to todo.                                              *)

LEMMA CalmHead ==
  ASSUME NEW s \in Seq(Steps), Calm(s), s # <<>>
  PROVE  Head(s) \notin {"tail", "write"} /\ Head(s) \in Steps
<1>1. Head(s) = s[1] /\ 1 \in DOMAIN s /\ Head(s) \in Steps
  BY TailIs
<1> QED
  BY <1>1 DEF Calm

\* LOG_print with or without a full buffer.
LEMMA PrintTodo ==
  ASSUME NEW s \in Seq(Steps), s # <<>>, Head(s) = "print", Shape(s), NEW full \in BOOLEAN
  PROVE  LET t == (IF full THEN <<"tail", "write", "clear">> ELSE <<>>) \o Tail(s)
         IN /\ t \in Seq(Steps) /\ Shape(t)
            /\ full => t # <<>> /\ Head(t) = "tail"
            /\ ~full /\ t # <<>> => Head(t) \notin {"tail", "write"}
            /\ SavedFirst(s) => SavedFirst(t)
            /\ SavedFirst(s) /\ t # <<>> => Head(t) # "clear"
            /\ ThenCleared(s) => ThenCleared(t)
            /\ SavesAll(s) => SavesAll(t) /\ Saves(t)
<1> DEFINE r == Tail(s)
<1>1. /\ r \in Seq(Steps) /\ Calm(r) /\ Shape(r)
      /\ SavedFirst(s) => SavedFirst(r) /\ (r # <<>> => Head(r) # "clear")
      /\ ThenCleared(s) => ThenCleared(r)
      /\ SavesAll(s) => SavesAll(r) /\ Saves(r)
  BY PopShape, PopIs
<1>2. r # <<>> => Head(r) \notin {"tail", "write"}
  BY <1>1, CalmHead
<1> HIDE DEF r
<1>3. <<>> \o r = r
  BY <1>1, ConcatEmptySeq
<1>4. CASE full
  <2> DEFINE t == <<"tail", "write", "clear">> \o r
  <2>1. /\ t \in Seq(Steps) /\ Shape(t) /\ t # <<>> /\ Head(t) = "tail"
        /\ SavedFirst(r) /\ (r # <<>> => Head(r) # "clear") => SavedFirst(t)
        /\ ThenCleared(r) => ThenCleared(t)
        /\ SavesAll(r) => SavesAll(t)
        /\ Saves(r) => Saves(t)
    BY <1>1, FillShape
  <2> HIDE DEF t
  <2>2. (IF full THEN <<"tail", "write", "clear">> ELSE <<>>) \o r = t
    BY <1>4 DEF t
  <2> QED
    BY <1>1, <1>4, <2>1, <2>2 DEF r
<1>5. CASE ~full
  <2>1. (IF full THEN <<"tail", "write", "clear">> ELSE <<>>) \o r = r
    BY <1>3, <1>5
  <2> QED
    BY <1>1, <1>2, <1>5, <2>1 DEF r
<1> QED
  BY <1>4, <1>5

\* A failure is logged before the rest.
LEMMA FailTodo ==
  ASSUME NEW s \in Seq(Steps), Calm(s)
  PROVE  LET t == <<"print">> \o s
         IN t \in Seq(Steps) /\ Shape(t) /\ t # <<>> /\ Head(t) = "print"
<1> DEFINE a == <<"print">>
           t == a \o s
<1>1. a \in Seq(Steps) /\ Len(a) = 1 /\ a[1] = "print"
  BY DEF Steps
<1> HIDE DEF a
<1>2. /\ t \in Seq(Steps) /\ Len(t) = Len(a) + Len(s) /\ Len(s) \in Nat
      /\ DOMAIN t = 1..Len(a) + Len(s) /\ DOMAIN a = 1..Len(a)
      /\ \A p \in 1..Len(a) : t[p] = a[p]
      /\ \A p \in DOMAIN t :
           \/ p \in DOMAIN a /\ t[p] = a[p]
           \/ p > Len(a) /\ p - Len(a) \in DOMAIN s /\ t[p] = s[p - Len(a)]
  BY <1>1, ThenIs
<1> HIDE DEF t
<1>3. t[1] = "print" /\ Len(t) \in Nat \ {0}
  BY <1>1, <1>2
<1>4. \A p \in DOMAIN t : t[p] \notin {"tail", "write"}
  <2>1. \A p \in DOMAIN a : a[p] = "print"
    BY <1>1, <1>2
  <2> QED
    BY <1>2, <2>1 DEF Calm
<1>5. Shape(t)
  BY <1>2, <1>4, CalmShape DEF Calm
<1>6. t # <<>>
  <2>1. t = <<>> => Len(t) = 0
    OBVIOUS
  <2> QED
    BY <1>3, <2>1
<1>7. Head(t) = "print"
  BY <1>2, <1>3, <1>6, TailIs
<1> QED
  BY <1>2, <1>5, <1>6, <1>7 DEF t, a

-----------------------------------------------------------------------------
(* LoggedOnce.  As long as nothing has gone wrong, the buffer holds the    *)
(* last characters that were logged, and the file all others.              *)

LEMMA SpellsOut ==
  ASSUME NEW s \in Buffers, NEW n \in 0..Memory, NEW g \in Nat, n <= g,
         \A k \in 1..n : s[k] = g - n + k
  PROVE  All(g - n) \o Chars(s, n) = All(g)
<1> DEFINE a == All(g - n)
           t == Chars(s, n)
           c == All(g)
<1>0. n \in Nat /\ g - n \in Nat
  BY MemoryAssumption
<1>1. t \in Seq(Nat) /\ Len(t) = n /\ \A k \in 1..n : t[k] = s[k]
  BY FirstChars
<1>2. a \in Seq(Nat) /\ Len(a) = g - n /\ \A k \in 1..g - n : a[k] = k
  BY <1>0 DEF All
<1>3. c \in Seq(Nat) /\ Len(c) = g /\ \A k \in 1..g : c[k] = k
  BY DEF All
<1> HIDE DEF a, t, c
<1>4. a \o t \in Seq(Nat) /\ Len(a \o t) = g
  <2>1. a \o t \in Seq(Nat) /\ Len(a \o t) = Len(a) + Len(t)
    BY <1>1, <1>2, ConcatProperties
  <2> HIDE DEF a, t
  <2> QED
    BY <1>0, <1>1, <1>2, <2>1
<1>5. \A i \in 1..g : (a \o t)[i] = IF i <= g - n THEN a[i] ELSE t[i - (g - n)]
  <2>1. \A i \in 1..Len(a) + Len(t) : (a \o t)[i] =
                                        IF i <= Len(a) THEN a[i] ELSE t[i - Len(a)]
    BY <1>1, <1>2, ConcatProperties
  <2> QED
    BY <1>0, <1>1, <1>2, <2>1
<1>6. \A i \in 1..g : (a \o t)[i] = c[i]
  <2>1. ASSUME NEW i \in 1..g
        PROVE  (a \o t)[i] = i
    <3>1. CASE i <= g - n
      <4>1. i \in 1..g - n
        BY <1>0, <3>1
      <4> QED
        BY <1>2, <1>5, <3>1, <4>1
    <3>2. CASE ~(i <= g - n)
      <4>1. i - (g - n) \in 1..n /\ g - n + (i - (g - n)) = i
        BY <1>0, <3>2
      <4>2. t[i - (g - n)] = g - n + (i - (g - n))
        BY <1>1, <4>1
      <4> QED
        BY <1>5, <3>2, <4>1, <4>2
    <3> QED
      BY <3>1, <3>2
  <2> QED
    BY <1>3, <2>1
<1>7. a \o t = c
  BY <1>3, <1>4, <1>6, SeqEqual
<1> QED
  BY <1>7 DEF a, t, c
Holds(n) == /\ n <= logged /\ log_txt = All(logged - n)
            /\ \A k \in 1..n : log_object[k] = logged - n + k

Filling == Doing("tail") \/ Doing("write") \/ Doing("clear")

\* The text of n characters.  While a full buffer is written, what is appended
\* a second time lies behind the characters that count.
CleanText(n) ==
  /\ HasText(log_object, n)
  /\ Doing("tail") => n = LogBuffer + len /\ \E m \in Lines : len < m
  /\ Doing("write") => LogBuffer + len <= n /\ Holds(LogBuffer + len)
  /\ Doing("clear") => log_txt = All(logged)
  /\ ~(Doing("write") \/ Doing("clear")) => Holds(n)
  /\ ~Filling => n < LogBuffer

Clean == /\ log_object \in Buffers /\ len \in Nat /\ logged \in Nat
         /\ todo \in Seq(Steps) /\ Shape(todo) /\ SavedFirst(todo) /\ ThenCleared(todo)
         /\ \E n \in 0..Memory-1 : CleanText(n)

\* Only the copy of a long tail has overrun the array.
TailOverran == /\ Doing("overrun")
               /\ LogBuffer + 2 * len >= Memory
               /\ \E n \in Lines : n > len

OnceInv == /\ signals \in Nat /\ failures \in Nat
           /\ signals = 0 /\ failures = 0 => Clean \/ TailOverran

\* A line, or what lies behind LOG_BUFFER, fits if a NUL is left behind it.
LEMMA LineFits ==
  ASSUME NEW n \in 0..Memory-1, HasText(log_object, n), NEW m \in Nat, logged \in Nat
  PROVE  Fits(log_object, Line(m)) <=> n + m < Memory
<1> DEFINE line == Line(m)
<1>1. line \in [1..m -> Nat]
  BY DEF Line
<1>2. Len(line) = m
  <2> HIDE DEF line
  <2> QED
    BY <1>1
<1>3. Strlen(log_object) = n
  BY StrlenIs
<1> HIDE DEF line
<1>4. Fits(log_object, line) <=> n + m < Memory
  BY <1>2, <1>3 DEF Fits
<1> QED
  BY <1>4 DEF line

LEMMA TailFits ==
  ASSUME NEW n \in 0..Memory-1, HasText(log_object, n), log_object \in Buffers,
         len \in Nat, n = LogBuffer + len
  PROVE  Fits(log_object, Behind) <=> LogBuffer + 2 * len < Memory
<1>1. LogBuffer \in 0..Memory /\ LogBuffer + len <= Memory /\ Memory \in Nat
  BY LogBufferAssumption, MemoryAssumption
<1>2. Len(Behind) = len
  BY <1>1, CharsAre DEF Behind
<1>3. Strlen(log_object) = LogBuffer + len
  BY StrlenIs
<1>4. Fits(log_object, Behind) <=> LogBuffer + len + len < Memory
  BY <1>2, <1>3 DEF Fits
<1> QED
  BY <1>1, <1>4

\* Outside LOG_print and LOG_save the program has less than LOG_BUFFER characters.
LEMMA CleanKept ==
  ASSUME Clean, ~Filling,
         UNCHANGED <<log_object, len, log_txt, logged>>,
         todo' \in Seq(Steps), Shape(todo'), SavedFirst(todo'), ThenCleared(todo'),
         ~Filling'
  PROVE  Clean'
<1>1. PICK n \in 0..Memory-1 : CleanText(n)
  BY DEF Clean
<1>2. CleanText(n)'
  BY <1>1 DEF CleanText, Filling, Doing, Holds, HasText
<1> QED
  BY <1>2 DEF Clean

LEMMA PlanClean ==
  ASSUME Plan(todo')
  PROVE  /\ todo' \in Seq(Steps) /\ Shape(todo') /\ SavedFirst(todo') /\ ThenCleared(todo')
         /\ ~Filling'
<1>1. todo' \in Seq(Steps) /\ Calm(todo')
  BY DEF Plan
<1>2. Shape(todo')
  BY <1>1, CalmShape
<1> QED
  BY <1>1, <1>2 DEF Plan, Filling, Doing

LEMMA OncePrint ==
  ASSUME Clean, NEW m \in Lines, PrintLine(m)
  PROVE  Clean'
<1> DEFINE line == NewLine(logged, m)
           text == Strncat(log_object, line)
           full == Full(text)
<1>1. PICK n \in 0..Memory-1 : CleanText(n)
  BY DEF Clean
<1>2. /\ log_object \in Buffers /\ len \in Nat /\ logged \in Nat
      /\ todo \in Seq(Steps) /\ Shape(todo) /\ SavedFirst(todo) /\ ThenCleared(todo)
      /\ todo # <<>> /\ Head(todo) = "print"
      /\ log_object' = text /\ logged' = logged + m /\ len' = Overrun(text)
      /\ todo' = (IF full THEN <<"tail", "write", "clear">> ELSE <<>>) \o Tail(todo)
      /\ log_txt' = log_txt
  BY DEF Clean, PrintLine, Doing, NewLine, Line
<1>3. /\ HasText(log_object, n) /\ Holds(n) /\ n < LogBuffer
  BY <1>1, <1>2 DEF CleanText, Filling, Doing
<1>4. /\ m \in Nat \ {0} /\ n \in Nat /\ LogBuffer \in Nat \ {0} /\ Memory \in Nat
      /\ n + m < Memory /\ n + m \in 0..Memory-1
  BY <1>3, LinesAssumption, LogBufferAssumption, MemoryAssumption
<1>5. /\ text \in Buffers /\ HasText(text, n + m) /\ Strlen(text) = n + m
      /\ \A k \in 1..n : text[k] = log_object[k]
      /\ \A k \in 1..m : text[n + k] = logged + k
  <2>1. /\ log_object \in Buffers /\ logged \in Nat /\ m \in Nat /\ n + m < Memory
        /\ HasText(log_object, n)
    BY <1>2, <1>3, <1>4
  <2> QED
    BY <2>1, LineIs
<1> HIDE DEF text
<1>6. /\ todo' \in Seq(Steps) /\ Shape(todo') /\ SavedFirst(todo') /\ ThenCleared(todo')
      /\ full => todo' # <<>> /\ Head(todo') = "tail"
      /\ ~full /\ todo' # <<>> => Head(todo') \notin {"tail", "write", "clear"}
  <2>1. full \in BOOLEAN
    BY DEF Full
  <2> HIDE DEF full
  <2> QED
    BY <1>2, <2>1, PrintTodo
<1>7. /\ full <=> n + m >= LogBuffer
      /\ len' \in Nat
      /\ full => len' = n + m - LogBuffer
  BY <1>2, <1>4, <1>5 DEF Overrun, Full
<1>8. Holds(n + m)'
  <2>1. logged - n = (logged + m) - (n + m) /\ n + m <= logged + m
    BY <1>2, <1>3, <1>4 DEF Holds
  <2>2. ASSUME NEW k \in 1..n + m
        PROVE  text[k] = (logged + m) - (n + m) + k
    <3>1. CASE k <= n
      <4>1. k \in 1..n
        BY <1>4, <3>1
      <4> QED
        BY <1>3, <1>5, <2>1, <4>1 DEF Holds
    <3>2. CASE n < k
      <4>1. k - n \in 1..m /\ n + (k - n) = k
        BY <1>4, <3>2
      <4>2. text[n + (k - n)] = logged + (k - n)
        BY <1>5, <4>1
      <4>3. logged + (k - n) = (logged + m) - (n + m) + k
        BY <1>2, <1>4
      <4> QED
        BY <4>1, <4>2, <4>3
    <3> QED
      BY <1>4, <3>1, <3>2
  <2> QED
    BY <1>2, <1>3, <2>1, <2>2 DEF Holds
<1>9. CleanText(n + m)'
  <2>1. Doing("tail")' => (n + m = LogBuffer + len' /\ \E k \in Lines : len' < k)
    <3> SUFFICES ASSUME Doing("tail")'
                 PROVE  n + m = LogBuffer + len' /\ \E k \in Lines : len' < k
      OBVIOUS
    <3>1. full
      BY <1>6 DEF Doing
    <3>2. n + m = LogBuffer + len' /\ len' < m
      BY <1>3, <1>4, <1>7, <3>1
    <3> QED
      BY <3>2
  <2>2. ~Doing("write")' /\ ~Doing("clear")'
    BY <1>6 DEF Doing
  <2>3. ~Filling' => n + m < LogBuffer
    <3>1. ~full => n + m < LogBuffer
      BY <1>4, <1>7
    <3> QED
      BY <1>6, <3>1 DEF Doing, Filling
  <2>4. HasText(log_object, n + m)'
    BY <1>2, <1>5 DEF HasText
  <2> HIDE DEF full
  <2> QED
    BY <1>8, <2>1, <2>2, <2>3, <2>4 DEF CleanText
<1> QED
  BY <1>2, <1>4, <1>5, <1>6, <1>7, <1>9 DEF Clean

LEMMA OnceTail ==
  ASSUME Clean, CopyTail
  PROVE  Clean'
<1> DEFINE l == len
           text == Strncat(log_object, SubSeq(log_object, LogBuffer + 1, LogBuffer + len))
<1>0. Fits(log_object, Behind)
  BY DEF CopyTail
<1>1. PICK n \in 0..Memory-1 : CleanText(n)
  BY DEF Clean
<1>2. /\ log_object \in Buffers /\ len \in Nat /\ logged \in Nat
      /\ todo \in Seq(Steps) /\ Shape(todo) /\ SavedFirst(todo) /\ ThenCleared(todo)
      /\ todo # <<>> /\ Head(todo) = "tail"
      /\ log_object' = text /\ logged' = logged /\ len' = len
      /\ todo' = Tail(todo) /\ log_txt' = log_txt
  BY DEF Clean, CopyTail, Doing, Behind
<1>3. /\ HasText(log_object, n) /\ Holds(n) /\ n = LogBuffer + len
  BY <1>1, <1>2 DEF CleanText, Doing
<1>4. LogBuffer + 2 * len < Memory /\ LogBuffer \in Nat /\ n + len >= n
  BY <1>0, <1>2, <1>3, TailFits, LogBufferAssumption
<1>5. /\ text \in Buffers /\ HasText(text, n + len) /\ n + len \in 0..Memory-1
      /\ \A k \in 1..n : text[k] = log_object[k]
  BY <1>2, <1>3, <1>4, CopyIs
<1> HIDE DEF text
<1>6. /\ todo' \in Seq(Steps) /\ Shape(todo') /\ SavedFirst(todo') /\ ThenCleared(todo')
      /\ todo' # <<>> /\ Head(todo') = "write"
  BY <1>2, PopShape, PopIs
<1>7. Holds(LogBuffer + len)'
  BY <1>2, <1>3, <1>5 DEF Holds
<1>8. CleanText(n + len)'
  <2>1. Doing("write")' /\ ~Doing("tail")' /\ ~Doing("clear")'
    BY <1>6 DEF Doing
  <2>2. HasText(log_object, n + len)'
    BY <1>2, <1>5 DEF HasText
  <2>3. LogBuffer + len' <= n + len
    BY <1>2, <1>3, <1>4
  <2> QED
    BY <1>2, <1>7, <2>1, <2>2, <2>3 DEF CleanText, Filling, Holds
<1> QED
  BY <1>2, <1>5, <1>6, <1>8 DEF Clean

\* Nothing but the copy of a tail can overrun the array.
LEMMA OnceOverrun ==
  ASSUME Clean, OverrunArray
  PROVE  TailOverran'
<1>1. PICK n \in 0..Memory-1 : CleanText(n)
  BY DEF Clean
<1>2. /\ log_object \in Buffers /\ len \in Nat /\ logged \in Nat
      /\ HasText(log_object, n) /\ n \in Nat
      /\ todo' = <<"overrun">> /\ len' = len
  BY <1>1, MemoryAssumption DEF Clean, CleanText, OverrunArray
<1>3. ~Doing("print")
  <2> SUFFICES ASSUME Doing("print"), NEW m \in Lines, ~Fits(log_object, Line(m))
               PROVE  FALSE
    BY DEF OverrunArray, Doing
  <2>1. n < LogBuffer
    BY <1>1 DEF CleanText, Filling, Doing
  <2>2. m \in Nat /\ n + m < Memory
    BY <1>2, <2>1, LinesAssumption, LogBufferAssumption, MemoryAssumption
  <2> QED
    BY <1>2, <2>2, LineFits
<1>4. Doing("tail") /\ ~Fits(log_object, Behind)
  BY <1>3 DEF OverrunArray
<1>5. n = LogBuffer + len /\ \E m \in Lines : len < m
  BY <1>1, <1>4 DEF CleanText
<1>6. LogBuffer + 2 * len >= Memory
  BY <1>2, <1>4, <1>5, TailFits, LogBufferAssumption, MemoryAssumption
<1>7. \E m \in Lines : m > len
  BY <1>2, <1>5, LinesAssumption
<1>8. Doing("overrun")'
  BY <1>2 DEF Doing
<1> QED
  BY <1>2, <1>6, <1>7, <1>8 DEF TailOverran

LEMMA OnceWrite ==
  ASSUME Clean, Write, failures \in Nat, failures' = 0
  PROVE  Clean'
<1> DEFINE j == LogBuffer + len
<1>1. PICK n \in 0..Memory-1 : CleanText(n)
  BY DEF Clean
<1>2. /\ log_object \in Buffers /\ len \in Nat /\ logged \in Nat
      /\ todo \in Seq(Steps) /\ Shape(todo) /\ SavedFirst(todo) /\ ThenCleared(todo)
      /\ todo # <<>> /\ Head(todo) = "write"
      /\ log_object' = log_object /\ logged' = logged /\ len' = len
      /\ todo' = Tail(todo) /\ log_txt' = log_txt \o Chars(log_object, j)
  BY DEF Clean, Write, Doing
<1>3. HasText(log_object, n) /\ j <= n /\ Holds(j)
  BY <1>1, <1>2 DEF CleanText, Doing
<1>4. j \in 0..Memory
  BY <1>2, <1>3, LogBufferAssumption, MemoryAssumption
<1> HIDE DEF j
<1>5. log_txt' = All(logged)
  <2>1. j <= logged /\ log_txt = All(logged - j) /\ \A k \in 1..j : log_object[k] = logged - j + k
    BY <1>3 DEF Holds
  <2> QED
    BY <1>2, <1>4, <2>1, SpellsOut
<1>6. /\ todo' \in Seq(Steps) /\ Shape(todo') /\ SavedFirst(todo') /\ ThenCleared(todo')
      /\ todo' # <<>> /\ Head(todo') = "clear"
  BY <1>2, PopShape, PopIs
<1>7. CleanText(n)'
  BY <1>2, <1>3, <1>5, <1>6 DEF CleanText, Doing, Filling, HasText
<1> QED
  BY <1>2, <1>6, <1>7 DEF Clean

LEMMA OnceClear ==
  ASSUME Clean, Clear, failures \in Nat, failures' = 0
  PROVE  Clean'
<1>1. PICK n \in 0..Memory-1 : CleanText(n)
  BY DEF Clean
<1>2. /\ log_object \in Buffers /\ len \in Nat /\ logged \in Nat
      /\ todo \in Seq(Steps) /\ Shape(todo) /\ SavedFirst(todo) /\ ThenCleared(todo)
      /\ todo # <<>> /\ Head(todo) = "clear"
      /\ log_object' = Memset(log_object) /\ logged' = logged /\ len' = len
      /\ todo' = Tail(todo) /\ log_txt' = log_txt
  BY DEF Clean, Clear, Doing
<1>3. log_txt = All(logged)
  BY <1>1, <1>2 DEF CleanText, Doing
<1>4. log_object' \in Buffers /\ HasText(log_object', 0) /\ 0 \in 0..Memory-1 /\ 0 < LogBuffer
  BY <1>2, MemsetIs, LogBufferAssumption, MemoryAssumption
<1>5. /\ todo' \in Seq(Steps) /\ Shape(todo') /\ SavedFirst(todo') /\ ThenCleared(todo')
      /\ todo' # <<>> => Head(todo') \notin {"tail", "write", "clear"}
  BY <1>2, PopShape, PopIs, CalmHead
<1>6. Holds(0)'
  BY <1>2, <1>3 DEF Holds
<1>7. CleanText(0)'
  <2>1. ~Doing("tail")' /\ ~Doing("write")' /\ ~Doing("clear")'
    BY <1>5 DEF Doing
  <2> QED
    BY <1>4, <1>6, <2>1 DEF CleanText, Filling, HasText
<1> QED
  BY <1>2, <1>4, <1>5, <1>7 DEF Clean

LEMMA OnceSave ==
  ASSUME Clean, Save, failures \in Nat, failures' = 0
  PROVE  Clean'
<1>1. PICK n \in 0..Memory-1 : CleanText(n)
  BY DEF Clean
<1>2. /\ log_object \in Buffers /\ len \in Nat /\ logged \in Nat
      /\ todo \in Seq(Steps) /\ Shape(todo) /\ SavedFirst(todo) /\ ThenCleared(todo)
      /\ todo # <<>> /\ Head(todo) = "save"
      /\ log_object' = log_object /\ logged' = logged /\ len' = len
      /\ todo' = Tail(todo) /\ log_txt' = log_txt \o Chars(log_object, Strlen(log_object))
  BY DEF Clean, Save, Doing
<1>3. HasText(log_object, n) /\ Holds(n)
  BY <1>1, <1>2 DEF CleanText, Doing
<1>4. n \in 0..Memory /\ Strlen(log_object) = n
  BY <1>3, MemoryAssumption, StrlenIs
<1>5. log_txt' = All(logged)
  <2>1. n <= logged /\ log_txt = All(logged - n) /\ \A k \in 1..n : log_object[k] = logged - n + k
    BY <1>3 DEF Holds
  <2> QED
    BY <1>2, <1>4, <2>1, SpellsOut
<1>6. /\ todo' \in Seq(Steps) /\ Shape(todo') /\ SavedFirst(todo') /\ ThenCleared(todo')
      /\ todo' # <<>> /\ Head(todo') = "clear"
  BY <1>2, PopShape, PopIs
<1>7. CleanText(n)'
  BY <1>2, <1>3, <1>5, <1>6 DEF CleanText, Doing, Filling, HasText
<1> QED
  BY <1>2, <1>6, <1>7 DEF Clean

LEMMA OnceExit ==
  ASSUME Clean, Exit
  PROVE  Clean'
<1>1. ~Filling /\ UNCHANGED <<log_object, len, log_txt, logged>>
  BY DEF Exit, Filling, Doing
<1>2. Plan(todo')
  BY PlansAre DEF Exit
<1> QED
  BY <1>1, <1>2, PlanClean, CleanKept

LEMMA OnceProgram ==
  ASSUME Clean, Program
  PROVE  Clean'
<1>1. ~Filling /\ UNCHANGED <<log_object, len, log_txt, logged>>
  BY DEF Program, Filling, Doing
<1>2. CASE Plan(todo')
  BY <1>1, <1>2, PlanClean, CleanKept
<1>3. CASE todo' = todo
  <2>1. ~Filling'
    BY <1>1, <1>3 DEF Filling, Doing
  <2>2. todo' \in Seq(Steps) /\ Shape(todo') /\ SavedFirst(todo') /\ ThenCleared(todo')
    BY <1>3 DEF Clean
  <2> QED
    BY <1>1, <2>1, <2>2, CleanKept
<1> QED
  BY <1>2, <1>3, PlansAre DEF Program

LEMMA OnceInit == Init => OnceInv
<1> SUFFICES ASSUME Init PROVE OnceInv
  OBVIOUS
<1>1. /\ log_object \in Buffers /\ log_object[1] = Nul /\ len = 0 /\ logged = 0 /\ signals = 0
      /\ log_txt = <<>> /\ todo = <<>> /\ failures = 0
  <2>1. 1 \in 1..Memory /\ Nul \in Nat
    BY MemoryAssumption, LogBufferAssumption DEF Nul
  <2> QED
    BY <2>1 DEF Init, Buffers
<1>2. /\ todo \in Seq(Steps) /\ DOMAIN todo = {}
  BY <1>1, EmptySeq, LenProperties
<1>3. Shape(todo) /\ SavedFirst(todo) /\ ThenCleared(todo)
  BY <1>2 DEF Shape, SavedFirst, ThenCleared
<1>4. 0 \in 0..Memory-1 /\ 0 < LogBuffer
  BY MemoryAssumption, LogBufferAssumption
<1>5. CleanText(0)
  <2>1. ~Doing("tail") /\ ~Doing("write") /\ ~Doing("clear")
    BY <1>1 DEF Doing
  <2>2. All(0) = <<>>
    <3>1. All(0) \in Seq(Nat) /\ Len(All(0)) = 0
      BY DEF All
    <3> QED
      BY <3>1, EmptySeq
  <2> QED
    BY <1>1, <1>4, <2>1, <2>2 DEF CleanText, Filling, HasText, Holds
<1> QED
  BY <1>1, <1>2, <1>3, <1>4, <1>5 DEF OnceInv, Clean

\* When the array is overrun the model stops.
LEMMA NothingAfter ==
  ASSUME Doing("overrun"), [Next]_vars
  PROVE  UNCHANGED vars
<1>1. todo # <<>> /\ \A step \in Steps : step # "overrun" => ~Doing(step)
  BY DEF Doing
<1>2. /\ ~Doing("print") /\ ~Doing("tail") /\ ~Doing("write") /\ ~Doing("clear")
      /\ ~Doing("save") /\ ~Doing("exit")
  BY DEF Doing
<1>3. ~(Step \/ Program \/ Signal)
  BY <1>1, <1>2 DEF Step, PrintLine, CopyTail, OverrunArray, Write, Clear, Save, Exit,
                    Program, Signal
<1> QED
  BY <1>3 DEF Next

LEMMA OnceNext == OnceInv /\ [Next]_vars => OnceInv'
<1> SUFFICES ASSUME OnceInv, [Next]_vars
             PROVE  OnceInv'
  OBVIOUS
<1>1. CASE Signal
  BY <1>1 DEF OnceInv, Signal
<1>2. ASSUME ~Signal
      PROVE  signals' = signals
  BY <1>2 DEF Next, Step, PrintLine, CopyTail, OverrunArray, Write, Clear, Save, Exit,
              Program, vars
<1>3. failures \in Nat /\ failures' \in Nat /\ (failures' = 0 => failures = 0)
  <2>1. failures' = failures \/ failures' = failures + 1
    BY Zenon DEF Next, Step, PrintLine, CopyTail, OverrunArray, Write, Clear, Save, Exit,
                 Program, Signal, vars
  <2>2. failures \in Nat
    BY DEF OnceInv
  <2> QED
    BY <2>1, <2>2
<1>4. ASSUME ~Signal, signals' = 0, failures' = 0
      PROVE  Clean' \/ TailOverran'
  <2>1. Clean \/ TailOverran
    BY <1>2, <1>3, <1>4 DEF OnceInv
  <2>2. CASE Clean
    <3>2. CASE \E m \in Lines : PrintLine(m)
      BY <2>2, <3>2, OncePrint
    <3>3. CASE CopyTail
      BY <2>2, <3>3, OnceTail
    <3>4. CASE Write
      BY <1>3, <1>4, <2>2, <3>4, OnceWrite
    <3>5. CASE Clear
      BY <1>3, <1>4, <2>2, <3>5, OnceClear
    <3>6. CASE Save
      BY <1>3, <1>4, <2>2, <3>6, OnceSave
    <3>7. CASE Exit
      BY <2>2, <3>7, OnceExit
    <3>8. CASE Program
      BY <2>2, <3>8, OnceProgram
    <3>9. CASE UNCHANGED vars
      BY <2>2, <3>9 DEF vars, Clean, CleanText, Filling, Doing, Holds, HasText
    <3>10. CASE OverrunArray
      BY <2>2, <3>10, OnceOverrun
    <3> QED
      BY <1>4, <3>2, <3>3, <3>4, <3>5, <3>6, <3>7, <3>8, <3>9, <3>10 DEF Next, Step
  <2>3. CASE TailOverran
    <3>1. UNCHANGED vars
      BY <1>4, <2>3, NothingAfter DEF TailOverran
    <3> QED
      BY <2>3, <3>1 DEF vars, TailOverran, Doing
  <2> QED
    BY <2>1, <2>2, <2>3
<1> QED
  BY <1>1, <1>2, <1>3, <1>4 DEF OnceInv

LEMMA OnceAlways == Spec => []OnceInv
<1> QED
  BY OnceInit, OnceNext, PTL DEF Spec

\* Until something goes wrong, file and buffer hold all that was logged, once and
\* in order, for every length of the buffer and of the lines (LOG_print, LOG_save).
THEOREM EveryLineOnce == Spec => []LoggedOnce
<1>1. OnceInv => LoggedOnce
  <2> SUFFICES ASSUME OnceInv, signals = 0, failures = 0, ~Filling, ~Doing("overrun")
               PROVE  log_txt \o Chars(log_object, Strlen(log_object)) = All(logged)
    BY DEF LoggedOnce, Filling
  <2>1. Clean
    BY DEF OnceInv, TailOverran
  <2>2. PICK n \in 0..Memory-1 : CleanText(n)
    BY <2>1 DEF Clean
  <2>3. HasText(log_object, n) /\ Holds(n) /\ log_object \in Buffers /\ logged \in Nat
    BY <2>1, <2>2 DEF CleanText, Filling, Clean
  <2>4. n \in 0..Memory /\ Strlen(log_object) = n
    BY <2>3, MemoryAssumption, StrlenIs
  <2>5. n <= logged /\ log_txt = All(logged - n) /\ \A k \in 1..n : log_object[k] = logged - n + k
    BY <2>3 DEF Holds
  <2> QED
    BY <2>3, <2>4, <2>5, SpellsOut
<1> QED
  BY <1>1, OnceAlways, PTL

\* Nothing is ever set out to do that is an overrun.
Ahead == Steps \ {"overrun"}
Planned == todo \in Seq(Ahead) \/ todo = <<"overrun">>

LEMMA AheadIs ==
  /\ LOG_save \in Seq(Ahead) /\ SOCKET_free \in Seq(Ahead) /\ app_terminate \in Seq(Ahead)
  /\ \A x \in Ahead : <<x>> \in Seq(Ahead)
  /\ <<"print", "exit">> \in Seq(Ahead) /\ <<"tail", "write", "clear">> \in Seq(Ahead)
  /\ \A s, t \in Seq(Ahead) : s \o t \in Seq(Ahead)
  /\ \A s \in Seq(Ahead) : s # <<>> => Head(s) \in Ahead /\ Tail(s) \in Seq(Ahead)
<1>1. \A x \in Ahead : <<x>> \in Seq(Ahead)
  OBVIOUS
<1>2. \A s, t \in Seq(Ahead) : s \o t \in Seq(Ahead)
  BY ConcatProperties
<1>3. \A s \in Seq(Ahead) : s # <<>> => Head(s) \in Ahead /\ Tail(s) \in Seq(Ahead)
  BY HeadTailProperties
<1>4. LOG_save \in Seq(Ahead) /\ <<"print">> \in Seq(Ahead) /\ <<"exit">> \in Seq(Ahead)
  BY DEF LOG_save, Ahead, Steps
<1>5. SOCKET_free \in Seq(Ahead)
  <2> DEFINE lines == [i \in 1..FreeLines |-> "print"]
  <2>1. lines \in Seq(Ahead)
    BY FreeLinesAssumption DEF Ahead, Steps
  <2> HIDE DEF lines
  <2>2. lines \o LOG_save \in Seq(Ahead)
    BY <1>2, <1>4, <2>1
  <2> QED
    BY <2>2 DEF SOCKET_free, lines
<1>6. app_terminate \in Seq(Ahead)
  BY <1>2, <1>4, <1>5, Zenon DEF app_terminate
<1>7. <<"print", "exit">> \in Seq(Ahead) /\ <<"tail", "write", "clear">> \in Seq(Ahead)
  BY DEF Ahead, Steps
<1> QED
  BY <1>1, <1>2, <1>3, <1>4, <1>5, <1>6, <1>7

LEMMA PlannedNext ==
  ASSUME Planned, [Next]_vars
  PROVE  Planned' /\ (Doing("overrun")' => Doing("overrun") \/ OverrunArray)
<1>1. CASE todo = <<"overrun">>
  <2>1. Doing("overrun")
    BY <1>1 DEF Doing
  <2>2. UNCHANGED vars
    BY <2>1, NothingAfter
  <2> QED
    BY <1>1, <2>1, <2>2 DEF vars, Planned
<1>2. CASE OverrunArray
  BY <1>2 DEF OverrunArray, Planned
<1>3. CASE todo \in Seq(Ahead) /\ ~OverrunArray
  <2> SUFFICES todo' \in Seq(Ahead)
    <3>1. ASSUME todo' \in Seq(Ahead)
          PROVE  ~Doing("overrun")'
      <4>1. todo' # <<>> => Head(todo') \in Ahead
        BY <3>1, AheadIs
      <4> QED
        BY <4>1 DEF Doing, Ahead
    <3> QED
      BY <3>1 DEF Planned
  <2> DEFINE r == Tail(todo)
  <2>1. todo # <<>> => r \in Seq(Ahead)
    BY <1>3, AheadIs
  <2>2. \A x \in Steps : Doing(x) => todo # <<>>
    BY DEF Doing
  <2>3. <<>> \in Seq(Ahead) /\ {"print", "exit", "end"} \subseteq Ahead
    BY DEF Ahead, Steps
  <2> HIDE DEF r
  <2>4. CASE \E m \in Lines : PrintLine(m)
    <3>1. r \in Seq(Ahead)
      BY <2>1, <2>4 DEF PrintLine, Doing
    <3>2. \E a \in {<<"tail", "write", "clear">>, <<>>} : todo' = a \o r
      BY <2>4, Zenon DEF PrintLine, r
    <3>3. {<<"tail", "write", "clear">>, <<>>} \subseteq Seq(Ahead)
      BY <2>3, AheadIs
    <3> QED
      BY <3>1, <3>2, <3>3, AheadIs, ZenonT(40)
  <2>5. CASE CopyTail \/ Write \/ Clear \/ Save
    <3>1. r \in Seq(Ahead)
      BY <2>1, <2>5 DEF CopyTail, Write, Clear, Save, Doing
    <3>2. todo' = r \/ todo' = <<"print">> \o r \/ todo' = <<"print", "exit">>
      BY <2>5, Zenon DEF CopyTail, Write, Clear, Save, r
    <3>3. <<"print">> \in Seq(Ahead)
      BY <2>3, AheadIs
    <3>4. <<"print">> \o r \in Seq(Ahead)
      BY <3>1, <3>3, AheadIs, Zenon
    <3> QED
      BY <3>1, <3>2, <3>4, AheadIs
  <2>6. CASE Exit
    <3>1. todo' = SOCKET_free \o <<"end">> \/ todo' = <<"end">>
      BY <2>6, Zenon DEF Exit
    <3>2. <<"end">> \in Seq(Ahead)
      BY <2>3, AheadIs
    <3>3. SOCKET_free \o <<"end">> \in Seq(Ahead)
      BY <3>2, AheadIs, Zenon
    <3> QED
      BY <3>1, <3>2, <3>3
  <2>7. CASE Program
    <3>1. \/ todo' \in {<<"print">>, LOG_save, <<"exit">>}
          \/ todo' = todo
          \/ todo' = <<"print">> \o LOG_save \o <<"exit">>
          \/ todo' = SOCKET_free \o <<"exit">>
      BY <2>7, Zenon DEF Program
    <3>2. <<"print">> \in Seq(Ahead) /\ <<"exit">> \in Seq(Ahead)
      BY <2>3, AheadIs
    <3>3. <<"print">> \o LOG_save \in Seq(Ahead) /\ SOCKET_free \o <<"exit">> \in Seq(Ahead)
      BY <3>2, AheadIs, Zenon
    <3>4. <<"print">> \o LOG_save \o <<"exit">> \in Seq(Ahead)
      BY <3>2, <3>3, AheadIs, Zenon
    <3> QED
      BY <1>3, <3>1, <3>2, <3>3, <3>4, AheadIs
  <2>8. CASE Signal
    BY <2>8, AheadIs DEF Signal
  <2>9. CASE UNCHANGED vars
    BY <1>3, <2>9 DEF vars
  <2> QED
    BY <1>3, <2>4, <2>5, <2>6, <2>7, <2>8, <2>9 DEF Next, Step
<1> QED
  BY <1>1, <1>2, <1>3 DEF Planned

\* Until something goes wrong no line is too long for the array, and no tail is that
\* would have had room a second time (LOG_print, log.c:62).
THEOREM LongTailsOverrun == Spec => []OnlyLongTailsOverrun
<1> DEFINE Inv == OnceInv /\ Planned /\ (Doing("overrun") /\ signals = 0 /\ failures = 0 => TailOverran)
<1>1. Init => Inv
  <2> SUFFICES ASSUME Init PROVE Inv
    OBVIOUS
  <2>1. todo = <<>> /\ todo \in Seq(Ahead)
    BY DEF Init
  <2> QED
    BY <2>1, OnceInit DEF Planned, Doing
<1>2. Inv /\ [Next]_vars => Inv'
  <2> SUFFICES ASSUME Inv, [Next]_vars
               PROVE  Inv'
    OBVIOUS
  <2>1. OnceInv' /\ Planned'
    BY OnceNext, PlannedNext
  <2>2. ASSUME Doing("overrun")', signals' = 0, failures' = 0
        PROVE  TailOverran'
    <3>1. CASE Doing("overrun")
      <4>1. UNCHANGED vars
        BY <3>1, NothingAfter
      <4> QED
        BY <2>2, <3>1, <4>1 DEF vars, TailOverran, Doing
    <3>2. CASE ~Doing("overrun") /\ OverrunArray
      <4>1. signals = 0 /\ failures = 0
        BY <2>2, <3>2 DEF OverrunArray
      <4>2. Clean
        BY <3>2, <4>1 DEF OnceInv, TailOverran
      <4> QED
        BY <3>2, <4>2, OnceOverrun
    <3> QED
      BY <2>2, <3>1, <3>2, PlannedNext
  <2> QED
    BY <2>1, <2>2
<1>3. Inv => OnlyLongTailsOverrun
  BY DEF OnlyLongTailsOverrun, TailOverran
<1> HIDE DEF Inv
<1> QED
  BY <1>1, <1>2, <1>3, PTL DEF Spec

-----------------------------------------------------------------------------
(* TypeOK, InOrder and NothingLost. When a signal interrupts LOG_print    *)
(* after the copy, or the file cannot be closed, the tail is there twice,  *)
(* and what is logged next is put behind it and copied in turn, until the  *)
(* array is overrun.                                                       *)

\* Where the text of n characters ends while a full buffer is written.
TailThere(n) == /\ Doing("tail") => n = LogBuffer + len
                /\ Doing("write") => LogBuffer + len <= n

\* What was logged is in the file or in the buffer.
Kept(n) ==
  /\ 1..logged \subseteq Contents(log_txt) \cup Values(log_object, n)
  /\ Doing("write") =>
       1..logged \subseteq Contents(log_txt) \cup Values(log_object, LogBuffer + len)
  /\ Doing("clear") => 1..logged \subseteq Contents(log_txt)

TextOf(n) ==
  /\ HasText(log_object, n) /\ TailThere(n)
  /\ \A k \in 1..n : log_object[k] <= logged
  /\ Ordered(log_object, n) /\ Later(log_object, n, log_txt)
  /\ failures = 0 => Kept(n)

FileInv == /\ \A v \in Contents(log_txt) : v <= logged
           /\ Ordered(log_txt, Len(log_txt))

\* Once the process must end, all that was logged is saved, or will be.
SavedInv == /\ failures = 0 => SavedFirst(todo)
            /\ failures = 0 /\ (signals > 0 \/ atexit = "called") =>
                 /\ SavesAll(todo)
                 /\ Saves(todo) \/ 1..logged \subseteq Contents(log_txt)

Typed == /\ log_object \in [1..Memory -> Nat]
         /\ len \in Nat
         /\ log_txt \in Seq(Nat)
         /\ logged \in Nat
         /\ todo \in Seq(Steps)
         /\ atexit \in {"none", "registered", "called"}
         /\ signals \in 0..MaxTrouble /\ failures \in 0..MaxTrouble

TextInv == /\ Typed /\ Trouble \in 0..MaxTrouble
           /\ Shape(todo) /\ FileInv /\ SavedInv
           /\ \E n \in 0..Memory-1 : TextOf(n)

Overran == Doing("overrun") /\ Typed /\ TextEnds /\ FileInv
LogInv == TextInv \/ Overran

LEMMA TextInvEnds == TextInv => TextEnds
<1> SUFFICES ASSUME NEW n \in 0..Memory-1, TextOf(n)
             PROVE  TextEnds
  BY DEF TextInv
<1>1. n + 1 \in 1..Memory
  BY MemoryAssumption
<1> QED
  BY <1>1 DEF TextOf, HasText, TextEnds

LEMMA Sizes == LogBuffer \in Nat \ {0} /\ Memory \in Nat /\ LogBuffer < Memory
BY LogBufferAssumption, MemoryAssumption

LEMMA TextPrint ==
  ASSUME TextInv, NEW m \in Lines, PrintLine(m)
  PROVE  TextInv'
<1> DEFINE s == log_object
           g == logged
           text == Strncat(s, NewLine(g, m))
           full == Full(text)
<1>1. PICK n \in 0..Memory-1 : TextOf(n)
  BY DEF TextInv
<1>2. /\ s \in Buffers /\ len \in Nat /\ g \in Nat /\ log_txt \in Seq(Nat)
      /\ todo \in Seq(Steps) /\ Shape(todo)
      /\ todo # <<>> /\ Head(todo) = "print"
      /\ log_object' = text /\ logged' = g + m /\ len' = Overrun(text)
      /\ todo' = (IF full THEN <<"tail", "write", "clear">> ELSE <<>>) \o Tail(todo)
      /\ log_txt' = log_txt /\ atexit' = atexit /\ signals' = signals /\ failures' = failures
  BY DEF TextInv, Typed, PrintLine, Doing, NewLine, Line, Buffers
<1>3. Trouble \in 0..MaxTrouble /\ Trouble' = Trouble
  BY <1>2 DEF TextInv, Trouble
<1>4. m \in Nat \ {0} /\ n \in Nat /\ LogBuffer \in Nat /\ Memory \in Nat
  BY LinesAssumption, Sizes
<1>5. n + m < Memory /\ n + m \in 0..Memory-1
  <2>1. HasText(log_object, n) /\ Fits(log_object, Line(m)) /\ logged \in Nat
    BY <1>1, <1>2 DEF TextOf, PrintLine
  <2>2. n + m < Memory
    BY <1>4, <2>1, LineFits
  <2> QED
    BY <1>4, <2>2
<1>6. HasText(s, n) /\ (\A k \in 1..n : s[k] <= g) /\ Ordered(s, n) /\ Later(s, n, log_txt)
      /\ (failures = 0 => Kept(n))
  BY <1>1 DEF TextOf
<1>7. /\ text \in Buffers /\ HasText(text, n + m) /\ Strlen(text) = n + m
      /\ \A k \in 1..n : text[k] = s[k]
      /\ \A k \in 1..m : text[n + k] = g + k
  <2>1. s \in Buffers /\ g \in Nat /\ m \in Nat /\ n + m < Memory /\ HasText(s, n)
    BY <1>2, <1>4, <1>5, <1>6
  <2> HIDE DEF s, g
  <2> QED
    BY <2>1, LineIs
<1>8. /\ \A v \in Contents(log_txt) : v <= g
      /\ Ordered(log_txt, Len(log_txt))
  BY DEF TextInv, FileInv
<1>9. /\ Ordered(text, n + m) /\ Later(text, n + m, log_txt)
      /\ Values(text, n + m) = Values(s, n) \cup g+1..g+m
      /\ \A k \in 1..n + m : text[k] <= g + m
  <2>1. s \in Buffers /\ g \in Nat /\ m \in Nat /\ log_txt \in Seq(Nat)
    BY <1>2, <1>4
  <2> HIDE DEF s, g, text
  <2> QED
    BY <1>5, <1>6, <1>7, <1>8, <2>1, LineOrdered
<1> HIDE DEF text
<1>10. /\ todo' \in Seq(Steps) /\ Shape(todo')
       /\ full => todo' # <<>> /\ Head(todo') = "tail"
       /\ ~full /\ todo' # <<>> => Head(todo') \notin {"tail", "write"}
       /\ SavedFirst(todo) => SavedFirst(todo')
       /\ SavedFirst(todo) /\ todo' # <<>> => Head(todo') # "clear"
       /\ SavesAll(todo) => SavesAll(todo') /\ Saves(todo')
  <2>1. full \in BOOLEAN
    BY DEF Full
  <2> HIDE DEF full
  <2> QED
    BY <1>2, <2>1, PrintTodo
<1>11. /\ full <=> n + m >= LogBuffer
       /\ len' \in Nat
       /\ full => len' = n + m - LogBuffer
  BY <1>2, <1>4, <1>7 DEF Overrun, Full
<1> HIDE DEF full, s, g
<1>12. Typed'
  <2>1. /\ atexit' \in {"none", "registered", "called"}
        /\ signals' \in 0..MaxTrouble /\ failures' \in 0..MaxTrouble
    BY <1>2 DEF TextInv, Typed
  <2>2. logged' \in Nat
    BY <1>2, <1>4 DEF g
  <2> QED
    BY <1>2, <1>7, <1>10, <1>11, <2>1, <2>2 DEF Typed, Buffers
<1>13. FileInv'
  <2>1. \A v \in Contents(log_txt) : v <= g + m
    <3>1. \A v \in Contents(log_txt) : v \in Nat
      <4>1. log_txt \in [1..Len(log_txt) -> Nat] /\ DOMAIN log_txt = 1..Len(log_txt)
        BY <1>2, LenProperties
      <4> QED
        BY <4>1 DEF Contents
    <3> QED
      BY <1>2, <1>4, <1>8, <3>1
  <2> QED
    BY <1>2, <1>8, <2>1 DEF FileInv
<1>14. SavedInv'
  BY <1>2, <1>10 DEF TextInv, SavedInv
<1>15. TailThere(n + m)'
  <2>1. Doing("tail")' => full
    BY <1>10 DEF Doing
  <2>2. ~Doing("write")'
    BY <1>10 DEF Doing
  <2>3. full => n + m = LogBuffer + len'
    BY <1>4, <1>11
  <2> QED
    BY <2>1, <2>2, <2>3 DEF TailThere
<1>16. failures' = 0 => Kept(n + m)'
  <2> SUFFICES ASSUME failures = 0
               PROVE  Kept(n + m)'
    BY <1>2
  <2>1. SavedFirst(todo)
    BY DEF TextInv, SavedInv
  <2>2. ~Doing("write")' /\ ~Doing("clear")'
    BY <1>10, <2>1 DEF Doing
  <2>3. 1..g + m \subseteq Contents(log_txt) \cup Values(text, n + m)
    <3>1. 1..g \subseteq Contents(log_txt) \cup Values(s, n)
      BY <1>6 DEF Kept, s, g
    <3>2. \A v \in 1..g + m : v \in 1..g \/ v \in g+1..g+m
      BY <1>2, <1>4
    <3> QED
      BY <1>9, <3>1, <3>2
  <2> QED
    BY <1>2, <2>2, <2>3 DEF Kept
<1>17. TextOf(n + m)'
  <2>1. HasText(log_object, n + m)'
    BY <1>2, <1>7 DEF HasText
  <2>2. (\A k \in 1..n + m : log_object[k] <= logged)'
    BY <1>2, <1>9
  <2>3. Ordered(log_object, n + m)'
    BY <1>2, <1>9 DEF Ordered
  <2>4. Later(log_object, n + m, log_txt)'
    BY <1>2, <1>9 DEF Later, Contents
  <2> QED
    BY <1>15, <1>16, <2>1, <2>2, <2>3, <2>4 DEF TextOf
<1> QED
  BY <1>3, <1>5, <1>10, <1>12, <1>13, <1>14, <1>17 DEF TextInv
LEMMA TextTail ==
  ASSUME TextInv, CopyTail
  PROVE  TextInv'
<1> DEFINE s == log_object
           text == Strncat(s, SubSeq(s, LogBuffer + 1, LogBuffer + len))
<1>1. PICK n \in 0..Memory-1 : TextOf(n)
  BY DEF TextInv
<1>2. /\ s \in Buffers /\ len \in Nat /\ logged \in Nat /\ log_txt \in Seq(Nat)
      /\ todo \in Seq(Steps) /\ Shape(todo) /\ todo # <<>> /\ Head(todo) = "tail"
      /\ log_object' = text /\ logged' = logged /\ len' = len /\ todo' = Tail(todo)
      /\ log_txt' = log_txt /\ atexit' = atexit /\ signals' = signals /\ failures' = failures
  BY DEF TextInv, Typed, CopyTail, Doing, Behind, Buffers
<1>3. Trouble \in 0..MaxTrouble /\ Trouble' = Trouble
  BY <1>2 DEF TextInv, Trouble
<1>4. /\ n = LogBuffer + len /\ n \in Nat /\ LogBuffer \in Nat /\ Memory \in Nat
      /\ LogBuffer + 2 * len < Memory
  <2>1. TailThere(n) /\ HasText(log_object, n)
    BY <1>1 DEF TextOf
  <2>2. n = LogBuffer + len
    BY <1>2, <2>1 DEF TailThere, Doing
  <2>3. Fits(log_object, Behind)
    BY DEF CopyTail
  <2>4. LogBuffer + 2 * len < Memory
    BY <1>2, <2>1, <2>2, <2>3, TailFits
  <2> QED
    BY <2>2, <2>4, Sizes
<1>5. HasText(s, n) /\ (\A k \in 1..n : s[k] <= logged) /\ Ordered(s, n) /\ Later(s, n, log_txt)
      /\ (failures = 0 => Kept(n))
  BY <1>1 DEF TextOf
<1>6. /\ text \in Buffers /\ HasText(text, n + len) /\ n + len \in 0..Memory-1
      /\ \A k \in 1..n : text[k] = s[k]
      /\ \A k \in 1..len : text[n + k] = s[LogBuffer + k]
      /\ \A k \in 1..len : LogBuffer + k \in 1..n
  <2>1. LogBuffer + 2 * len < Memory
    BY <1>2, <1>4
  <2>2. s \in Buffers /\ len \in Nat /\ HasText(s, LogBuffer + len)
    BY <1>2, <1>4, <1>5
  <2> HIDE DEF s
  <2> QED
    BY <1>4, <2>1, <2>2, CopyIs
<1> HIDE DEF text
<1>7. /\ Ordered(text, n + len) /\ Later(text, n + len, log_txt)
      /\ Values(text, n + len) = Values(s, n)
  <2>1. \A k \in 1..len : \E i \in 1..n : text[n + k] = s[i]
    BY <1>6
  <2>2. s \in Buffers /\ len \in Nat /\ n + len < Memory
    BY <1>2, <1>4, <1>6
  <2> HIDE DEF s
  <2> QED
    BY <1>5, <1>6, <2>1, <2>2, CopyOrdered
<1>8. /\ todo' \in Seq(Steps) /\ Shape(todo') /\ todo' # <<>> /\ Head(todo') = "write"
      /\ SavedFirst(todo) => SavedFirst(todo')
      /\ SavesAll(todo) => SavesAll(todo')
      /\ Saves(todo) => Saves(todo')
  BY <1>2, PopShape, PopIs
<1>9. Typed'
  BY <1>2, <1>6, <1>8 DEF TextInv, Typed, Buffers
<1>10. FileInv'
  BY <1>2 DEF TextInv, FileInv, Contents, Ordered
<1>11. SavedInv'
  BY <1>2, <1>8 DEF TextInv, SavedInv
<1>12. Doing("write")' /\ ~Doing("tail")' /\ ~Doing("clear")' /\ ~Doing("print")'
  BY <1>8 DEF Doing
<1>13. TailThere(n + len)'
  <2>1. LogBuffer + len' <= n + len'
    BY <1>2, <1>4
  <2> QED
    BY <1>12, <2>1 DEF TailThere
<1>14. failures' = 0 => Kept(n + len)'
  <2> SUFFICES ASSUME failures = 0
               PROVE  Kept(n + len)'
    BY <1>2
  <2>1. 1..logged \subseteq Contents(log_txt) \cup Values(s, n)
    BY <1>5 DEF Kept
  <2>2. Values(s, n) \subseteq Values(text, n)
    BY <1>6 DEF Values
  <2>3. /\ 1..logged \subseteq Contents(log_txt) \cup Values(text, n + len)
        /\ 1..logged \subseteq Contents(log_txt) \cup Values(text, n)
    BY <1>7, <2>1, <2>2
  <2>4. n = LogBuffer + len'
    BY <1>2, <1>4
  <2>5. n + len' = n + len
    BY <1>2
  <2> QED
    BY <1>2, <1>12, <2>3, <2>4, <2>5 DEF Kept
<1>15. TextOf(n + len)'
  <2>0. n + len' = n + len
    BY <1>2
  <2>1. HasText(log_object, n + len)'
    BY <1>2, <1>6, <2>0 DEF HasText
  <2>2. (\A k \in 1..n + len : log_object[k] <= logged)'
    <3>1. \A k \in 1..n + len : text[k] \in Values(s, n)
      BY <1>7 DEF Values
    <3>2. \A k \in 1..n + len : text[k] <= logged
      BY <1>5, <3>1 DEF Values
    <3> QED
      BY <1>2, <2>0, <3>2
  <2>3. Ordered(log_object, n + len)'
    BY <1>2, <1>7, <2>0 DEF Ordered
  <2>4. Later(log_object, n + len, log_txt)'
    BY <1>2, <1>7, <2>0 DEF Later, Contents
  <2> QED
    BY <1>13, <1>14, <2>1, <2>2, <2>3, <2>4 DEF TextOf
<1>16. n + len' \in 0..Memory-1
  BY <1>2, <1>6
<1> QED
  BY <1>3, <1>8, <1>9, <1>10, <1>11, <1>15, <1>16 DEF TextInv

\* What the file holds when the first j characters have been written, or not.
LEMMA FileIs ==
  ASSUME TextInv, NEW n \in 0..Memory-1, TextOf(n), NEW j \in 0..n,
         UNCHANGED <<log_object, logged>>,
         log_txt' \in {log_txt, log_txt \o Chars(log_object, j)}
  PROVE  /\ log_txt' \in Seq(Nat) /\ FileInv'
         /\ Contents(log_txt) \subseteq Contents(log_txt')
         /\ log_txt' = log_txt \o Chars(log_object, j) =>
              Contents(log_txt') = Contents(log_txt) \cup Values(log_object, j)
         /\ (HasText(log_object, n) /\ (\A k \in 1..n : log_object[k] <= logged))'
         /\ Ordered(log_object, n)' /\ Later(log_object, n, log_txt)'
<1> DEFINE f == log_txt \o Chars(log_object, j)
<1>1. /\ log_object \in Buffers /\ log_txt \in Seq(Nat) /\ FileInv
      /\ HasText(log_object, n) /\ (\A k \in 1..n : log_object[k] <= logged)
      /\ Ordered(log_object, n) /\ Later(log_object, n, log_txt)
  BY DEF TextInv, Typed, TextOf, Buffers
<1>2. Ordered(log_txt, Len(log_txt)) /\ \A v \in Contents(log_txt) : v <= logged
  BY <1>1 DEF FileInv
<1>3. /\ f \in Seq(Nat)
      /\ Contents(f) = Contents(log_txt) \cup Values(log_object, j)
      /\ Ordered(f, Len(f))
      /\ Later(log_object, n, f)
  BY <1>1, <1>2, FlushIs
<1> HIDE DEF f
<1>4. \A v \in Contents(f) : v <= logged
  <2>1. \A k \in 1..j : k \in 1..n
    BY MemoryAssumption
  <2> QED
    BY <1>1, <1>2, <1>3, <2>1 DEF Values
<1>5. HasText(log_object, n)' /\ (\A k \in 1..n : log_object[k] <= logged)'
      /\ Ordered(log_object, n)'
  BY <1>1 DEF HasText, Ordered
<1>6. CASE log_txt' = f
  <2>1. FileInv'
    BY <1>3, <1>4, <1>6 DEF FileInv, Ordered, Contents
  <2>2. Later(log_object, n, log_txt)'
    BY <1>3, <1>6 DEF Later, Contents
  <2> QED
    BY <1>3, <1>5, <1>6, <2>1, <2>2 DEF f
<1>7. CASE log_txt' = log_txt /\ log_txt' # f
  <2>1. FileInv'
    BY <1>1, <1>7 DEF FileInv, Ordered, Contents
  <2>2. Later(log_object, n, log_txt)'
    BY <1>1, <1>7 DEF Later, Contents
  <2> QED
    BY <1>1, <1>5, <1>7, <2>1, <2>2 DEF f
<1> QED
  BY <1>6, <1>7 DEF f
LEMMA TextWrite ==
  ASSUME TextInv, Write
  PROVE  TextInv'
<1> DEFINE s == log_object
           j == LogBuffer + len
           f == log_txt \o Chars(s, j)
           r == Tail(todo)
<1>1. PICK n \in 0..Memory-1 : TextOf(n)
  BY DEF TextInv
<1>2. /\ s \in Buffers /\ len \in Nat /\ logged \in Nat /\ failures \in Nat
      /\ todo \in Seq(Steps) /\ Shape(todo) /\ todo # <<>> /\ Head(todo) = "write"
      /\ log_object' = s /\ logged' = logged /\ len' = len
      /\ atexit' = atexit /\ signals' = signals
  BY DEF TextInv, Typed, Write, Doing, Buffers
<1>3. Trouble \in 0..MaxTrouble /\ MaxTrouble \in Nat /\ signals \in Nat
  BY BoundsAssumption DEF TextInv, Typed
<1>4. /\ todo' \in {r, <<"print">> \o r}
      /\ log_txt' \in {log_txt, f}
      /\ \/ failures' = failures /\ todo' = r /\ log_txt' = f
         \/ failures' = failures + 1 /\ Trouble < MaxTrouble
      /\ todo' # r => failures' = failures + 1
  <2> DEFINE q == <<"print">> \o r
  <2>1. \/ log_txt' = f /\ todo' = r /\ failures' = failures
        \/ Trouble < MaxTrouble /\ failures' = failures + 1 /\ todo' = r /\ log_txt' = log_txt
        \/ Trouble < MaxTrouble /\ failures' = failures + 1 /\ todo' = q
           /\ log_txt' \in {log_txt, f}
    BY Zenon DEF Write, MayFail
  <2> HIDE DEF q, f, r
  <2> QED
    BY <2>1 DEF q
<1>5. LogBuffer + len <= n /\ n \in Nat /\ LogBuffer \in Nat
  <2>1. TailThere(n) /\ Doing("write")
    BY <1>1, <1>2 DEF TextOf, Doing
  <2> QED
    BY <2>1, Sizes DEF TailThere
<1>6. j \in 0..n
  BY <1>2, <1>5
<1>7. /\ log_txt' \in Seq(Nat) /\ FileInv'
      /\ Contents(log_txt) \subseteq Contents(log_txt')
      /\ log_txt' = f => Contents(log_txt') = Contents(log_txt) \cup Values(s, j)
      /\ (HasText(log_object, n) /\ (\A k \in 1..n : log_object[k] <= logged))'
      /\ Ordered(log_object, n)' /\ Later(log_object, n, log_txt)'
  <2>1. /\ UNCHANGED <<log_object, logged>>
        /\ log_txt' \in {log_txt, log_txt \o Chars(log_object, j)}
    BY <1>2, <1>4
  <2> HIDE DEF j
  <2> QED
    BY <1>1, <1>6, <2>1, FileIs
<1>8. /\ r \in Seq(Steps) /\ Shape(r) /\ Calm(r) /\ r # <<>> /\ Head(r) = "clear"
      /\ SavedFirst(todo) => SavedFirst(r)
      /\ SavesAll(todo) => SavesAll(r)
      /\ Saves(todo) => Saves(r)
  BY <1>2, PopShape, PopIs
<1>9. LET t == <<"print">> \o r
      IN t \in Seq(Steps) /\ Shape(t) /\ t # <<>> /\ Head(t) = "print"
  BY <1>8, FailTodo
<1> HIDE DEF r, f
<1>10. /\ todo' \in Seq(Steps) /\ Shape(todo') /\ todo' # <<>>
       /\ Head(todo') = "clear" \/ (Head(todo') = "print" /\ failures' = failures + 1)
  BY <1>4, <1>8, <1>9
<1>11. Typed'
  <2>1. failures' \in 0..MaxTrouble
    BY <1>2, <1>3, <1>4 DEF TextInv, Typed, Trouble
  <2> QED
    BY <1>2, <1>4, <1>7, <1>10, <2>1 DEF TextInv, Typed, Buffers
<1>12. SavedInv'
  <2> SUFFICES ASSUME failures' = 0
               PROVE  /\ SavedFirst(todo')
                      /\ (signals > 0 \/ atexit = "called") =>
                           SavesAll(todo') /\ (Saves(todo') \/ 1..logged \subseteq Contents(log_txt'))
    BY <1>2 DEF SavedInv
  <2>1. failures = 0 /\ todo' = r
    BY <1>2, <1>4
  <2> QED
    BY <1>7, <1>8, <2>1 DEF TextInv, SavedInv
<1>13. TailThere(n)'
  BY <1>10 DEF TailThere, Doing
<1>14. failures' = 0 => Kept(n)'
  <2> SUFFICES ASSUME failures' = 0
               PROVE  Kept(n)'
    OBVIOUS
  <2>1. failures = 0 /\ log_txt' = f
    BY <1>2, <1>4
  <2>2. 1..logged \subseteq Contents(log_txt) \cup Values(s, j)
    BY <1>1, <1>2, <2>1 DEF TextOf, Kept, Doing
  <2>3. 1..logged \subseteq Contents(log_txt')
    BY <1>7, <2>1, <2>2
  <2>4. ~Doing("write")'
    BY <1>10 DEF Doing
  <2> QED
    BY <1>2, <2>3, <2>4 DEF Kept
<1>15. TextOf(n)'
  BY <1>7, <1>13, <1>14 DEF TextOf
<1>16. Trouble' \in 0..MaxTrouble
  BY <1>2, <1>3, <1>4 DEF Trouble
<1> QED
  BY <1>7, <1>10, <1>11, <1>12, <1>15, <1>16 DEF TextInv

LEMMA TextClear ==
  ASSUME TextInv, Clear
  PROVE  TextInv'
<1> DEFINE r == Tail(todo)
<1>1. PICK n \in 0..Memory-1 : TextOf(n)
  BY DEF TextInv
<1>2. /\ log_object \in Buffers /\ len \in Nat /\ logged \in Nat /\ failures \in Nat
      /\ todo \in Seq(Steps) /\ Shape(todo) /\ todo # <<>> /\ Head(todo) = "clear"
      /\ log_object' = Memset(log_object) /\ logged' = logged /\ len' = len
      /\ atexit' = atexit /\ signals' = signals /\ log_txt' = log_txt
      /\ (failures' = failures /\ todo' = r) \/ (failures' = failures + 1 /\ todo' = <<"print">> \o r)
  BY DEF TextInv, Typed, Clear, Doing, Buffers
<1>3. log_object' \in Buffers /\ HasText(log_object', 0) /\ 0 \in 0..Memory-1
  BY <1>2, MemsetIs, Sizes
<1>4. /\ r \in Seq(Steps) /\ Shape(r) /\ Calm(r)
      /\ SavedFirst(todo) => SavedFirst(r)
      /\ SavesAll(todo) => SavesAll(r)
      /\ Saves(todo) => Saves(r)
  BY <1>2, PopShape, PopIs
<1>5. r # <<>> => Head(r) \notin {"tail", "write"}
  BY <1>4, CalmHead
<1>6. LET t == <<"print">> \o r
      IN t \in Seq(Steps) /\ Shape(t) /\ t # <<>> /\ Head(t) = "print"
  BY <1>4, FailTodo
<1> HIDE DEF r
<1>7. /\ todo' \in Seq(Steps) /\ Shape(todo')
      /\ todo' # <<>> => Head(todo') \notin {"tail", "write"}
  BY <1>2, <1>4, <1>5, <1>6
<1> DEFINE counts == Trouble' \in 0..MaxTrouble /\ failures' \in 0..MaxTrouble
<1>15. counts
  <2>1. failures' = failures \/ (failures' = failures + 1 /\ Trouble < MaxTrouble)
    BY DEF Clear, MayFail
  <2> QED
    BY <1>2, <2>1, BoundsAssumption DEF TextInv, Typed, Trouble
<1>8. Typed'
  BY <1>2, <1>3, <1>7, <1>15 DEF TextInv, Typed, Buffers
<1>9. FileInv'
  BY <1>2 DEF TextInv, FileInv, Contents, Ordered
<1>10. SavedInv'
  <2> SUFFICES ASSUME failures' = 0
               PROVE  /\ SavedFirst(todo')
                      /\ (signals > 0 \/ atexit = "called") =>
                           SavesAll(todo') /\ (Saves(todo') \/ 1..logged \subseteq Contents(log_txt))
    BY <1>2 DEF SavedInv
  <2>1. failures = 0 /\ todo' = r
    BY <1>2
  <2> QED
    BY <1>4, <2>1 DEF TextInv, SavedInv
<1>11. ~Doing("tail")' /\ ~Doing("write")'
  BY <1>7 DEF Doing
<1>12. TailThere(0)'
  BY <1>11 DEF TailThere
<1>13. failures' = 0 => Kept(0)'
  <2> SUFFICES ASSUME failures' = 0
               PROVE  Kept(0)'
    OBVIOUS
  <2>1. failures = 0
    BY <1>2
  <2>2. 1..logged \subseteq Contents(log_txt)
    BY <1>1, <1>2, <2>1 DEF TextOf, Kept, Doing
  <2> QED
    BY <1>2, <1>11, <2>2 DEF Kept
<1>14. TextOf(0)'
  BY <1>3, <1>12, <1>13 DEF TextOf, Ordered, Later, HasText
<1> QED
  BY <1>3, <1>7, <1>8, <1>9, <1>10, <1>14, <1>15 DEF TextInv

LEMMA TextSave ==
  ASSUME TextInv, Save
  PROVE  TextInv'
<1> DEFINE s == log_object
           f == log_txt \o Chars(s, Strlen(s))
           r == Tail(todo)
<1>1. PICK n \in 0..Memory-1 : TextOf(n)
  BY DEF TextInv
<1>2. /\ s \in Buffers /\ len \in Nat /\ logged \in Nat /\ failures \in Nat
      /\ todo \in Seq(Steps) /\ Shape(todo) /\ todo # <<>> /\ Head(todo) = "save"
      /\ log_object' = s /\ logged' = logged /\ len' = len
      /\ atexit' = atexit /\ signals' = signals
      /\ log_txt' \in {log_txt, f} /\ todo' \in {r, <<"print", "exit">>}
      /\ (failures' = failures /\ todo' = r /\ log_txt' = f) \/ failures' = failures + 1
  <2>1. /\ todo # <<>> /\ Head(todo) = "save"
        /\ log_object' = s /\ logged' = logged /\ len' = len
        /\ atexit' = atexit /\ signals' = signals
        /\ log_txt' \in {log_txt, f} /\ todo' \in {r, <<"print", "exit">>}
        /\ (failures' = failures /\ todo' = r /\ log_txt' = f) \/ failures' = failures + 1
    BY Zenon DEF Save, Doing
  <2>2. /\ s \in Buffers /\ len \in Nat /\ logged \in Nat /\ failures \in Nat
        /\ todo \in Seq(Steps) /\ Shape(todo)
    BY DEF TextInv, Typed, Buffers
  <2> QED
    BY <2>1, <2>2
<1>3. n \in Nat
  BY Sizes
<1>4. HasText(s, n) /\ Strlen(s) = n /\ n \in 0..n
  BY <1>1, <1>3, StrlenIs DEF TextOf
<1>5. /\ log_txt' \in Seq(Nat) /\ FileInv'
      /\ Contents(log_txt) \subseteq Contents(log_txt')
      /\ log_txt' = f => Contents(log_txt') = Contents(log_txt) \cup Values(s, n)
      /\ (HasText(log_object, n) /\ (\A k \in 1..n : log_object[k] <= logged))'
      /\ Ordered(log_object, n)' /\ Later(log_object, n, log_txt)'
  <2>1. /\ UNCHANGED <<log_object, logged>>
        /\ log_txt' \in {log_txt, log_txt \o Chars(log_object, n)}
    BY <1>2, <1>4
  <2> QED
    BY <1>1, <1>4, <2>1, FileIs
<1>6. /\ r \in Seq(Steps) /\ Shape(r) /\ Calm(r)
      /\ SavedFirst(todo) => SavedFirst(r)
      /\ SavesAll(todo) => SavesAll(r)
  BY <1>2, PopShape, PopIs
<1>7. r # <<>> => Head(r) \notin {"tail", "write"}
  BY <1>6, CalmHead
<1> HIDE DEF r, f
<1>8. /\ todo' \in Seq(Steps) /\ Shape(todo')
      /\ todo' # <<>> => Head(todo') \notin {"tail", "write"}
  <2>1. Plan(<<"print", "exit">>)
    BY PlansAre
  <2> DEFINE t == <<"print", "exit">>
  <2>2. t \in Seq(Steps) /\ Calm(t) /\ Head(t) \notin {"tail", "write"}
    BY <2>1 DEF Plan
  <2> HIDE DEF t
  <2>3. Shape(t)
    BY <2>2, CalmShape
  <2> QED
    BY <1>2, <1>6, <1>7, <2>2, <2>3 DEF t
<1> DEFINE counts == Trouble' \in 0..MaxTrouble /\ failures' \in 0..MaxTrouble
<1>16. counts
  <2>1. failures' = failures \/ (failures' = failures + 1 /\ Trouble < MaxTrouble)
    BY DEF Save, MayFail
  <2> QED
    BY <1>2, <2>1, BoundsAssumption DEF TextInv, Typed, Trouble
<1>9. Typed'
  BY <1>2, <1>5, <1>8, <1>16 DEF TextInv, Typed, Buffers
<1>10. failures' = 0 => 1..logged \subseteq Contents(log_txt')
  <2> SUFFICES ASSUME failures' = 0
               PROVE  1..logged \subseteq Contents(log_txt')
    OBVIOUS
  <2>1. failures = 0 /\ log_txt' = f
    BY <1>2
  <2>2. 1..logged \subseteq Contents(log_txt) \cup Values(s, n)
    BY <1>1, <2>1 DEF TextOf, Kept
  <2> QED
    BY <1>5, <2>1, <2>2
<1>11. SavedInv'
  <2> SUFFICES ASSUME failures' = 0
               PROVE  /\ SavedFirst(todo')
                      /\ (signals > 0 \/ atexit = "called") =>
                           SavesAll(todo') /\ (Saves(todo') \/ 1..logged \subseteq Contents(log_txt'))
    BY <1>2 DEF SavedInv
  <2>1. failures = 0 /\ todo' = r
    BY <1>2
  <2> QED
    BY <1>6, <1>10, <2>1 DEF TextInv, SavedInv
<1>12. ~Doing("tail")' /\ ~Doing("write")'
  BY <1>8 DEF Doing
<1>13. TailThere(n)'
  BY <1>12 DEF TailThere
<1>14. failures' = 0 => Kept(n)'
  BY <1>2, <1>10, <1>12 DEF Kept
<1>15. TextOf(n)'
  BY <1>5, <1>13, <1>14 DEF TextOf
<1> QED
  BY <1>5, <1>8, <1>9, <1>11, <1>15, <1>16 DEF TextInv
\* A step that only sets out to do something: outside LOG_print, or a signal.
LEMMA TextPlan ==
  ASSUME TextInv, Plan(todo'), Typed', SavedInv',
         UNCHANGED <<log_object, len, log_txt, logged, failures>>,
         Trouble' \in 0..MaxTrouble
  PROVE  TextInv'
<1>1. PICK n \in 0..Memory-1 : TextOf(n)
  BY DEF TextInv
<1>2. todo' \in Seq(Steps) /\ Shape(todo') /\ ~Filling'
  BY PlanClean
<1>4. TailThere(n)'
  BY <1>2 DEF TailThere, Filling
<1>5. failures' = 0 => Kept(n)'
  <2> SUFFICES ASSUME failures = 0
               PROVE  Kept(n)'
    OBVIOUS
  <2>1. 1..logged \subseteq Contents(log_txt) \cup Values(log_object, n)
    BY <1>1 DEF TextOf, Kept
  <2> QED
    BY <1>2, <2>1 DEF Kept, Filling
<1>6. TextOf(n)'
  BY <1>1, <1>4, <1>5 DEF TextOf, HasText, Ordered, Later, Contents
<1>7. FileInv'
  BY DEF TextInv, FileInv, Contents, Ordered
<1> QED
  BY <1>2, <1>6, <1>7 DEF TextInv

LEMMA TextExit ==
  ASSUME TextInv, Exit
  PROVE  TextInv'
<1>1. /\ UNCHANGED <<log_object, len, log_txt, logged, failures, signals>>
      /\ Doing("exit") /\ todo \in Seq(Steps) /\ todo # <<>> /\ Head(todo) = "exit"
  BY DEF TextInv, Typed, Exit, Doing
<1>5. Trouble' \in 0..MaxTrouble
  BY <1>1 DEF TextInv, Trouble
<1>2. Plan(todo') /\ SavesAll(todo')
  BY PlansAre DEF Exit
<1>3. Typed'
  <2>1. todo' \in Seq(Steps)
    BY <1>2 DEF Plan
  <2>2. atexit' \in {"none", "registered", "called"}
    BY DEF TextInv, Typed, Exit
  <2> QED
    BY <1>1, <2>1, <2>2 DEF TextInv, Typed
<1>4. SavedInv'
  <2> SUFFICES ASSUME failures = 0, signals > 0 \/ atexit' = "called"
               PROVE  Saves(todo') \/ 1..logged \subseteq Contents(log_txt)
    BY <1>1, <1>2 DEF SavedInv, Plan
  <2>1. CASE atexit = "registered"
    BY <2>1, PlansAre DEF Exit
  <2>2. CASE atexit # "registered"
    <3>1. signals > 0 \/ atexit = "called"
      BY <2>2 DEF Exit
    <3>2. SavesAll(todo) /\ (Saves(todo) \/ 1..logged \subseteq Contents(log_txt))
      BY <3>1 DEF TextInv, SavedInv
    <3> QED
      BY <1>1, <3>2, PopIs
  <2> QED
    BY <2>1, <2>2
<1> QED
  BY <1>1, <1>2, <1>3, <1>4, <1>5, TextPlan

LEMMA TextProgram ==
  ASSUME TextInv, Program
  PROVE  TextInv'
<1>1. UNCHANGED <<log_object, len, log_txt, logged, failures, signals>> /\ todo = <<>>
  BY DEF Program
<1>2. atexit' \in {"none", "registered"} \/ atexit' = atexit
  BY DEF Program
<1>7. Trouble' \in 0..MaxTrouble
  BY <1>1 DEF TextInv, Trouble
<1>3. failures = 0 => ~(signals > 0) /\ atexit # "called"
  BY <1>1 DEF TextInv, SavedInv, SavesAll
<1>4. failures = 0 => ~(signals > 0 \/ atexit = "called")'
  BY <1>1, <1>2, <1>3
<1>5. CASE Plan(todo')
  <2>1. todo' \in Seq(Steps) /\ SavedFirst(todo')
    BY <1>5 DEF Plan
  <2>2. Typed'
    BY <1>1, <1>2, <2>1 DEF TextInv, Typed
  <2>3. SavedInv'
    BY <1>1, <1>4, <2>1 DEF SavedInv
  <2> QED
    BY <1>1, <1>5, <1>7, <2>2, <2>3, TextPlan
<1>6. CASE todo' = todo
  <2>1. Typed' /\ Shape(todo')
    BY <1>1, <1>2, <1>6 DEF TextInv, Typed
  <2>2. SavedInv'
    BY <1>1, <1>4, <1>6 DEF TextInv, SavedInv
  <2>3. FileInv'
    BY <1>1 DEF TextInv, FileInv, Contents, Ordered
  <2>4. ASSUME NEW n, TextOf(n)
        PROVE  TextOf(n)'
    <3>1. TailThere(n)'
      BY <1>1, <1>6, <2>4 DEF TextOf, TailThere, Doing
    <3>2. failures' = 0 => Kept(n)'
      BY <1>1, <1>6, <2>4 DEF TextOf, Kept, Doing, Contents, Values
    <3> QED
      BY <1>1, <2>4, <3>1, <3>2 DEF TextOf, HasText, Ordered, Later, Contents
  <2> QED
    BY <1>7, <2>1, <2>2, <2>3, <2>4 DEF TextInv
<1> QED
  BY <1>5, <1>6, PlansAre DEF Program

LEMMA TextSignal ==
  ASSUME TextInv, Signal
  PROVE  TextInv'
<1>1. /\ UNCHANGED <<log_object, len, log_txt, logged, failures, atexit>>
      /\ signals' = signals + 1 /\ todo' = app_terminate /\ Trouble < MaxTrouble
  BY DEF Signal
<1>2. /\ Plan(todo') /\ SavesAll(todo') /\ Saves(todo') /\ Head(todo') = "print"
  BY <1>1, PlansAre
<1>3. signals \in Nat /\ failures \in Nat /\ MaxTrouble \in Nat
  BY BoundsAssumption DEF TextInv, Typed
<1>4. Trouble' = Trouble + 1 /\ Trouble' \in 0..MaxTrouble /\ signals + 1 \in 0..MaxTrouble
  BY <1>1, <1>3 DEF Trouble
<1>5. Typed'
  <2>1. todo' \in Seq(Steps)
    BY <1>2 DEF Plan
  <2> QED
    BY <1>1, <1>4, <2>1 DEF TextInv, Typed
<1>6. SavedInv'
  BY <1>1, <1>2 DEF SavedInv, Plan
<1> QED
  BY <1>1, <1>2, <1>4, <1>5, <1>6, TextPlan

LEMMA TextInit == Init => TextInv
<1> SUFFICES ASSUME Init PROVE TextInv
  OBVIOUS
<1>1. /\ log_object \in Buffers /\ log_object[1] = Nul /\ len = 0 /\ logged = 0
      /\ signals = 0 /\ signals \in 0..MaxTrouble /\ atexit = "none"
      /\ log_txt = <<>> /\ todo = <<>> /\ failures = 0
  <2>1. 1 \in 1..Memory /\ Nul \in Nat /\ 0 \in 0..MaxTrouble
    BY BoundsAssumption, LogBufferAssumption, MemoryAssumption DEF Nul
  <2> QED
    BY <2>1 DEF Init, Buffers
<1>2. /\ todo \in Seq(Steps) /\ DOMAIN todo = {}
      /\ log_txt \in Seq(Nat) /\ DOMAIN log_txt = {} /\ Len(log_txt) = 0
  BY <1>1, EmptySeq, LenProperties
<1>3. Shape(todo) /\ SavedFirst(todo)
  BY <1>2 DEF Shape, SavedFirst
<1>4. Typed
  BY <1>1, <1>2 DEF Typed, Buffers
<1>5. FileInv
  BY <1>2 DEF FileInv, Contents, Ordered
<1>6. SavedInv
  BY <1>1, <1>3 DEF SavedInv
<1>7. \A x \in STRING : ~Doing(x)
  BY <1>1 DEF Doing
<1>8. TailThere(0)
  BY <1>1 DEF TailThere, Doing
<1>9. Kept(0)
  BY <1>1 DEF Kept, Doing
<1>10. TextOf(0)
  BY <1>1, <1>8, <1>9 DEF TextOf, HasText, Ordered, Later
<1>11. 0 \in 0..Memory-1 /\ Trouble \in 0..MaxTrouble
  BY <1>1, MemoryAssumption, LogBufferAssumption, BoundsAssumption DEF Trouble
<1> QED
  BY <1>3, <1>4, <1>5, <1>6, <1>10, <1>11 DEF TextInv

\* The array is overrun: only file and type still count.
LEMMA TextOverrun ==
  ASSUME TextInv, OverrunArray
  PROVE  Overran'
<1>1. /\ todo' = <<"overrun">>
      /\ UNCHANGED <<log_object, len, log_txt, logged, atexit, signals, failures>>
  BY DEF OverrunArray
<1>2. todo' \in Seq(Steps) /\ Doing("overrun")'
  BY <1>1 DEF Steps, Doing
<1>3. Typed'
  BY <1>1, <1>2 DEF TextInv, Typed
<1>4. FileInv'
  BY <1>1 DEF TextInv, FileInv, Contents, Ordered
<1>5. TextEnds'
  BY <1>1, TextInvEnds DEF TextEnds
<1> QED
  BY <1>2, <1>3, <1>4, <1>5 DEF Overran

LEMMA LogNext == LogInv /\ [Next]_vars => LogInv'
<1> SUFFICES ASSUME LogInv, [Next]_vars
             PROVE  LogInv'
  OBVIOUS
<1>1. CASE TextInv
  <2>1. CASE \E m \in Lines : PrintLine(m)
    BY <1>1, <2>1, TextPrint DEF LogInv
  <2>2. CASE CopyTail
    BY <1>1, <2>2, TextTail DEF LogInv
  <2>3. CASE Write
    BY <1>1, <2>3, TextWrite DEF LogInv
  <2>4. CASE Clear
    BY <1>1, <2>4, TextClear DEF LogInv
  <2>5. CASE Save
    BY <1>1, <2>5, TextSave DEF LogInv
  <2>6. CASE Exit
    BY <1>1, <2>6, TextExit DEF LogInv
  <2>7. CASE Program
    BY <1>1, <2>7, TextProgram DEF LogInv
  <2>8. CASE Signal
    BY <1>1, <2>8, TextSignal DEF LogInv
  <2>9. CASE OverrunArray
    BY <1>1, <2>9, TextOverrun DEF LogInv
  <2>10. CASE UNCHANGED vars
    <3>1. Typed' /\ Shape(todo') /\ FileInv' /\ SavedInv' /\ Trouble' \in 0..MaxTrouble
      BY <1>1, <2>10 DEF vars, Trouble, TextInv, Typed, FileInv, SavedInv, Contents, Ordered
    <3>2. ASSUME NEW n, TextOf(n)
          PROVE  TextOf(n)'
      <4>1. TailThere(n)'
        BY <2>10, <3>2 DEF vars, TextOf, TailThere, Doing
      <4>2. failures' = 0 => Kept(n)'
        BY <2>10, <3>2 DEF vars, TextOf, Kept, Doing, Contents, Values
      <4> QED
        BY <2>10, <3>2, <4>1, <4>2 DEF vars, TextOf, HasText, Ordered, Later, Contents
    <3> QED
      BY <1>1, <3>1, <3>2 DEF LogInv, TextInv
  <2> QED
    BY <2>1, <2>2, <2>3, <2>4, <2>5, <2>6, <2>7, <2>8, <2>9, <2>10 DEF Next, Step
<1>2. CASE Overran
  <2>1. UNCHANGED vars
    BY <1>2, NothingAfter DEF Overran
  <2>2. Typed' /\ TextEnds' /\ Doing("overrun")'
    BY <1>2, <2>1 DEF vars, Overran, Doing, Typed, TextEnds
  <2>3. FileInv'
    BY <1>2, <2>1 DEF vars, Overran, FileInv, Contents, Ordered
  <2>4. Overran'
    BY <2>2, <2>3 DEF Overran
  <2> QED
    BY <2>4 DEF LogInv
<1> QED
  BY <1>1, <1>2 DEF LogInv

LEMMA LogAlways == Spec => []LogInv
<1>1. Init => LogInv
  BY TextInit DEF LogInv
<1> QED
  BY <1>1, LogNext, PTL DEF Spec

\* Whatever is interrupted or fails, the log's state has its type and the text in
\* the buffer ends within the array, up to the step that overruns it; what a
\* tail left behind LOG_BUFFER is never taken for a text without an end (LOG_print,
\* LOG_save).
THEOREM LogTypeCorrect == Spec => []TypeOK
<1>1. LogInv => TypeOK
  BY TextInvEnds DEF LogInv, TextInv, Overran, Typed, TypeOK
<1> QED
  BY <1>1, LogAlways, PTL

\* Whatever call a signal interrupts, all that was logged is in the file when the
\* process has ended (app_terminate, SOCKET_free, LOG_save).
THEOREM SignalLosesNothing == Spec => []NothingLost
<1>1. LogInv => NothingLost
  <2> SUFFICES ASSUME LogInv, Doing("end"), failures = 0, signals > 0 \/ atexit = "called"
               PROVE  1..logged \subseteq {log_txt[p] : p \in DOMAIN log_txt}
    BY DEF NothingLost
  <2>0. TextInv
    BY DEF LogInv, Overran, Doing
  <2>1. SavesAll(todo) /\ (Saves(todo) \/ 1..logged \subseteq Contents(log_txt))
    BY <2>0 DEF TextInv, SavedInv
  <2>2. todo \in Seq(Steps) /\ todo # <<>> /\ Head(todo) = "end"
    BY <2>0 DEF TextInv, Typed, Doing
  <2>3. ~Saves(todo)
    BY <2>1, <2>2, PopIs
  <2> QED
    BY <2>1, <2>3 DEF Contents
<1> QED
  BY <1>1, LogAlways, PTL

\* Whatever is interrupted or fails, the file never shows a line for the first
\* time behind one that was logged later (LOG_print, LOG_save).
THEOREM LinesInOrder == Spec => []InOrder
<1>1. LogInv => InOrder
  <2> SUFFICES ASSUME LogInv
               PROVE  InOrder
    OBVIOUS
  <2>1. Ordered(log_txt, Len(log_txt)) /\ DOMAIN log_txt = 1..Len(log_txt)
    BY LenProperties DEF LogInv, Overran, TextInv, Typed, FileInv
  <2> QED
    BY <2>1 DEF Ordered, InOrder
<1> QED
  BY <1>1, LogAlways, PTL
=============================================================================
