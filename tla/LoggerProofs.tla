---------------------------- MODULE LoggerProofs ----------------------------
(***************************************************************************)
(* Proofs about Logger, for any threads, any size of gFileBuf from two     *)
(* characters on and any number of lines.                                  *)
(***************************************************************************)
EXTENDS Logger, SequenceTheorems, FiniteSetTheorems, WellFoundedInduction, TLAPS

-----------------------------------------------------------------------------
(***************************************************************************)
(* Sequences of lines                                                      *)
(***************************************************************************)
Ascending(s) == \A i, j \in DOMAIN s : i < j => s[i] < s[j]
Before(s, t) == \A x \in Range(s), y \in Range(t) : x < y

LEMMA LineIsInt == Lines \subseteq Int
BY LoggerAssumption DEF Lines

LEMMA AscendingConcat ==
  ASSUME NEW s \in Seq(Lines), NEW t \in Seq(Lines)
  PROVE  Ascending(s \o t) <=> Ascending(s) /\ Ascending(t) /\ Before(s, t)
<1> DEFINE m == Len(s)
           n == Len(t)
           u == s \o t
<1>1. /\ m \in Nat /\ n \in Nat
      /\ DOMAIN s = 1 .. m /\ DOMAIN t = 1 .. n
      /\ \A i \in 1 .. m : s[i] \in Lines
      /\ \A i \in 1 .. n : t[i] \in Lines
  BY LenProperties
<1>2. /\ DOMAIN u = 1 .. m + n
      /\ \A i \in 1 .. m : u[i] = s[i]
      /\ \A i \in 1 .. n : u[m + i] = t[i]
  <2>1. /\ u \in Seq(Lines) /\ Len(u) = m + n
        /\ \A i \in 1 .. m + n : u[i] = IF i <= m THEN s[i] ELSE t[i - m]
    BY ConcatProperties
  <2>2. DOMAIN u = 1 .. Len(u)
    BY <2>1, LenProperties
  <2>3. ASSUME NEW i \in 1 .. m PROVE u[i] = s[i]
    BY <1>1, <2>1
  <2>4. ASSUME NEW i \in 1 .. n PROVE u[m + i] = t[i]
    <3>1. m + i \in 1 .. m + n /\ ~(m + i <= m) /\ (m + i) - m = i
      BY <1>1
    <3> HIDE DEF u
    <3>2. QED
      BY <2>1, <3>1
  <2>5. QED
    BY <2>1, <2>2, <2>3, <2>4
<1>3. Range(s) = {s[i] : i \in 1 .. m} /\ Range(t) = {t[i] : i \in 1 .. n}
  BY <1>1 DEF Range
<1> HIDE DEF m, n, u
<1>4. ASSUME Ascending(u) PROVE Ascending(s) /\ Ascending(t) /\ Before(s, t)
  <2>1. Ascending(s)
    BY <1>1, <1>2, <1>4 DEF Ascending
  <2>2. ASSUME NEW i \in 1 .. n, NEW j \in 1 .. n, i < j PROVE t[i] < t[j]
    <3>1. m + i \in 1 .. m + n /\ m + j \in 1 .. m + n /\ m + i < m + j
      BY <1>1, <2>2
    <3>2. QED
      BY <1>2, <1>4, <3>1 DEF Ascending
  <2>3. ASSUME NEW i \in 1 .. m, NEW j \in 1 .. n PROVE s[i] < t[j]
    <3>1. i \in 1 .. m + n /\ m + j \in 1 .. m + n /\ i < m + j
      BY <1>1
    <3>2. QED
      BY <1>2, <1>4, <3>1 DEF Ascending
  <2>4. QED
    BY <1>1, <1>3, <2>1, <2>2, <2>3 DEF Ascending, Before
<1>5. ASSUME Ascending(s), Ascending(t), Before(s, t) PROVE Ascending(u)
  <2>1. SUFFICES ASSUME NEW i \in 1 .. m + n, NEW j \in 1 .. m + n, i < j
                 PROVE  u[i] < u[j]
    BY <1>2 DEF Ascending
  <2>2. CASE j <= m
    <3>1. i \in 1 .. m /\ j \in 1 .. m
      BY <1>1, <2>1, <2>2
    <3>2. QED
      BY <1>1, <1>2, <1>5, <2>1, <3>1 DEF Ascending
  <2>3. CASE i <= m /\ ~(j <= m)
    <3>1. PICK b \in 1 .. n : j = m + b
      <4>1. j - m \in 1 .. n /\ j = m + (j - m)
        BY <1>1, <2>3
      <4>2. QED
        BY <4>1
    <3>2. i \in 1 .. m
      BY <1>1, <2>3
    <3>3. QED
      BY <1>2, <1>3, <1>5, <3>1, <3>2 DEF Before
  <2>4. CASE ~(i <= m)
    <3>1. PICK a \in 1 .. n, b \in 1 .. n : i = m + a /\ j = m + b /\ a < b
      <4>1. /\ i - m \in 1 .. n /\ i = m + (i - m)
            /\ j - m \in 1 .. n /\ j = m + (j - m)
            /\ i - m < j - m
        BY <1>1, <2>1, <2>4
      <4>2. QED
        BY <4>1
    <3>2. QED
      BY <1>1, <1>2, <1>5, <3>1 DEF Ascending
  <2>5. QED
    BY <1>1, <2>2, <2>3, <2>4
<1>6. QED
  BY <1>4, <1>5 DEF u

LEMMA OneLine ==
  ASSUME NEW x \in Lines
  PROVE  <<x>> \in Seq(Lines) /\ Range(<<x>>) = {x} /\ Ascending(<<x>>)
<1>1. <<x>> \in Seq(Lines) /\ DOMAIN <<x>> = {1} /\ <<x>>[1] = x
  OBVIOUS
<1>2. QED
  BY <1>1 DEF Range, Ascending

LEMMA NoLine ==
  <<>> \in Seq(Lines) /\ Range(<<>>) = {} /\ Ascending(<<>>) /\ Len(<<>>) = 0
BY DEF Range, Ascending

LEMMA LinesOf ==
  ASSUME NEW s \in Seq(Lines)
  PROVE  Range(s) \subseteq Lines
BY RangeOfSeq

LEMMA AppendLine ==
  ASSUME NEW s \in Seq(Lines), NEW x \in Lines
  PROVE  /\ Append(s, x) \in Seq(Lines)
         /\ Range(Append(s, x)) = Range(s) \cup {x}
         /\ Ascending(s) /\ (\A y \in Range(s) : y < x) => Ascending(Append(s, x))
<1>1. Append(s, x) = s \o <<x>> /\ <<x>> \in Seq(Lines)
  BY AppendIsConcat, OneLine
<1>2. s \o <<x>> \in Seq(Lines) /\ Range(s \o <<x>>) = Range(s) \cup Range(<<x>>)
  BY <1>1, ConcatProperties, RangeConcatenation
<1>3. Ascending(s) /\ (\A y \in Range(s) : y < x) => Ascending(s \o <<x>>)
  <2>1. Ascending(<<x>>) /\ Range(<<x>>) = {x}
    BY OneLine
  <2>2. Ascending(s \o <<x>>) <=> Ascending(s) /\ Ascending(<<x>>) /\ Before(s, <<x>>)
    BY <1>1, AscendingConcat
  <2>3. Before(s, <<x>>) <=> \A y \in Range(s) : y < x
    BY <2>1 DEF Before
  <2>4. QED
    BY <2>1, <2>2, <2>3
<1>4. QED
  BY <1>1, <1>2, <1>3, OneLine

LEMMA ConcatAppend ==
  ASSUME NEW s \in Seq(Lines), NEW t \in Seq(Lines), NEW x \in Lines
  PROVE  s \o Append(t, x) = Append(s \o t, x)
<1>1. <<x>> \in Seq(Lines) /\ s \o t \in Seq(Lines)
  BY OneLine, ConcatProperties
<1>2. Append(t, x) = t \o <<x>> /\ Append(s \o t, x) = (s \o t) \o <<x>>
  BY <1>1, AppendIsConcat
<1>3. QED
  BY <1>1, <1>2, ConcatAssociative

-----------------------------------------------------------------------------
(***************************************************************************)
(* The file.  Of what the logger's functions do to it, it matters what     *)
(* they keep (the lines on the disk, with the C library and in gFileBuf,   *)
(* in this order), what they skip, and that the buffer has room.           *)
(***************************************************************************)
InFile(f) == f.disk \o f.stdio \o f.gFileBuf

GoodFile(f) ==
  /\ f \in Files
  /\ Len(f.gFileBuf) < FlushCacheSz
  /\ ~f.gLogFile => f.gFileBuf = <<>>

LEMMA FileType ==
  ASSUME NEW f \in Files
  PROVE  /\ f.disk \in Seq(Lines) /\ f.stdio \in Seq(Lines) /\ f.gFileBuf \in Seq(Lines)
         /\ f.disk \o f.stdio \in Seq(Lines) /\ InFile(f) \in Seq(Lines)
         /\ f.skipped \subseteq Lines /\ f.gLogFile \in BOOLEAN
<1>1. /\ f.disk \in Seq(Lines) /\ f.stdio \in Seq(Lines) /\ f.gFileBuf \in Seq(Lines)
      /\ f.skipped \subseteq Lines /\ f.gLogFile \in BOOLEAN
  BY DEF Files
<1>2. f.disk \o f.stdio \in Seq(Lines)
  BY <1>1, ConcatProperties
<1>3. InFile(f) \in Seq(Lines)
  BY <1>1, <1>2, ConcatProperties DEF InFile
<1>4. QED
  BY <1>1, <1>2, <1>3

\* log_flush and fclose move lines towards the disk and lose none
LEMMA FlushKeeps ==
  ASSUME NEW f \in Files
  PROVE  /\ log_flush(f) \in Files
         /\ InFile(log_flush(f)) = InFile(f)
         /\ log_flush(f).gFileBuf = IF f.gLogFile THEN <<>> ELSE f.gFileBuf
         /\ log_flush(f).gLogFile = f.gLogFile
         /\ log_flush(f).skipped = f.skipped
<1>1. CASE f.gLogFile
  <2>1. PICK g : g = log_flush(f)
    OBVIOUS
  <2>2. /\ g.disk = f.disk /\ g.stdio = f.stdio \o f.gFileBuf /\ g.gFileBuf = <<>>
        /\ g.gLogFile = f.gLogFile /\ g.skipped = f.skipped
    BY <1>1, <2>1 DEF log_flush, Files
  <2>3. f.stdio \o f.gFileBuf \in Seq(Lines)
    BY FileType, ConcatProperties
  <2>4. g \in Files
    BY <1>1, <2>1, <2>3, NoLine DEF log_flush, Files
  <2>5. InFile(g) = InFile(f)
    <3>1. g.disk \o g.stdio = (f.disk \o f.stdio) \o f.gFileBuf
      <4>1. f.disk \in Seq(Lines) /\ f.stdio \in Seq(Lines) /\ f.gFileBuf \in Seq(Lines)
        BY FileType
      <4>2. \A a, b, c \in Seq(Lines) : (a \o b) \o c = a \o (b \o c)
        BY ConcatAssociative
      <4>3. (f.disk \o f.stdio) \o f.gFileBuf = f.disk \o (f.stdio \o f.gFileBuf)
        BY <4>1, <4>2, Zenon
      <4>4. QED
        BY <2>2, <4>3
    <3>2. InFile(g) = (g.disk \o g.stdio) \o <<>>
      BY <2>2 DEF InFile
    <3>3. (g.disk \o g.stdio) \o <<>> = g.disk \o g.stdio
      BY <2>4, FileType, ConcatEmptySeq
    <3>4. QED
      BY <3>1, <3>2, <3>3 DEF InFile
  <2>6. QED
    BY <1>1, <2>1, <2>2, <2>4, <2>5
<1>2. CASE ~f.gLogFile
  BY <1>2 DEF log_flush
<1>3. QED
  BY <1>1, <1>2

LEMMA CloseKeeps ==
  ASSUME NEW f \in Files
  PROVE  /\ fclose(f) \in Files
         /\ InFile(fclose(f)) = InFile(f)
         /\ fclose(f).disk = f.disk \o f.stdio
         /\ fclose(f).gFileBuf = f.gFileBuf
         /\ fclose(f).gLogFile = f.gLogFile
         /\ fclose(f).skipped = f.skipped
<1>1. PICK g : g = fclose(f)
  OBVIOUS
<1>2. /\ g.disk = f.disk \o f.stdio /\ g.stdio = <<>> /\ g.gFileBuf = f.gFileBuf
      /\ g.gLogFile = f.gLogFile /\ g.skipped = f.skipped
  BY <1>1 DEF fclose, Files
<1>3. g \in Files
  <2>1. f.disk \o f.stdio \in Seq(Lines)
    BY FileType
  <2>2. QED
    BY <1>1, <2>1, NoLine DEF fclose, Files
<1>4. (f.disk \o f.stdio) \o <<>> = f.disk \o f.stdio
  BY FileType, ConcatEmptySeq
<1>5. InFile(g) = InFile(f)
  BY <1>2, <1>4 DEF InFile
<1>6. QED
  BY <1>1, <1>2, <1>3, <1>5

LEMMA SkipKeeps ==
  ASSUME NEW f, GoodFile(f), NEW x \in Lines
  PROVE  /\ GoodFile(Skip(f, x))
         /\ InFile(Skip(f, x)) = InFile(f)
         /\ Skip(f, x).skipped = f.skipped \cup {x}
BY DEF GoodFile, Files, Skip, InFile

LEMMA PutKeeps ==
  ASSUME NEW f, GoodFile(f), f.gLogFile, Len(f.gFileBuf) + 1 < FlushCacheSz, NEW x \in Lines
  PROVE  /\ GoodFile(Put(f, x))
         /\ InFile(Put(f, x)) = Append(InFile(f), x)
         /\ Put(f, x).skipped = f.skipped
<1>1. f \in Files
  BY DEF GoodFile
<1>2. /\ Append(f.gFileBuf, x) \in Seq(Lines)
      /\ Len(Append(f.gFileBuf, x)) = Len(f.gFileBuf) + 1
  BY <1>1, FileType, AppendProperties
<1>3. PICK g : g = Put(f, x)
  OBVIOUS
<1>4. /\ g.disk = f.disk /\ g.stdio = f.stdio /\ g.gFileBuf = Append(f.gFileBuf, x)
      /\ g.gLogFile = f.gLogFile /\ g.skipped = f.skipped
  BY <1>1, <1>3 DEF Put, Files
<1>5. g \in Files
  BY <1>1, <1>2, <1>3 DEF Put, Files
<1>6. InFile(g) = Append(InFile(f), x)
  <2>1. (f.disk \o f.stdio) \o Append(f.gFileBuf, x) = Append(InFile(f), x)
    BY <1>1, FileType, ConcatAppend DEF InFile
  <2>2. QED
    BY <1>4, <2>1 DEF InFile
<1>7. GoodFile(g)
  BY <1>2, <1>4, <1>5 DEF GoodFile
<1>8. QED
  BY <1>3, <1>4, <1>6, <1>7

LEMMA FlushIsGood ==
  ASSUME NEW f, GoodFile(f)
  PROVE  /\ GoodFile(log_flush(f))
         /\ log_flush(f).gFileBuf = <<>>
<1>1. log_flush(f).gFileBuf = <<>>
  BY FlushKeeps DEF GoodFile
<1>2. Len(<<>>) < FlushCacheSz
  BY NoLine, LoggerAssumption
<1>3. QED
  BY <1>1, <1>2, FlushKeeps DEF GoodFile

\* one line of either way: it is put at the end, or skipped since there is no file
LEMMA StoreKeeps ==
  ASSUME NEW f, GoodFile(f), NEW x \in Lines
  PROVE  /\ GoodFile(Store(f, x))
         /\ \/ /\ InFile(Store(f, x)) = Append(InFile(f), x)
               /\ Store(f, x).skipped = f.skipped
            \/ /\ InFile(Store(f, x)) = InFile(f)
               /\ Store(f, x).skipped = f.skipped \cup {x}
<1>1. CASE ~f.gLogFile
  BY <1>1, SkipKeeps DEF Store
<1>2. CASE f.gLogFile /\ Full(f)
  <2>1. PICK g : g = log_flush(f)
    OBVIOUS
  <2>2. /\ GoodFile(g) /\ g.gLogFile /\ g.gFileBuf = <<>>
        /\ InFile(g) = InFile(f) /\ g.skipped = f.skipped
    BY <1>2, <2>1, FlushIsGood, FlushKeeps DEF GoodFile
  <2>3. Len(g.gFileBuf) + 1 < FlushCacheSz
    BY <2>2, NoLine, LoggerAssumption
  <2>4. Store(f, x) = Put(g, x)
    BY <1>2, <2>1 DEF Store
  <2>5. QED
    BY <2>2, <2>3, <2>4, PutKeeps
<1>3. CASE f.gLogFile /\ ~Full(f)
  <2>1. Len(f.gFileBuf) + 1 < FlushCacheSz
    <3>1. Len(f.gFileBuf) \in Nat
      BY FileType, LenProperties DEF GoodFile
    <3>2. QED
      BY <1>3, <3>1, LoggerAssumption DEF Full
  <2>2. Store(f, x) = Put(f, x)
    BY <1>3 DEF Store
  <2>3. QED
    BY <1>3, <2>1, <2>2, PutKeeps
<1>4. QED
  BY <1>1, <1>2, <1>3

LEMMA StoreSyncKeeps ==
  ASSUME NEW f, GoodFile(f), NEW x \in Lines
  PROVE  /\ GoodFile(StoreSync(f, x))
         /\ InFile(StoreSync(f, x)) \in {InFile(f), Append(InFile(f), x)}
<1>1. CASE ~f.gLogFile
  BY <1>1, SkipKeeps DEF StoreSync
<1>2. CASE f.gLogFile /\ Full(f)
  BY <1>2, FlushIsGood, FlushKeeps DEF StoreSync, GoodFile
<1>3. CASE f.gLogFile /\ ~Full(f)
  <2>1. Len(f.gFileBuf) + 1 < FlushCacheSz
    <3>1. Len(f.gFileBuf) \in Nat
      BY FileType, LenProperties DEF GoodFile
    <3>2. QED
      BY <1>3, <3>1, LoggerAssumption DEF Full
  <2>2. StoreSync(f, x) = Put(f, x)
    BY <1>3 DEF StoreSync
  <2>3. QED
    BY <1>3, <2>1, <2>2, PutKeeps
<1>4. QED
  BY <1>1, <1>2, <1>3

\* the rotation, whether or not the new file is opened
LEMMA RotationKeeps ==
  ASSUME NEW f, GoodFile(f), NEW opened \in BOOLEAN
  PROVE  /\ GoodFile(check_new_log(f, opened))
         /\ InFile(check_new_log(f, opened)) = InFile(f)
         /\ check_new_log(f, opened).skipped = f.skipped
<1>1. CASE dayOver
  <2>1. PICK g : g = fclose(log_flush(f))
    OBVIOUS
  <2>2. /\ g \in Files /\ g.gFileBuf = <<>>
        /\ InFile(g) = InFile(f) /\ g.skipped = f.skipped
    BY <2>1, FlushIsGood, FlushKeeps, CloseKeeps DEF GoodFile
  <2>3. check_new_log(f, opened) = [g EXCEPT !.gLogFile = opened]
    BY <1>1, <2>1 DEF check_new_log
  <2>4. PICK h : h = check_new_log(f, opened)
    OBVIOUS
  <2>5. /\ h \in Files /\ h.gFileBuf = <<>> /\ h.skipped = f.skipped
        /\ h.disk = g.disk /\ h.stdio = g.stdio
    BY <2>2, <2>3, <2>4 DEF Files
  <2>6. InFile(h) = InFile(f)
    BY <2>2, <2>5 DEF InFile
  <2>7. GoodFile(h)
    BY <2>5, NoLine, LoggerAssumption DEF GoodFile
  <2>8. QED
    BY <2>4, <2>5, <2>6, <2>7
<1>2. CASE ~dayOver
  BY <1>2 DEF check_new_log
<1>3. QED
  BY <1>1, <1>2

-----------------------------------------------------------------------------
(***************************************************************************)
(* The loop of log_async_thread over the lines it has taken.  Induction on *)
(* its index is stated of a set of numbers; it rests on the least number   *)
(* that is not in the set.                                                 *)
(***************************************************************************)
LEMMA SetInduction ==
  ASSUME NEW S, 0 \in S, \A n \in Nat : n \in S => n + 1 \in S
  PROVE  Nat \subseteq S
<1> SUFFICES ASSUME Nat \ S # {} PROVE FALSE
  OBVIOUS
<1>1. PICK m \in Nat \ S : \A k \in Nat \ S : <<k, m>> \notin OpToRel(<, Nat)
  BY NatLessThanWellFounded, WFMin, Zenon
<1>2. \A k \in Nat \ S : ~(k < m)
  BY <1>1 DEF OpToRel
<1>3. m # 0 /\ m - 1 \in Nat /\ m - 1 < m
  OBVIOUS
<1>4. m - 1 \in S
  BY <1>2, <1>3
<1>5. QED
  BY <1>3, <1>4

IsLoop(s, opened) ==
  s = [k \in 0 .. Len(local) |->
         IF k = 0 THEN check_new_log(file, opened) ELSE Store(s[k - 1], local[k])]

GoodFiles == {f \in Files : GoodFile(f)}

\* The function that Stored defines by recursion exists.
LEMMA LoopExists ==
  ASSUME GoodFile(file), local \in Seq(Lines), NEW opened \in BOOLEAN
  PROVE  \E s : IsLoop(s, opened)
<1> DEFINE Upto(s, n) ==
      /\ s \in [0 .. n -> GoodFiles]
      /\ s[0] = check_new_log(file, opened)
      /\ \A k \in 1 .. n : s[k] = Store(s[k - 1], local[k])
    N == {n \in Nat : n <= Len(local) => \E s : Upto(s, n)}
<1>1. 0 \in N
  <2>1. check_new_log(file, opened) \in GoodFiles
    BY RotationKeeps DEF GoodFile, GoodFiles
  <2>2. Upto([k \in 0 .. 0 |-> check_new_log(file, opened)], 0)
    BY <2>1
  <2> HIDE DEF Upto
  <2>3. QED
    BY <2>2
<1>2. ASSUME NEW n \in Nat, n \in N PROVE n + 1 \in N
  <2>1. SUFFICES ASSUME n + 1 <= Len(local) PROVE \E s : Upto(s, n + 1)
    OBVIOUS
  <2>2. PICK s : Upto(s, n)
    <3>1. n <= Len(local)
      BY <2>1, LenProperties
    <3> HIDE DEF Upto
    <3>2. QED
      BY <1>2, <3>1, Zenon
  <2> DEFINE new == Store(s[n], local[n + 1])
             t == [k \in 0 .. n + 1 |-> IF k = n + 1 THEN new ELSE s[k]]
  <2>3. local[n + 1] \in Lines /\ GoodFile(s[n])
    <3>1. n + 1 \in 1 .. Len(local) /\ n \in 0 .. n
      BY <2>1
    <3>2. QED
      BY <2>2, <3>1, ElementOfSeq DEF GoodFiles
  <2>4. new \in GoodFiles
    BY <2>3, StoreKeeps DEF GoodFile, GoodFiles
  <2>5. t[n + 1] = new /\ \A k \in 0 .. n : t[k] = s[k]
    OBVIOUS
  <2>6. t \in [0 .. n + 1 -> GoodFiles]
    BY <2>2, <2>4
  <2> HIDE DEF t, new
  <2>7. t[0] = check_new_log(file, opened)
    BY <2>2, <2>5
  <2>8. ASSUME NEW k \in 1 .. n + 1 PROVE t[k] = Store(t[k - 1], local[k])
    <3>1. CASE k = n + 1
      <4>1. t[k - 1] = s[n]
        BY <2>5, <3>1
      <4>2. QED
        BY <2>5, <3>1, <4>1 DEF new
    <3>2. CASE k \in 1 .. n
      <4>1. k - 1 \in 0 .. n /\ k \in 0 .. n
        BY <3>2
      <4>2. QED
        BY <2>2, <2>5, <3>2, <4>1
    <3>3. QED
      BY <3>1, <3>2
  <2>9. Upto(t, n + 1)
    BY <2>6, <2>7, <2>8
  <2> HIDE DEF Upto
  <2>10. QED
    BY <2>9
<1>3. Len(local) \in N /\ Len(local) \in Nat
  <2> HIDE DEF N
  <2>1. Nat \subseteq N
    BY <1>1, <1>2, SetInduction
  <2>2. QED
    BY <2>1
<1>4. PICK s : Upto(s, Len(local))
  <2> HIDE DEF Upto
  <2>1. QED
    BY <1>3
<1>5. IsLoop(s, opened)
  <2> DEFINE t == [k \in 0 .. Len(local) |->
                     IF k = 0 THEN check_new_log(file, opened) ELSE Store(s[k - 1], local[k])]
  <2>1. ASSUME NEW k \in 0 .. Len(local) PROVE s[k] = t[k]
    <3>1. CASE k = 0
      BY <1>4, <3>1
    <3>2. CASE k \in 1 .. Len(local)
      BY <1>4, <3>2
    <3>3. QED
      BY <1>3, <3>1, <3>2
  <2>2. s = t
    BY <1>3, <1>4, <2>1
  <2>3. QED
    BY <2>2 DEF IsLoop
<1>6. QED
  BY <1>5

LEMMA LoopSteps ==
  ASSUME GoodFile(file), local \in Seq(Lines), NEW opened \in BOOLEAN
  PROVE  /\ Stored(opened)[0] = check_new_log(file, opened)
         /\ \A k \in 1 .. Len(local) : Stored(opened)[k] = Store(Stored(opened)[k - 1], local[k])
<1> DEFINE s == CHOOSE s : IsLoop(s, opened)
           g(k) == IF k = 0 THEN check_new_log(file, opened) ELSE Store(s[k - 1], local[k])
<1>1. IsLoop(s, opened)
  BY LoopExists, Zenon
<1>2. Stored(opened) = s
  BY DEF Stored, IsLoop
<1> HIDE DEF s
<1>3. \A k \in 0 .. Len(local) : [m \in 0 .. Len(local) |-> g(m)][k] = g(k)
  OBVIOUS
<1>4. s = [m \in 0 .. Len(local) |-> g(m)]
  BY <1>1 DEF IsLoop
<1>5. \A k \in 0 .. Len(local) : s[k] = g(k)
  BY <1>3, <1>4, Zenon
<1>6. Len(local) \in Nat
  BY LenProperties
<1>7. QED
  BY <1>2, <1>5, <1>6

\* What each line taken does to the file: the lines in it stay in their order, and each
\* is in it or skipped.
LEMMA BatchKeeps ==
  ASSUME GoodFile(file), local \in Seq(Lines), NEW opened \in BOOLEAN,
         Ascending(InFile(file)), Ascending(local), Before(InFile(file), local),
         NEW k \in 0 .. Len(local)
  PROVE  LET f     == Stored(opened)[k]
             taken == {local[j] : j \in 1 .. k}
         IN  /\ GoodFile(f)
             /\ Ascending(InFile(f))
             /\ Range(InFile(f)) \subseteq Range(InFile(file)) \cup taken
             /\ Range(InFile(f)) \cup f.skipped
                  = Range(InFile(file)) \cup file.skipped \cup taken
<1> DEFINE
  s == Stored(opened)
  taken(n) == {local[j] : j \in 1 .. n}
  Good(n) == /\ GoodFile(s[n])
             /\ Ascending(InFile(s[n]))
             /\ Range(InFile(s[n])) \subseteq Range(InFile(file)) \cup taken(n)
             /\ Range(InFile(s[n])) \cup s[n].skipped
                  = Range(InFile(file)) \cup file.skipped \cup taken(n)
  N == {n \in Nat : n <= Len(local) => Good(n)}
<1>1. s[0] = check_new_log(file, opened)
      /\ \A n \in 1 .. Len(local) : s[n] = Store(s[n - 1], local[n])
  BY LoopSteps
<1>2. Len(local) \in Nat /\ DOMAIN local = 1 .. Len(local)
      /\ \A n \in 1 .. Len(local) : local[n] \in Lines
  BY LenProperties, ElementOfSeq
<1> HIDE DEF s
<1>3. 0 \in N
  <2>1. taken(0) = {}
    OBVIOUS
  <2>2. Good(0)
    BY <1>1, <2>1, RotationKeeps
  <2>3. QED
    BY <2>2
<1>4. ASSUME NEW n \in Nat, n \in N PROVE n + 1 \in N
  <2>1. SUFFICES ASSUME n + 1 <= Len(local) PROVE Good(n + 1)
    OBVIOUS
  <2>2. Good(n)
    BY <1>2, <1>4, <2>1
  <2>3. PICK x \in Lines : x = local[n + 1]
    BY <1>2, <2>1
  <2>4. PICK f : f = s[n]
    OBVIOUS
  <2>5. PICK g : g = s[n + 1]
    OBVIOUS
  <2>6. g = Store(f, x)
    <3>1. n + 1 \in 1 .. Len(local) /\ (n + 1) - 1 = n
      BY <2>1
    <3>2. QED
      BY <1>1, <2>3, <2>4, <2>5, <3>1
  <2>7. taken(n + 1) = taken(n) \cup {x}
    <3>1. 1 .. n + 1 = (1 .. n) \cup {n + 1}
      OBVIOUS
    <3>2. QED
      BY <2>3, <3>1
  <2>8. \A y \in Range(InFile(f)) : y < x
    <3>1. ASSUME NEW y \in Range(InFile(file)) PROVE y < x
      <4>1. x \in Range(local)
        BY <1>2, <2>1, <2>3 DEF Range
      <4>2. QED
        BY <4>1 DEF Before
    <3>2. ASSUME NEW j \in 1 .. n PROVE local[j] < x
      BY <1>2, <2>1, <2>3 DEF Ascending
    <3>3. QED
      BY <2>2, <2>4, <3>1, <3>2
  <2>9. GoodFile(f) /\ InFile(f) \in Seq(Lines)
    BY <2>2, <2>4, FileType DEF GoodFile
  <2>10. GoodFile(g)
    BY <2>6, <2>9, StoreKeeps
  <2>11. CASE InFile(g) = Append(InFile(f), x) /\ g.skipped = f.skipped
    <3>1. Ascending(InFile(g)) /\ Range(InFile(g)) = Range(InFile(f)) \cup {x}
      BY <2>2, <2>4, <2>8, <2>9, <2>11, AppendLine
    <3>2. QED
      BY <2>2, <2>4, <2>5, <2>7, <2>10, <2>11, <3>1
  <2>12. CASE InFile(g) = InFile(f) /\ g.skipped = f.skipped \cup {x}
    BY <2>2, <2>4, <2>5, <2>7, <2>10, <2>12
  <2>13. QED
    BY <2>6, <2>9, <2>11, <2>12, StoreKeeps
<1>5. k \in N
  <2> HIDE DEF N
  <2>1. Nat \subseteq N
    BY <1>3, <1>4, SetInduction
  <2>2. QED
    BY <1>2, <2>1
<1>6. Good(k)
  BY <1>2, <1>5
<1>7. QED
  BY <1>6 DEF s

-----------------------------------------------------------------------------
(***************************************************************************)
(* The pipeline, and the lines begun                                       *)
(***************************************************************************)
LEMMA PipelineParts ==
  ASSUME NEW f \in Seq(Lines), NEW l \in Seq(Lines), NEW b \in Seq(Lines)
  PROVE  /\ f \o l \o b \in Seq(Lines)
         /\ Range(f \o l \o b) = Range(f) \cup Range(l) \cup Range(b)
         /\ Ascending(f \o l \o b) <=> /\ Ascending(f) /\ Ascending(l) /\ Ascending(b)
                                       /\ Before(f, l) /\ Before(f, b) /\ Before(l, b)
<1>1. f \o l \in Seq(Lines) /\ Range(f \o l) = Range(f) \cup Range(l)
  BY ConcatProperties, RangeConcatenation
<1>2. (f \o l) \o b \in Seq(Lines) /\ Range((f \o l) \o b) = Range(f \o l) \cup Range(b)
  <2>1. \A a, c \in Seq(Lines) : a \o c \in Seq(Lines) /\ Range(a \o c) = Range(a) \cup Range(c)
    BY ConcatProperties, RangeConcatenation
  <2>2. QED
    BY <1>1, <2>1, Zenon
<1>3. Ascending(f \o l) <=> Ascending(f) /\ Ascending(l) /\ Before(f, l)
  BY AscendingConcat
<1>4. Ascending((f \o l) \o b) <=> Ascending(f \o l) /\ Ascending(b) /\ Before(f \o l, b)
  BY <1>1, AscendingConcat
<1>5. Before(f \o l, b) <=> Before(f, b) /\ Before(l, b)
  BY <1>1 DEF Before
<1>6. QED
  BY <1>1, <1>2, <1>3, <1>4, <1>5

LEMMA PipelineType ==
  ASSUME LoggerTypeOK
  PROVE  /\ InFile(file) \in Seq(Lines) /\ local \in Seq(Lines)
         /\ gAsyncLogBuffer \in Seq(Lines)
         /\ Pipeline = InFile(file) \o local \o gAsyncLogBuffer
         /\ Pipeline \in Seq(Lines) /\ Range(Pipeline) \subseteq Int
         /\ sent \in 0 .. MaxLines /\ sent \in Int
         /\ syncLines \in 0 .. MaxLines /\ syncLines \in Int
<1>1. /\ InFile(file) \in Seq(Lines) /\ local \in Seq(Lines) /\ gAsyncLogBuffer \in Seq(Lines)
  BY FileType DEF LoggerTypeOK
<1>2. Pipeline = InFile(file) \o local \o gAsyncLogBuffer
  BY DEF Pipeline, Written, InFile
<1>3. Pipeline \in Seq(Lines)
  BY <1>1, <1>2, PipelineParts
<1>4. Range(Pipeline) \subseteq Int
  BY <1>3, LinesOf, LineIsInt
<1>5. /\ sent \in 0 .. MaxLines /\ sent \in Int
      /\ syncLines \in 0 .. MaxLines /\ syncLines \in Int
  BY LoggerAssumption DEF LoggerTypeOK
<1>6. QED
  BY <1>1, <1>2, <1>3, <1>4, <1>5

\* the invariant, of the lines and of who carries them
Flow == file \in Files /\ BufferHasRoom /\ InOrder /\ UpToSent /\ KeepsAll

LEMMA FileIsGood ==
  ASSUME LoggerIInv
  PROVE  GoodFile(file)
BY DEF LoggerIInv, LoggerTypeOK, BufferHasRoom, GoodFile

LEMMA SamePipeline ==
  ASSUME InOrder, UpToSent, KeepsAll, Pipeline' = Pipeline, file'.skipped = file.skipped,
         UNCHANGED <<sent, mode>>
  PROVE  (InOrder /\ UpToSent /\ KeepsAll)'
BY DEF InOrder, UpToSent, KeepsAll, InSome, mode

\* a step that only moves lines towards the disk
LEMMA FileMoves ==
  ASSUME LoggerIInv, GoodFile(file'), InFile(file') = InFile(file),
         file'.skipped = file.skipped, UNCHANGED <<sent, mode, local, gAsyncLogBuffer>>
  PROVE  Flow'
<1>1. Pipeline' = Pipeline
  BY DEF Pipeline, Written, InFile
<1>2. QED
  BY <1>1, SamePipeline DEF LoggerIInv, GoodFile, BufferHasRoom, Flow

LEMMA Finite ==
  ASSUME NEW S \in SUBSET Threads
  PROVE  IsFiniteSet(S) /\ Cardinality(S) \in Nat
<1>1. IsFiniteSet(S)
  BY FS_Subset, LoggerAssumption
<1>2. QED
  BY <1>1, FS_CardinalityType

LEMMA Fewer ==
  ASSUME NEW S \in SUBSET Threads, NEW T \in SUBSET S
  PROVE  /\ Cardinality(T) \in Nat /\ Cardinality(S) \in Nat
         /\ Cardinality(T) <= Cardinality(S)
<1>1. T \in SUBSET Threads
  OBVIOUS
<1>2. QED
  BY <1>1, Finite, FS_Subset

LEMMA SameBegun ==
  ASSUME LoggerIInv, Begun' \subseteq Begun, sent' = sent
  PROVE  BegunFit' /\ sent' \in 0 .. MaxLines
<1>1. Begun \in SUBSET Threads /\ Begun' \in SUBSET Begun /\ sent \in 0 .. MaxLines
  BY DEF Begun, LoggerIInv, LoggerTypeOK
<1>2. /\ Cardinality(Begun') \in Nat /\ Cardinality(Begun) \in Nat
      /\ Cardinality(Begun') <= Cardinality(Begun)
  BY <1>1, Fewer
<1>3. sent + Cardinality(Begun) <= MaxLines
  BY DEF LoggerIInv, BegunFit
<1>4. sent' + Cardinality(Begun') <= MaxLines
  BY <1>1, <1>2, <1>3, LoggerAssumption
<1>5. QED
  BY <1>1, <1>4 DEF BegunFit

\* a line that was begun is logged
LEMMA LineOfBegun ==
  ASSUME LoggerIInv, NEW t \in Begun, Begun' \subseteq Begun \ {t}, sent' = sent + 1
  PROVE  BegunFit' /\ sent' \in Lines
<1>1. /\ Begun \in SUBSET Threads /\ Begun \ {t} \in SUBSET Threads
      /\ Begun' \in SUBSET (Begun \ {t}) /\ sent \in 0 .. MaxLines
  BY DEF Begun, LoggerIInv, LoggerTypeOK
<1>2. IsFiniteSet(Begun) /\ Cardinality(Begun) \in Nat
  BY <1>1, Finite
<1>3. Cardinality(Begun \ {t}) = Cardinality(Begun) - 1
  BY <1>2, FS_RemoveElement
<1>4. /\ Cardinality(Begun') \in Nat
      /\ Cardinality(Begun') <= Cardinality(Begun \ {t})
  BY <1>1, Fewer
<1>5. sent + Cardinality(Begun) <= MaxLines
  BY DEF LoggerIInv, BegunFit
<1>6. sent' + Cardinality(Begun') <= MaxLines /\ sent' \in 1 .. MaxLines
  BY <1>1, <1>2, <1>3, <1>4, <1>5, LoggerAssumption
<1>7. QED
  BY <1>6 DEF BegunFit, Lines

LEMMA RoomLeft ==
  ASSUME LoggerIInv, Room
  PROVE  /\ sent + Cardinality(Begun) < MaxLines /\ sent \in 0 .. MaxLines
         /\ Cardinality(Begun) \in Nat /\ IsFiniteSet(Begun)
<1> DEFINE T == {t \in Threads : hpc[t] # "none" \/ holder = t}
<1>1. T \in SUBSET Threads /\ Begun \in SUBSET T /\ Begun \in SUBSET Threads
  BY DEF Begun
<1>2. sent + Cardinality(T) < MaxLines /\ sent \in 0 .. MaxLines
  BY DEF Room, LoggerIInv, LoggerTypeOK
<1> HIDE DEF T
<1>3. /\ Cardinality(Begun) \in Nat /\ Cardinality(T) \in Nat
      /\ Cardinality(Begun) <= Cardinality(T)
  BY <1>1, Fewer
<1>4. QED
  BY <1>1, <1>2, <1>3, Finite, LoggerAssumption

\* a line logged at once, by a thread that finds room
LEMMA LineInRoom ==
  ASSUME LoggerIInv, Room, Begun' \subseteq Begun, sent' = sent + 1
  PROVE  BegunFit' /\ sent' \in Lines
<1>1. Begun \in SUBSET Threads /\ Begun' \in SUBSET Begun
  BY DEF Begun
<1>2. Cardinality(Begun') \in Nat /\ Cardinality(Begun') <= Cardinality(Begun)
  BY <1>1, Fewer
<1>3. sent' + Cardinality(Begun') <= MaxLines /\ sent' \in 1 .. MaxLines
  BY <1>2, RoomLeft, LoggerAssumption
<1>4. QED
  BY <1>3 DEF BegunFit, Lines

LEMMA OneMoreBegun ==
  ASSUME LoggerIInv, Room, NEW t \in Threads, Begun' \subseteq Begun \cup {t}, sent' = sent
  PROVE  BegunFit'
<1>1. Begun \cup {t} \in SUBSET Threads /\ Begun' \in SUBSET (Begun \cup {t})
  BY DEF Begun
<1>2. Cardinality(Begun \cup {t}) <= Cardinality(Begun) + 1
  BY RoomLeft, FS_AddElement
<1>3. /\ Cardinality(Begun') \in Nat /\ Cardinality(Begun \cup {t}) \in Nat
      /\ Cardinality(Begun') <= Cardinality(Begun \cup {t})
  BY <1>1, Fewer
<1>4. sent' + Cardinality(Begun') <= MaxLines
  BY <1>2, <1>3, RoomLeft, LoggerAssumption
<1>5. QED
  BY <1>4 DEF BegunFit

-----------------------------------------------------------------------------
(***************************************************************************)
(* One line of either way                                                  *)
(***************************************************************************)
LEMMA SyncLineKeeps ==
  ASSUME LoggerIInv, SyncLine, sent' \in Lines, UNCHANGED <<local, mode>>
  PROVE  Flow'
<1>1. PICK opened \in BOOLEAN :
        /\ file' = StoreSync(check_new_log(file, opened), sent + 1)
        /\ ~gLogAsync /\ gLogAsync' = gLogAsync /\ sent' = sent + 1
        /\ gAsyncLogBuffer' = gAsyncLogBuffer /\ local' = local
  BY DEF SyncLine, queue, mode
<1>2. local = <<>> /\ gAsyncLogBuffer = <<>>
  BY <1>1 DEF LoggerIInv, BatchInWrite
<1>3. PICK g : g = check_new_log(file, opened)
  OBVIOUS
<1>4. GoodFile(g) /\ InFile(g) = InFile(file)
  BY <1>3, FileIsGood, RotationKeeps
<1>5. GoodFile(file') /\ InFile(file') \in {InFile(file), Append(InFile(file), sent')}
  BY <1>1, <1>3, <1>4, StoreSyncKeeps
<1>6. /\ InFile(file) \in Seq(Lines) /\ Pipeline = InFile(file)
      /\ Pipeline' = InFile(file')
  <2>1. /\ InFile(file) \in Seq(Lines) /\ InFile(file') \in Seq(Lines)
    BY <1>5, PipelineType, FileType DEF LoggerIInv, GoodFile
  <2>2. Pipeline = InFile(file) \o <<>> \o <<>> /\ Pipeline' = InFile(file') \o <<>> \o <<>>
    BY <1>1, <1>2 DEF Pipeline, Written, InFile
  <2>3. QED
    BY <2>1, <2>2, ConcatEmptySeq
<1>7. Ascending(Pipeline) /\ \A x \in Range(Pipeline) : x <= sent
  BY DEF LoggerIInv, InOrder, UpToSent, Ascending, Range
<1>8. sent \in Int /\ sent \in 0 .. MaxLines /\ Range(Pipeline) \subseteq Int
  BY PipelineType DEF LoggerIInv
<1>9. Ascending(Pipeline') /\ \A x \in Range(Pipeline') : x <= sent'
  <2>1. CASE InFile(file') = InFile(file)
    BY <1>1, <1>6, <1>7, <1>8, <2>1
  <2>2. CASE InFile(file') = Append(InFile(file), sent')
    <3>1. \A x \in Range(InFile(file)) : x < sent'
      BY <1>1, <1>6, <1>7, <1>8
    <3>2. /\ Ascending(Append(InFile(file), sent'))
          /\ Range(Append(InFile(file), sent')) = Range(InFile(file)) \cup {sent'}
      BY <1>6, <1>7, <3>1, AppendLine
    <3>3. /\ Ascending(Pipeline')
          /\ \A x \in Range(Pipeline') : (x \in Int /\ x < sent') \/ x = sent'
      BY <1>6, <1>8, <2>2, <3>1, <3>2
    <3>4. \A x \in Range(Pipeline') : x <= sent'
      BY <1>1, <1>8, <3>3
    <3>5. QED
      BY <3>3, <3>4
  <2>3. QED
    BY <1>5, <2>1, <2>2
<1>10. InOrder' /\ UpToSent'
  BY <1>9 DEF InOrder, UpToSent, Ascending, Range
<1>11. KeepsAll'
  BY <1>1 DEF KeepsAll
<1>12. QED
  BY <1>5, <1>10, <1>11 DEF GoodFile, BufferHasRoom, Flow

LEMMA AsyncLineKeeps ==
  ASSUME LoggerIInv, AsyncLine, sent' \in Lines, UNCHANGED <<local, mode>>
  PROVE  /\ gAsyncLogBuffer' \in Seq(Lines)
         /\ Flow'
         /\ \A x \in Range(gAsyncLogBuffer') : x \in Range(gAsyncLogBuffer) \/ x = sent'
<1>1. /\ gLogAsync /\ gAsyncLogBuffer' = Append(gAsyncLogBuffer, sent')
      /\ sent' = sent + 1 /\ file' = file /\ local' = local
      /\ gLogAsync' = gLogAsync /\ syncLines' = syncLines
  BY DEF AsyncLine, output, mode
<1>2. /\ InFile(file) \in Seq(Lines) /\ local \in Seq(Lines) /\ gAsyncLogBuffer \in Seq(Lines)
      /\ Pipeline = (InFile(file) \o local) \o gAsyncLogBuffer
      /\ Pipeline \in Seq(Lines)
  BY PipelineType DEF LoggerIInv
<1>3. InFile(file) \o local \in Seq(Lines)
  BY <1>2, ConcatProperties
<1>4. Pipeline' = Append(Pipeline, sent')
  <2>1. Pipeline' = (InFile(file) \o local) \o Append(gAsyncLogBuffer, sent')
    BY <1>1 DEF Pipeline, Written, InFile
  <2>2. QED
    BY <1>2, <1>3, <2>1, ConcatAppend
<1>5. Ascending(Pipeline) /\ \A x \in Range(Pipeline) : x <= sent
  BY DEF LoggerIInv, InOrder, UpToSent, Ascending, Range
<1>6. /\ sent \in 0 .. MaxLines /\ syncLines \in 0 .. MaxLines /\ sent \in Int /\ syncLines \in Int
      /\ Range(Pipeline) \subseteq Int
  BY PipelineType DEF LoggerIInv
<1>7. \A x \in Range(Pipeline) : x < sent'
  BY <1>1, <1>5, <1>6
<1>8. Ascending(Pipeline') /\ Range(Pipeline') = Range(Pipeline) \cup {sent'}
  BY <1>2, <1>4, <1>5, <1>7, AppendLine
<1>9. \A x \in Range(Pipeline') : x <= sent'
  BY <1>1, <1>6, <1>7, <1>8
<1>10. InOrder' /\ UpToSent'
  BY <1>8, <1>9 DEF InOrder, UpToSent, Ascending, Range
<1>11. KeepsAll'
  <2>1. syncLines + 1 .. sent \subseteq file.skipped \cup Range(Pipeline)
    BY <1>1 DEF LoggerIInv, KeepsAll, InSome, Range
  <2>2. syncLines' + 1 .. sent' \subseteq (syncLines + 1 .. sent) \cup {sent'}
    BY <1>1, <1>6
  <2>3. syncLines' + 1 .. sent' \subseteq file'.skipped \cup Range(Pipeline')
    BY <1>1, <1>8, <2>1, <2>2
  <2>4. QED
    BY <2>3 DEF KeepsAll, InSome, Range
<1>12. /\ gAsyncLogBuffer' \in Seq(Lines)
       /\ Range(gAsyncLogBuffer') = Range(gAsyncLogBuffer) \cup {sent'}
  BY <1>1, <1>2, AppendLine
<1>13. file' \in Files /\ BufferHasRoom'
  BY <1>1 DEF LoggerIInv, LoggerTypeOK, BufferHasRoom
<1>14. QED
  BY <1>10, <1>11, <1>12, <1>13 DEF Flow

LEMMA BatchIsKept ==
  ASSUME LoggerIInv, NEW opened \in BOOLEAN, NEW k \in 0 .. Len(local)
  PROVE  LET f     == Stored(opened)[k]
             taken == {local[j] : j \in 1 .. k}
         IN  /\ GoodFile(f)
             /\ Ascending(InFile(f))
             /\ Range(InFile(f)) \subseteq Range(InFile(file)) \cup taken
             /\ Range(InFile(f)) \cup f.skipped
                  = Range(InFile(file)) \cup file.skipped \cup taken
<1>1. Ascending(Pipeline)
  BY DEF LoggerIInv, InOrder, Ascending
<1>2. /\ InFile(file) \in Seq(Lines) /\ local \in Seq(Lines) /\ gAsyncLogBuffer \in Seq(Lines)
      /\ Pipeline = InFile(file) \o local \o gAsyncLogBuffer
  BY PipelineType DEF LoggerIInv
<1>3. Ascending(InFile(file)) /\ Ascending(local) /\ Before(InFile(file), local)
  BY <1>1, <1>2, PipelineParts
<1>4. QED
  BY <1>2, <1>3, FileIsGood, BatchKeeps

\* the batch goes to the file, in front of what was pushed since
LEMMA AsyncWriteKeeps ==
  ASSUME LoggerIInv, AsyncWrite
  PROVE  Flow'
<1>1. PICK opened \in BOOLEAN : file' = log_flush(Stored(opened)[Len(local)])
  BY DEF AsyncWrite
<1>2. /\ local' = <<>> /\ gAsyncLogBuffer' = gAsyncLogBuffer /\ sent' = sent
      /\ gLogAsync' = gLogAsync /\ syncLines' = syncLines
  BY DEF AsyncWrite, queue, mode
<1>3. /\ InFile(file) \in Seq(Lines) /\ local \in Seq(Lines) /\ gAsyncLogBuffer \in Seq(Lines)
      /\ Pipeline = InFile(file) \o local \o gAsyncLogBuffer
  BY PipelineType DEF LoggerIInv
<1>4. /\ Len(local) \in 0 .. Len(local)
      /\ {local[j] : j \in 1 .. Len(local)} = Range(local)
  <2>1. Len(local) \in Nat
    BY <1>3, LenProperties
  <2>2. Range(local) = {local[j] : j \in 1 .. Len(local)}
    BY <1>3, RangeEquality
  <2>3. QED
    BY <2>1, <2>2
<1>5. PICK g : g = Stored(opened)[Len(local)]
  OBVIOUS
<1>6. /\ GoodFile(g) /\ Ascending(InFile(g))
      /\ Range(InFile(g)) \subseteq Range(InFile(file)) \cup Range(local)
      /\ Range(InFile(g)) \cup g.skipped = Range(InFile(file)) \cup file.skipped \cup Range(local)
  BY <1>4, <1>5, BatchIsKept
<1>7. GoodFile(file') /\ InFile(file') = InFile(g) /\ file'.skipped = g.skipped
  BY <1>1, <1>5, <1>6, FlushIsGood, FlushKeeps DEF GoodFile
<1>8. InFile(g) \in Seq(Lines) /\ <<>> \in Seq(Lines)
  BY <1>6, FileType, NoLine DEF GoodFile
<1>9. Pipeline' = InFile(g) \o <<>> \o gAsyncLogBuffer
  BY <1>2, <1>7 DEF Pipeline, Written, InFile
<1>10. /\ Ascending(Pipeline) /\ \A x \in Range(Pipeline) : x <= sent
       /\ gLogAsync => syncLines + 1 .. sent \subseteq file.skipped \cup Range(Pipeline)
  BY DEF LoggerIInv, InOrder, UpToSent, KeepsAll, InSome, Ascending, Range
<1>11. /\ Range(Pipeline) = Range(InFile(file)) \cup Range(local) \cup Range(gAsyncLogBuffer)
       /\ Ascending(gAsyncLogBuffer)
       /\ Before(InFile(file), gAsyncLogBuffer) /\ Before(local, gAsyncLogBuffer)
  BY <1>3, <1>10, PipelineParts
<1>12. /\ Range(Pipeline') = Range(InFile(g)) \cup Range(gAsyncLogBuffer)
       /\ Ascending(Pipeline') <=> /\ Ascending(InFile(g)) /\ Ascending(gAsyncLogBuffer)
                                   /\ Before(InFile(g), gAsyncLogBuffer)
  <2>1. PICK none \in Seq(Lines) : none = <<>> /\ Range(none) = {} /\ Ascending(none)
    BY NoLine
  <2>2. Pipeline' = InFile(g) \o none \o gAsyncLogBuffer
    BY <1>9, <2>1
  <2>3. /\ Range(Pipeline') = Range(InFile(g)) \cup Range(none) \cup Range(gAsyncLogBuffer)
        /\ Ascending(Pipeline') <=>
             /\ Ascending(InFile(g)) /\ Ascending(none) /\ Ascending(gAsyncLogBuffer)
             /\ Before(InFile(g), none) /\ Before(InFile(g), gAsyncLogBuffer)
             /\ Before(none, gAsyncLogBuffer)
    BY <1>3, <1>8, <2>2, PipelineParts
  <2>4. Before(InFile(g), none) /\ Before(none, gAsyncLogBuffer)
    BY <2>1 DEF Before
  <2>5. QED
    BY <2>1, <2>3, <2>4
<1>13. Ascending(Pipeline') /\ \A x \in Range(Pipeline') : x <= sent
  BY <1>6, <1>10, <1>11, <1>12 DEF Before
<1>14. InOrder' /\ UpToSent'
  BY <1>2, <1>13 DEF InOrder, UpToSent, Ascending, Range
<1>15. KeepsAll'
  <2>1. file.skipped \cup Range(Pipeline) = file'.skipped \cup Range(Pipeline')
    BY <1>6, <1>7, <1>11, <1>12
  <2>2. QED
    BY <1>2, <1>10, <2>1 DEF KeepsAll, InSome, Range
<1>16. QED
  BY <1>7, <1>14, <1>15 DEF GoodFile, BufferHasRoom, Flow

\* the batch is taken
LEMMA AsyncTakeKeeps ==
  ASSUME LoggerIInv, AsyncTake
  PROVE  Flow'
<1>1. /\ local = <<>> /\ local' = gAsyncLogBuffer /\ gAsyncLogBuffer' = <<>>
      /\ file' = file /\ UNCHANGED <<sent, mode>>
  BY DEF AsyncTake, output, LoggerIInv, BatchInWrite
<1>2. InFile(file) \in Seq(Lines) /\ gAsyncLogBuffer \in Seq(Lines)
  BY PipelineType DEF LoggerIInv
<1>3. InFile(file) \o gAsyncLogBuffer \in Seq(Lines)
  BY <1>2, ConcatProperties
<1>4. Pipeline' = Pipeline
  <2>1. /\ Pipeline = (InFile(file) \o <<>>) \o gAsyncLogBuffer
        /\ Pipeline' = (InFile(file) \o gAsyncLogBuffer) \o <<>>
    BY <1>1 DEF Pipeline, Written, InFile
  <2>2. InFile(file) \o <<>> = InFile(file)
    BY <1>2, ConcatEmptySeq
  <2>3. (InFile(file) \o gAsyncLogBuffer) \o <<>> = InFile(file) \o gAsyncLogBuffer
    BY <1>3, ConcatEmptySeq
  <2>4. QED
    BY <2>1, <2>2, <2>3
<1>5. QED
  BY <1>1, <1>4, SamePipeline DEF LoggerIInv, LoggerTypeOK, BufferHasRoom, Flow

\* nothing happens to the lines
LEMMA FlowRests ==
  ASSUME LoggerIInv, UNCHANGED <<file, local, gAsyncLogBuffer, sent, mode>>
  PROVE  Flow'
BY FileIsGood, FileMoves

-----------------------------------------------------------------------------
(***************************************************************************)
(* Every step keeps the invariant                                          *)
(***************************************************************************)
LEMMA InitLoggerIInv == Init => LoggerIInv
<1> SUFFICES ASSUME Init PROVE LoggerIInv
  OBVIOUS
<1>1. PICK opened \in BOOLEAN : file = EmptyFile(opened)
  BY DEF Init
<1>2. /\ file.gFileBuf = <<>> /\ file.stdio = <<>> /\ file.disk = <<>>
      /\ file \in Files
  BY <1>1, NoLine DEF EmptyFile, Files
<1>3. /\ local = <<>> /\ gAsyncLogBuffer = <<>> /\ sent = 0 /\ ~gLogAsync
      /\ holder = Nobody /\ hpc = [t \in Threads |-> "none"]
  BY DEF Init
<1>4. LoggerTypeOK
  <2>1. local \in Seq(Lines) /\ gAsyncLogBuffer \in Seq(Lines)
    BY <1>3, NoLine
  <2>2. 0 \in 0 .. MaxLines
    BY LoggerAssumption
  <2>3. hpc \in [Threads -> {"none", "note", "crash", "flush"}]
    BY <1>3
  <2>4. QED
    BY <1>2, <2>1, <2>2, <2>3 DEF Init, LoggerTypeOK
<1>5. BegunFit
  <2>1. Begun = {}
    BY <1>3, LoggerAssumption DEF Begun
  <2>2. QED
    BY <1>3, <2>1, FS_EmptySet, LoggerAssumption DEF BegunFit
<1>6. BufferHasRoom /\ BatchInWrite
  BY <1>2, <1>3, NoLine, LoggerAssumption DEF BufferHasRoom, BatchInWrite
<1>7. Pipeline = <<>>
  <2>1. Pipeline = <<>> \o <<>> \o <<>> \o <<>> \o <<>>
    BY <1>2, <1>3 DEF Pipeline, Written
  <2>2. <<>> \o <<>> = <<>>
    BY NoLine, ConcatEmptySeq
  <2>3. QED
    BY <2>1, <2>2
<1>8. InOrder /\ UpToSent /\ KeepsAll
  BY <1>3, <1>7 DEF InOrder, UpToSent, KeepsAll
<1>9. LeftInExit /\ ExitWritesAll
  BY DEF Init, LeftInExit, ExitWritesAll
<1>10. QED
  BY <1>4, <1>5, <1>6, <1>8, <1>9 DEF LoggerIInv

\* a thread of the program logs one line in the synchronous way
LEMMA LogSyncStep ==
  ASSUME LoggerIInv, proc = "running", NEW t \in Threads, LogSync(t)
  PROVE  LoggerIInv'
<1>1. /\ Room /\ SyncLine /\ sent' = sent + 1
      /\ UNCHANGED <<mode, carrier, leaving, gAsyncExit, hpc, proc, queue>>
      /\ dayOver' = FALSE
  BY DEF LogSync, SyncLine
<1>2. Begun' \subseteq Begun
  BY <1>1 DEF Begun, queue
<1>3. BegunFit' /\ sent' \in Lines
  BY <1>1, <1>2, LineInRoom
<1>4. Flow'
  BY <1>1, <1>3, SyncLineKeeps DEF carrier
<1>5. LoggerTypeOK'
  <2>1. sent' \in 0 .. MaxLines /\ file' \in Files
    BY <1>3, <1>4, LoggerAssumption DEF Lines, Flow
  <2>2. QED
    BY <1>1, <2>1 DEF LoggerIInv, LoggerTypeOK, mode, carrier, leaving, queue
<1>6. BatchInWrite' /\ ExitWritesAll'
  BY <1>1 DEF LoggerIInv, BatchInWrite, ExitWritesAll, mode, carrier, queue
<1>7. LeftInExit'
  <2>1. exitAt' <= sent'
    BY <1>1, LoggerAssumption DEF LoggerIInv, LoggerTypeOK, LeftInExit, leaving
  <2>2. QED
    BY <1>1, <2>1 DEF LoggerIInv, LeftInExit, NoneFromBefore, mode, carrier, leaving, queue
<1>8. QED
  BY <1>3, <1>4, <1>5, <1>6, <1>7 DEF LoggerIInv, Flow

LEMMA LockBufferStep ==
  ASSUME LoggerIInv, proc = "running", NEW t \in Threads, LockBuffer(t)
  PROVE  LoggerIInv'
<1>1. /\ Room /\ gLogAsync /\ holder' = t
      /\ UNCHANGED <<mode, carrier, output, leaving, gAsyncLogBuffer, gAsyncExit, hpc, sent, proc>>
  BY DEF LockBuffer
<1>2. Begun' \subseteq Begun \cup {t}
  BY <1>1 DEF Begun
<1>3. BegunFit'
  BY <1>1, <1>2, OneMoreBegun
<1>4. Flow'
  BY <1>1, FlowRests DEF carrier, output
<1>5. LoggerTypeOK'
  BY <1>1, <1>4 DEF LoggerIInv, LoggerTypeOK, Flow, mode, carrier, leaving, output
<1>6. BatchInWrite' /\ ExitWritesAll' /\ LeftInExit'
  BY <1>1
  DEF LoggerIInv, BatchInWrite, ExitWritesAll, LeftInExit, NoneFromBefore, mode, carrier, leaving
<1>7. QED
  BY <1>3, <1>4, <1>5, <1>6 DEF LoggerIInv, Flow

\* what a push leaves of the rest
LEMMA PushKeeps ==
  ASSUME LoggerIInv, proc = "running", AsyncLine, sent' \in Lines,
         UNCHANGED <<mode, carrier, leaving, gAsyncExit, proc>>
  PROVE  Flow' /\ (BatchInWrite /\ ExitWritesAll /\ LeftInExit)'
<1>1. /\ gAsyncLogBuffer' \in Seq(Lines) /\ Flow'
      /\ \A x \in Range(gAsyncLogBuffer') : x \in Range(gAsyncLogBuffer) \/ x = sent'
  BY AsyncLineKeeps DEF carrier
<1>2. sent' = sent + 1 /\ gLogAsync' = gLogAsync /\ gLogAsync
  BY DEF AsyncLine, mode
<1>3. BatchInWrite' /\ ExitWritesAll'
  BY <1>2 DEF LoggerIInv, BatchInWrite, ExitWritesAll, carrier
<1>4. exitAt' = exitAt /\ exitAt <= sent' /\ exitAt < sent'
  BY <1>2, LoggerAssumption DEF LoggerIInv, LoggerTypeOK, LeftInExit, leaving
<1>5. ASSUME NoneFromBefore PROVE NoneFromBefore'
  BY <1>1, <1>4, <1>5 DEF NoneFromBefore, Range
<1>6. LeftInExit'
  BY <1>2, <1>4, <1>5 DEF LoggerIInv, LeftInExit, carrier, leaving
<1>7. QED
  BY <1>1, <1>3, <1>6

LEMMA PushLineStep ==
  ASSUME LoggerIInv, proc = "running", NEW t \in Threads, PushLine(t)
  PROVE  LoggerIInv'
<1>1. /\ holder = t /\ hpc[t] = "none" /\ AsyncLine
      /\ UNCHANGED <<mode, carrier, leaving, gAsyncExit, hpc, proc>>
      /\ sent' = sent + 1 /\ holder' = Nobody /\ UNCHANGED output
  BY DEF PushLine, AsyncLine
<1>2. t \in Begun /\ Begun' \subseteq Begun \ {t}
  BY <1>1, LoggerAssumption DEF Begun
<1>3. BegunFit' /\ sent' \in Lines
  BY <1>1, <1>2, LineOfBegun
<1>4. Flow' /\ (BatchInWrite /\ ExitWritesAll /\ LeftInExit)' /\ gAsyncLogBuffer' \in Seq(Lines)
  BY <1>1, <1>3, PushKeeps, AsyncLineKeeps DEF carrier
<1>5. LoggerTypeOK'
  BY <1>1, <1>3, <1>4
  DEF LoggerIInv, LoggerTypeOK, Flow, Lines, mode, carrier, leaving, output
<1>6. QED
  BY <1>3, <1>4, <1>5 DEF LoggerIInv, Flow

LEMMA ExitStep ==
  ASSUME LoggerIInv, proc = "running", NEW t \in Threads, Exit(t)
  PROVE  LoggerIInv'
<1>1. /\ xpc = "no" /\ xpc' = "flush" /\ exiting' = t /\ exitAt' = sent /\ late' = late
      /\ UNCHANGED <<mode, queue, carrier, output, gAsyncExit, hpc, sent, proc>>
  BY DEF Exit
<1>2. Begun' \subseteq Begun
  BY <1>1 DEF Begun, queue
<1>3. BegunFit'
  BY <1>1, <1>2, SameBegun
<1>4. Flow'
  BY <1>1, FlowRests DEF carrier, output, queue
<1>5. LoggerTypeOK'
  BY <1>1, <1>4 DEF LoggerIInv, LoggerTypeOK, Flow, mode, carrier, queue, output
<1>6. BatchInWrite' /\ ExitWritesAll'
  BY <1>1 DEF LoggerIInv, BatchInWrite, ExitWritesAll, mode, carrier, queue
<1>7. LeftInExit'
  <2>1. ~gAsyncExit /\ sent <= sent
    BY <1>1, LoggerAssumption DEF LoggerIInv, LoggerTypeOK, LeftInExit
  <2>2. QED
    BY <1>1, <2>1 DEF LoggerIInv, LeftInExit, NoneFromBefore, mode, carrier, queue
<1>8. QED
  BY <1>3, <1>4, <1>5, <1>6, <1>7 DEF LoggerIInv, Flow

LEMMA InterruptStep ==
  ASSUME LoggerIInv, proc = "running", NEW t \in Threads,
         NEW signal \in {"note", "crash"}, Interrupt(t, signal)
  PROVE  LoggerIInv'
<1>1. /\ Room /\ hpc' = [hpc EXCEPT ![t] = signal]
      /\ UNCHANGED <<mode, queue, carrier, output, leaving, gAsyncExit, sent, proc>>
  BY DEF Interrupt
<1>2. hpc \in [Threads -> {"none", "note", "crash", "flush"}]
  BY DEF LoggerIInv, LoggerTypeOK
<1>3. Begun' \subseteq Begun \cup {t}
  BY <1>1, <1>2 DEF Begun, queue
<1>4. BegunFit'
  BY <1>1, <1>3, OneMoreBegun
<1>5. Flow'
  BY <1>1, FlowRests DEF carrier, output, queue
<1>6. LoggerTypeOK'
  <2>1. hpc' \in [Threads -> {"none", "note", "crash", "flush"}]
    BY <1>1, <1>2
  <2>2. QED
    BY <1>1, <2>1 DEF LoggerIInv, LoggerTypeOK, mode, carrier, leaving, queue, output
<1>7. BatchInWrite' /\ ExitWritesAll' /\ LeftInExit'
  BY <1>1
  DEF LoggerIInv, BatchInWrite, ExitWritesAll, LeftInExit, NoneFromBefore, mode, carrier,
      leaving, queue
<1>8. QED
  BY <1>4, <1>5, <1>6, <1>7 DEF LoggerIInv, Flow

LEMMA HandlerLogsStep ==
  ASSUME LoggerIInv, proc = "running", NEW t \in Threads, HandlerLogs(t)
  PROVE  LoggerIInv'
<1>1. /\ hpc[t] \in {"note", "crash"}
      /\ SyncLine \/ (holder = Nobody /\ AsyncLine)
      /\ hpc' = [hpc EXCEPT ![t] = IF hpc[t] = "crash" THEN "flush" ELSE "none"]
      /\ UNCHANGED <<mode, carrier, leaving, gAsyncExit, proc>>
  BY DEF HandlerLogs
<1>2. /\ hpc \in [Threads -> {"none", "note", "crash", "flush"}]
      /\ hpc' \in [Threads -> {"none", "note", "crash", "flush"}]
      /\ hpc'[t] \notin {"note", "crash"}
      /\ \A u \in Threads \ {t} : hpc'[u] = hpc[u]
  BY <1>1 DEF LoggerIInv, LoggerTypeOK
<1>3. holder = Nobody /\ holder' = Nobody /\ sent' = sent + 1
  <2>1. CASE SyncLine
    BY <2>1 DEF SyncLine, queue, LoggerIInv, BatchInWrite
  <2>2. CASE holder = Nobody /\ AsyncLine
    BY <2>2 DEF AsyncLine
  <2>3. QED
    BY <1>1, <2>1, <2>2
<1>4. t \in Begun /\ Begun' \subseteq Begun \ {t}
  BY <1>1, <1>2, <1>3, LoggerAssumption DEF Begun
<1>5. BegunFit' /\ sent' \in Lines /\ sent' \in 0 .. MaxLines
  BY <1>3, <1>4, LineOfBegun, LoggerAssumption DEF Lines
<1>6. CASE SyncLine
  <2>1. Flow'
    BY <1>1, <1>5, <1>6, SyncLineKeeps DEF carrier
  <2>2. UNCHANGED <<gAsyncLogBuffer>> /\ dayOver' = FALSE
    BY <1>6 DEF SyncLine, queue
  <2>3. LoggerTypeOK'
    BY <1>1, <1>2, <1>3, <1>5, <2>1, <2>2
    DEF LoggerIInv, LoggerTypeOK, Flow, mode, carrier, leaving
  <2>4. BatchInWrite' /\ ExitWritesAll'
    BY <1>1, <1>3, <2>2 DEF LoggerIInv, BatchInWrite, ExitWritesAll, mode, carrier
  <2>5. LeftInExit'
    <3>1. exitAt' <= sent'
      BY <1>1, <1>3, LoggerAssumption DEF LoggerIInv, LoggerTypeOK, LeftInExit, leaving
    <3>2. QED
      BY <1>1, <2>2, <3>1 DEF LoggerIInv, LeftInExit, NoneFromBefore, mode, carrier, leaving
  <2>6. QED
    BY <1>5, <2>1, <2>3, <2>4, <2>5 DEF LoggerIInv, Flow
<1>7. CASE AsyncLine
  <2>1. Flow' /\ (BatchInWrite /\ ExitWritesAll /\ LeftInExit)' /\ gAsyncLogBuffer' \in Seq(Lines)
    BY <1>1, <1>5, <1>7, PushKeeps, AsyncLineKeeps DEF carrier
  <2>2. dayOver' = dayOver
    BY <1>7 DEF AsyncLine, output
  <2>3. LoggerTypeOK'
    BY <1>1, <1>2, <1>3, <1>5, <2>1, <2>2
    DEF LoggerIInv, LoggerTypeOK, Flow, mode, carrier, leaving
  <2>4. QED
    BY <1>5, <2>1, <2>3 DEF LoggerIInv, Flow
<1>8. QED
  BY <1>1, <1>6, <1>7

\* log_flush, called by a handler or by exit
LEMMA FlushFlows ==
  ASSUME LoggerIInv, file' = log_flush(file),
         UNCHANGED <<local, gAsyncLogBuffer, sent, mode>>
  PROVE  Flow'
<1>1. GoodFile(file) /\ file \in Files
  BY FileIsGood DEF GoodFile
<1>2. /\ GoodFile(file') /\ InFile(file') = InFile(file) /\ file'.skipped = file.skipped
  BY <1>1, FlushIsGood, FlushKeeps
<1>3. QED
  BY <1>2, FileMoves

LEMMA CrashFlushStep ==
  ASSUME LoggerIInv, proc = "running", NEW t \in Threads, CrashFlush(t)
  PROVE  LoggerIInv'
<1>1. /\ file' = log_flush(file) /\ proc' = "crashed"
      /\ UNCHANGED <<mode, queue, carrier, leaving, gAsyncExit, dayOver, hpc, sent>>
  BY DEF CrashFlush
<1>2. Begun' \subseteq Begun
  BY <1>1 DEF Begun, queue
<1>3. BegunFit'
  BY <1>1, <1>2, SameBegun
<1>4. Flow'
  BY <1>1, FlushFlows DEF carrier, queue
<1>5. LoggerTypeOK'
  BY <1>1, <1>4 DEF LoggerIInv, LoggerTypeOK, Flow, mode, carrier, leaving, queue
<1>6. BatchInWrite' /\ ExitWritesAll' /\ LeftInExit'
  BY <1>1
  DEF LoggerIInv, BatchInWrite, ExitWritesAll, LeftInExit, NoneFromBefore, mode, carrier,
      leaving, queue
<1>7. QED
  BY <1>3, <1>4, <1>5, <1>6 DEF LoggerIInv, Flow

LEMMA SetAsyncStep ==
  ASSUME LoggerIInv, proc = "running", SetAsync
  PROVE  LoggerIInv'
<1>1. /\ ~gLogAsync /\ gLogAsync' = TRUE /\ gAsyncExit' = FALSE /\ apc' = "wait"
      /\ syncLines' = sent
      /\ UNCHANGED <<queue, output, leaving, local, hpc, sent, proc>>
  BY DEF SetAsync
<1>2. Begun' \subseteq Begun
  BY <1>1 DEF Begun, queue
<1>3. BegunFit'
  BY <1>1, <1>2, SameBegun
<1>4. Pipeline' = Pipeline /\ file' = file
  BY <1>1 DEF Pipeline, Written, queue, output
<1>5. Flow'
  <2>1. InOrder' /\ UpToSent' /\ BufferHasRoom' /\ file' \in Files
    BY <1>1, <1>4
    DEF LoggerIInv, LoggerTypeOK, InOrder, UpToSent, BufferHasRoom
  <2>2. syncLines' + 1 .. sent' = {}
    BY <1>1, LoggerAssumption DEF LoggerIInv, LoggerTypeOK
  <2>3. KeepsAll'
    BY <2>2 DEF KeepsAll
  <2>4. QED
    BY <2>1, <2>3 DEF Flow
<1>6. LoggerTypeOK'
  BY <1>1, <1>4 DEF LoggerIInv, LoggerTypeOK, leaving, queue, output
<1>7. BatchInWrite'
  BY <1>1 DEF LoggerIInv, BatchInWrite, queue
<1>8. ExitWritesAll' /\ LeftInExit'
  BY <1>1 DEF LoggerIInv, ExitWritesAll, LeftInExit, leaving
<1>9. QED
  BY <1>3, <1>5, <1>6, <1>7, <1>8 DEF LoggerIInv, Flow

LEMMA AsyncTakeStep ==
  ASSUME LoggerIInv, proc = "running", AsyncTake
  PROVE  LoggerIInv'
<1>1. /\ local' = gAsyncLogBuffer /\ gAsyncLogBuffer' = <<>> /\ apc = "wait"
      /\ apc' = IF gAsyncLogBuffer = <<>> THEN "empty" ELSE "write"
      /\ UNCHANGED <<mode, output, leaving, holder, gAsyncExit, hpc, sent, proc>>
  BY DEF AsyncTake
<1>2. Begun' \subseteq Begun
  BY <1>1 DEF Begun
<1>3. BegunFit'
  BY <1>1, <1>2, SameBegun
<1>4. Flow'
  BY AsyncTakeKeeps
<1>5. LoggerTypeOK'
  BY <1>1, <1>4, NoLine DEF LoggerIInv, LoggerTypeOK, mode, leaving, output
<1>6. BatchInWrite' /\ ExitWritesAll' /\ LeftInExit'
  <2>1. NoneFromBefore'
    BY <1>1 DEF NoneFromBefore
  <2>2. QED
    BY <1>1, <2>1
    DEF LoggerIInv, BatchInWrite, ExitWritesAll, LeftInExit, NoneFromBefore, mode, leaving
<1>7. QED
  BY <1>3, <1>4, <1>5, <1>6 DEF LoggerIInv, Flow

LEMMA AsyncLeaveStep ==
  ASSUME LoggerIInv, proc = "running", AsyncLeave
  PROVE  LoggerIInv'
<1>1. /\ gAsyncExit /\ gAsyncLogBuffer = <<>> /\ apc = "wait" /\ apc' = "done"
      /\ UNCHANGED <<mode, queue, output, leaving, gAsyncExit, local, hpc, sent, proc>>
  BY DEF AsyncLeave, Leaves
<1>2. Begun' \subseteq Begun
  BY <1>1 DEF Begun, queue
<1>3. BegunFit'
  BY <1>1, <1>2, SameBegun
<1>4. Flow'
  BY <1>1, FlowRests DEF output, queue
<1>5. LoggerTypeOK'
  BY <1>1, <1>4 DEF LoggerIInv, LoggerTypeOK, mode, leaving, output, queue
<1>6. BatchInWrite' /\ ExitWritesAll' /\ LeftInExit'
  <2>1. NoneFromBefore'
    BY <1>1 DEF NoneFromBefore, queue
  <2>2. QED
    BY <1>1, <2>1
    DEF LoggerIInv, BatchInWrite, ExitWritesAll, LeftInExit, NoneFromBefore, mode, leaving, queue
<1>7. QED
  BY <1>3, <1>4, <1>5, <1>6 DEF LoggerIInv, Flow

\* the second look: what has come since the swap came after exit, or exit was late
LEMMA AsyncPassStep ==
  ASSUME LoggerIInv, proc = "running", AsyncPass
  PROVE  LoggerIInv'
<1>1. /\ apc = "empty" /\ apc' = IF gAsyncExit THEN "done" ELSE "wait"
      /\ UNCHANGED <<mode, queue, output, leaving, gAsyncExit, local, hpc, sent, proc>>
  BY DEF AsyncPass
<1>2. Begun' \subseteq Begun
  BY <1>1 DEF Begun, queue
<1>3. BegunFit'
  BY <1>1, <1>2, SameBegun
<1>4. Flow'
  BY <1>1, FlowRests DEF output, queue
<1>5. LoggerTypeOK'
  BY <1>1, <1>4 DEF LoggerIInv, LoggerTypeOK, mode, leaving, output, queue
<1>6. BatchInWrite' /\ ExitWritesAll'
  BY <1>1 DEF LoggerIInv, BatchInWrite, ExitWritesAll, mode, leaving, queue
<1>7. LeftInExit'
  BY <1>1 DEF LoggerIInv, LeftInExit, NoneFromBefore, mode, leaving, queue
<1>8. QED
  BY <1>3, <1>4, <1>5, <1>6, <1>7 DEF LoggerIInv, Flow

LEMMA AsyncWriteStep ==
  ASSUME LoggerIInv, proc = "running", AsyncWrite
  PROVE  LoggerIInv'
<1>1. /\ dayOver' = FALSE /\ local' = <<>> /\ apc' = "wait"
      /\ UNCHANGED <<mode, queue, leaving, gAsyncExit, hpc, sent, proc>>
  BY DEF AsyncWrite
<1>2. Begun' \subseteq Begun
  BY <1>1 DEF Begun, queue
<1>3. BegunFit'
  BY <1>1, <1>2, SameBegun
<1>4. Flow'
  BY AsyncWriteKeeps
<1>5. LoggerTypeOK'
  BY <1>1, <1>4, NoLine DEF LoggerIInv, LoggerTypeOK, Flow, mode, leaving, queue
<1>6. BatchInWrite' /\ ExitWritesAll' /\ LeftInExit'
  BY <1>1
  DEF LoggerIInv, BatchInWrite, ExitWritesAll, LeftInExit, NoneFromBefore, mode, leaving, queue
<1>7. QED
  BY <1>3, <1>4, <1>5, <1>6 DEF LoggerIInv, Flow

LEMMA ExitFlushStep ==
  ASSUME LoggerIInv, proc = "running", ExitFlush
  PROVE  LoggerIInv'
<1>1. /\ file' = log_flush(file) /\ xpc = "flush" /\ xpc' = "stop"
      /\ UNCHANGED <<mode, queue, carrier, gAsyncExit, dayOver, hpc, exiting, exitAt, late>>
      /\ UNCHANGED <<sent, proc>>
  BY DEF ExitFlush
<1>2. Begun' \subseteq Begun
  BY <1>1 DEF Begun, queue
<1>3. BegunFit'
  BY <1>1, <1>2, SameBegun
<1>4. Flow'
  BY <1>1, FlushFlows DEF carrier, queue
<1>5. LoggerTypeOK'
  BY <1>1, <1>4 DEF LoggerIInv, LoggerTypeOK, Flow, mode, carrier, queue
<1>6. BatchInWrite' /\ ExitWritesAll' /\ LeftInExit'
  BY <1>1
  DEF LoggerIInv, BatchInWrite, ExitWritesAll, LeftInExit, NoneFromBefore, mode, carrier, queue
<1>7. QED
  BY <1>3, <1>4, <1>5, <1>6 DEF LoggerIInv, Flow

LEMMA ExitStopStep ==
  ASSUME LoggerIInv, proc = "running", ExitStop
  PROVE  LoggerIInv'
<1>1. /\ gAsyncExit' = gLogAsync /\ xpc = "stop" /\ xpc' = "join"
      /\ UNCHANGED <<mode, queue, carrier, output, hpc, exiting, exitAt, sent, proc>>
      /\ late' = (gLogAsync /\ apc = "empty" /\ gAsyncLogBuffer # <<>>)
  BY DEF ExitStop
<1>2. Begun' \subseteq Begun
  BY <1>1 DEF Begun, queue
<1>3. BegunFit'
  BY <1>1, <1>2, SameBegun
<1>4. Flow'
  BY <1>1, FlowRests DEF carrier, queue, output
<1>5. LoggerTypeOK'
  BY <1>1, <1>4 DEF LoggerIInv, LoggerTypeOK, Flow, mode, carrier, queue, output
<1>6. BatchInWrite' /\ ExitWritesAll'
  BY <1>1 DEF LoggerIInv, BatchInWrite, ExitWritesAll, mode, carrier, queue
<1>7. LeftInExit'
  <2>1. ~gAsyncExit
    BY <1>1 DEF LoggerIInv, LeftInExit
  <2>2. ASSUME gAsyncExit', apc' = "empty", ~late' PROVE NoneFromBefore'
    <3>1. gAsyncLogBuffer' = <<>>
      BY <1>1, <2>2 DEF carrier, queue
    <3>2. QED
      BY <3>1 DEF NoneFromBefore
  <2>3. QED
    BY <1>1, <2>1, <2>2 DEF LoggerIInv, LeftInExit, NoneFromBefore, mode, carrier, queue
<1>8. QED
  BY <1>3, <1>4, <1>5, <1>6, <1>7 DEF LoggerIInv, Flow

\* exit: what was logged before it is in the file, for what the asynchronous thread has
\* left in gAsyncLogBuffer came later, unless exit was late, and log_flush and fclose leave
\* nothing on the way
LEMMA ExitJoinStep ==
  ASSUME LoggerIInv, proc = "running", ExitJoin
  PROVE  LoggerIInv'
<1>1. /\ file' = fclose(IF gLogAsync THEN log_flush(file) ELSE file)
      /\ apc = "done" /\ proc' = "exited"
      /\ UNCHANGED <<mode, queue, carrier, leaving, gAsyncExit, dayOver, hpc, sent>>
  BY DEF ExitJoin
<1>2. Begun' \subseteq Begun
  BY <1>1 DEF Begun, queue
<1>3. BegunFit'
  BY <1>1, <1>2, SameBegun
<1>4. PICK g : g = IF gLogAsync THEN log_flush(file) ELSE file
  OBVIOUS
<1>5. /\ GoodFile(g) /\ InFile(g) = InFile(file) /\ g.skipped = file.skipped
      /\ gLogAsync => g.gFileBuf = <<>>
  <2>1. GoodFile(file) /\ file \in Files
    BY FileIsGood DEF GoodFile
  <2>2. QED
    BY <1>4, <2>1, FlushIsGood, FlushKeeps
<1>6. /\ GoodFile(file') /\ InFile(file') = InFile(file) /\ file'.skipped = file.skipped
      /\ file'.disk = g.disk \o g.stdio
  BY <1>1, <1>4, <1>5, CloseKeeps DEF GoodFile
<1>7. Flow'
  BY <1>1, <1>6, FileMoves DEF carrier, queue
<1>8. LoggerTypeOK'
  BY <1>1, <1>7 DEF LoggerIInv, LoggerTypeOK, Flow, mode, carrier, leaving, queue
<1>9. BatchInWrite' /\ LeftInExit'
  BY <1>1 DEF LoggerIInv, BatchInWrite, LeftInExit, NoneFromBefore, mode, carrier, leaving, queue
<1>10. ExitWritesAll'
  <2>1. SUFFICES ASSUME gLogAsync
                 PROVE  syncLines + 1 .. exitAt \subseteq
                          file'.skipped \cup Range(file'.disk)
                            \cup (IF late THEN Range(gAsyncLogBuffer) ELSE {})
    BY <1>1 DEF ExitWritesAll, Buffered, InSome, Range, mode, leaving, queue
  <2>2. file'.disk = InFile(file)
    <3>1. g.disk \o g.stdio \in Seq(Lines)
      BY <1>5, FileType DEF GoodFile
    <3>2. InFile(g) = (g.disk \o g.stdio) \o <<>>
      BY <1>5, <2>1 DEF InFile
    <3>3. (g.disk \o g.stdio) \o <<>> = g.disk \o g.stdio
      BY <3>1, ConcatEmptySeq
    <3>4. QED
      BY <1>5, <1>6, <3>2, <3>3
  <2>3. PICK none \in Seq(Lines) : none = local /\ Range(none) = {}
    BY <1>1, NoLine DEF LoggerIInv, BatchInWrite
  <2>4. Range(Pipeline) = Range(InFile(file)) \cup Range(gAsyncLogBuffer)
    <3>1. /\ InFile(file) \in Seq(Lines) /\ gAsyncLogBuffer \in Seq(Lines)
          /\ Pipeline = InFile(file) \o none \o gAsyncLogBuffer
      BY <2>3, PipelineType DEF LoggerIInv
    <3>2. QED
      BY <2>3, <3>1, PipelineParts
  <2>5. late \/ \A x \in Range(gAsyncLogBuffer) : exitAt < x
    BY <1>1, <2>1 DEF LoggerIInv, LeftInExit, NoneFromBefore, Range
  <2>6. ASSUME NEW x \in syncLines + 1 .. exitAt
        PROVE  \/ x \in file.skipped \cup Range(InFile(file))
               \/ late /\ x \in Range(gAsyncLogBuffer)
    <3>1. exitAt \in Int /\ sent \in Int /\ syncLines \in Int /\ exitAt <= sent
      BY LoggerAssumption DEF LoggerIInv, LoggerTypeOK, LeftInExit
    <3>2. x \in syncLines + 1 .. sent /\ ~(exitAt < x)
      BY <3>1
    <3>3. x \in file.skipped \cup Range(Pipeline)
      BY <2>1, <3>2 DEF LoggerIInv, KeepsAll, InSome, Range
    <3>4. QED
      BY <2>4, <2>5, <3>2, <3>3
  <2>7. QED
    BY <1>6, <2>2, <2>6
<1>11. QED
  BY <1>3, <1>7, <1>8, <1>9, <1>10 DEF LoggerIInv, Flow

LEMMA NewDayStep ==
  ASSUME LoggerIInv, proc = "running", NewDay
  PROVE  LoggerIInv'
<1>1. /\ dayOver' = TRUE
      /\ UNCHANGED <<mode, queue, carrier, leaving, gAsyncExit, file, hpc, sent, proc>>
  BY DEF NewDay
<1>2. Begun' \subseteq Begun
  BY <1>1 DEF Begun, queue
<1>3. BegunFit'
  BY <1>1, <1>2, SameBegun
<1>4. Flow'
  BY <1>1, FlowRests DEF carrier, queue
<1>5. LoggerTypeOK'
  BY <1>1 DEF LoggerIInv, LoggerTypeOK, mode, carrier, leaving, queue
<1>6. BatchInWrite' /\ ExitWritesAll' /\ LeftInExit'
  BY <1>1
  DEF LoggerIInv, BatchInWrite, ExitWritesAll, LeftInExit, NoneFromBefore, mode, carrier,
      leaving, queue
<1>7. QED
  BY <1>3, <1>4, <1>5, <1>6 DEF LoggerIInv, Flow

LEMMA StdioSpillsStep ==
  ASSUME LoggerIInv, proc = "running", StdioSpills
  PROVE  LoggerIInv'
<1>1. /\ file' = fclose(file)
      /\ UNCHANGED <<mode, queue, carrier, leaving, gAsyncExit, dayOver, hpc, sent, proc>>
  BY DEF StdioSpills
<1>2. Begun' \subseteq Begun
  BY <1>1 DEF Begun, queue
<1>3. BegunFit'
  BY <1>1, <1>2, SameBegun
<1>4. Flow'
  <2>1. /\ GoodFile(file') /\ InFile(file') = InFile(file) /\ file'.skipped = file.skipped
    BY <1>1, FileIsGood, CloseKeeps DEF GoodFile
  <2>2. QED
    BY <1>1, <2>1, FileMoves DEF carrier, queue
<1>5. LoggerTypeOK'
  BY <1>1, <1>4 DEF LoggerIInv, LoggerTypeOK, Flow, mode, carrier, leaving, queue
<1>6. BatchInWrite' /\ ExitWritesAll' /\ LeftInExit'
  BY <1>1
  DEF LoggerIInv, BatchInWrite, ExitWritesAll, LeftInExit, NoneFromBefore, mode, carrier,
      leaving, queue
<1>7. QED
  BY <1>3, <1>4, <1>5, <1>6 DEF LoggerIInv, Flow

LEMMA StutterStep ==
  ASSUME LoggerIInv, UNCHANGED vars
  PROVE  LoggerIInv'
<1>1. UNCHANGED <<mode, queue, carrier, output, leaving, gAsyncExit, hpc, sent, proc>>
  BY DEF vars
<1>2. Begun' \subseteq Begun
  BY <1>1 DEF Begun, queue
<1>3. BegunFit'
  BY <1>1, <1>2, SameBegun
<1>4. Flow'
  BY <1>1, FlowRests DEF carrier, queue, output
<1>5. LoggerTypeOK'
  BY <1>1 DEF LoggerIInv, LoggerTypeOK, mode, carrier, leaving, queue, output
<1>6. BatchInWrite' /\ ExitWritesAll' /\ LeftInExit'
  BY <1>1
  DEF LoggerIInv, BatchInWrite, ExitWritesAll, LeftInExit, NoneFromBefore, Buffered, InSome,
      mode, carrier, leaving,
      queue, output
<1>7. QED
  BY <1>3, <1>4, <1>5, <1>6 DEF LoggerIInv, Flow

LEMMA NextLoggerIInv == LoggerIInv /\ [Next]_vars => LoggerIInv'
<1> SUFFICES ASSUME LoggerIInv, [Next]_vars PROVE LoggerIInv'
  OBVIOUS
<1>1. CASE UNCHANGED vars
  BY <1>1, StutterStep
<1>2. CASE Next
  <2>1. proc = "running"
    BY <1>2 DEF Next
  <2>2. ASSUME NEW t \in Threads, ThreadNext(t) PROVE LoggerIInv'
    BY <2>1, <2>2, LogSyncStep, LockBufferStep, PushLineStep, ExitStep DEF ThreadNext
  <2>3. ASSUME NEW t \in Threads, HandlerNext(t) PROVE LoggerIInv'
    BY <2>1, <2>3, InterruptStep, HandlerLogsStep, CrashFlushStep DEF HandlerNext
  <2>4. CASE SetAsync \/ AsyncTake \/ AsyncLeave \/ AsyncPass \/ AsyncWrite
    BY <2>1, <2>4, SetAsyncStep, AsyncTakeStep, AsyncLeaveStep, AsyncPassStep, AsyncWriteStep
  <2>5. CASE ExitFlush \/ ExitStop \/ ExitJoin
    BY <2>1, <2>5, ExitFlushStep, ExitStopStep, ExitJoinStep
  <2>6. CASE NewDay \/ StdioSpills
    BY <2>1, <2>6, NewDayStep, StdioSpillsStep
  <2>7. QED
    BY <1>2, <2>2, <2>3, <2>4, <2>5, <2>6 DEF Next
<1>3. QED
  BY <1>1, <1>2

LEMMA LoggerInvariant == Spec => []LoggerIInv
BY InitLoggerIInv, NextLoggerIInv, PTL DEF Spec

-----------------------------------------------------------------------------
(***************************************************************************)
(* What it is good for                                                     *)
(***************************************************************************)
\* gFileBuf does not overflow, in either way of logging nor in the middle of a batch, for
\* any size of it from two lines on; and every variable keeps its type.
THEOREM BufferNeverOverflows == Spec => []BufferFits
<1>1. LoggerIInv => BufferFits
  <2> SUFFICES ASSUME LoggerIInv PROVE BufferFits
    OBVIOUS
  <2>1. \A f : GoodFile(f) => Len(f.gFileBuf) <= FlushCacheSz
    <3> SUFFICES ASSUME NEW f, GoodFile(f) PROVE Len(f.gFileBuf) <= FlushCacheSz
      OBVIOUS
    <3>1. Len(f.gFileBuf) \in Nat /\ Len(f.gFileBuf) < FlushCacheSz
      BY FileType, LenProperties DEF GoodFile
    <3>2. QED
      BY <3>1, LoggerAssumption
  <2>2. \A opened \in BOOLEAN : \A k \in 0 .. Len(local) : GoodFile(Stored(opened)[k])
    BY BatchIsKept
  <2>3. QED
    BY <2>1, <2>2, FileIsGood DEF LoggerIInv, BufferFits
<1>2. QED
  BY LoggerInvariant, <1>1, PTL

\* Lines reach the file in the order of the calls, each at most once.
THEOREM LinesStayInOrder == Spec => []InOrder
<1>1. LoggerIInv => InOrder
  BY DEF LoggerIInv
<1>2. QED
  BY LoggerInvariant, <1>1, PTL

\* While the process runs no line logged asynchronously is lost.
THEOREM NoLineIsLost == Spec => []NothingLost
<1>1. LoggerIInv => NothingLost
  BY DEF LoggerIInv, KeepsAll, NothingLost
<1>2. QED
  BY LoggerInvariant, <1>1, PTL

\* After exit every line logged asynchronously before it is on the disk, or was skipped
\* for want of a file, whatever the other threads have logged since; the one exception is
\* what is in gAsyncLogBuffer when exit has come between the asynchronous thread's swap of
\* nothing and its second look at gAsyncExit.
THEOREM ExitIsComplete == Spec => []ExitWritesAll
<1>1. LoggerIInv => ExitWritesAll
  BY DEF LoggerIInv
<1>2. QED
  BY LoggerInvariant, <1>1, PTL
=============================================================================
