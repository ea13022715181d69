---------------------------- MODULE FilesProofs ----------------------------
(***************************************************************************)
(* What the file commands, push and pull promise of the cached files and   *)
(* of those on the devices, for any devices, ids, bytes and allocations.   *)
(* A file is never longer than its allocation, and reads, writes, push and *)
(* pull agree on which bytes of a file they mean.                          *)
(***************************************************************************)
EXTENDS PushPull, TLAPS

-----------------------------------------------------------------------------
(* Files.                                                                  *)

GoodFile(a) == a \in FileRec /\ a.len <= a.alloc

\* Two files have the same bytes.
Same(a, b) == a.len = b.len /\ \A i \in 0..a.len - 1 : a.mem[i] = b.mem[i]

\* What a file is made of.
LEMMA Parts ==
    ASSUME NEW a, GoodFile(a)
    PROVE  /\ a.mem \in [0..MaxAlloc - 1 -> Bytes] /\ a.mod \in Modes
           /\ a.len \in 0..MaxAlloc /\ a.alloc \in 0..MaxAlloc /\ a.len <= a.alloc
           /\ a.len \in Int /\ a.alloc \in Int /\ MaxAlloc \in Nat
  BY FilesAssumption DEF GoodFile, FileRec, Mem

\* A file as a record.
LEMMA IsFile ==
    ASSUME NEW m \in Mem, NEW l \in 0..MaxAlloc, NEW a \in 0..MaxAlloc, NEW p \in Modes, l <= a
    PROVE  GoodFile([mem |-> m, len |-> l, alloc |-> a, mod |-> p])
  BY DEF GoodFile, FileRec

\* A file with other bytes and another length.
LEMMA Rewritten ==
    ASSUME NEW a \in FileRec, NEW m \in Mem, NEW n \in 0..MaxAlloc
    PROVE  [[a EXCEPT !.mem = m] EXCEPT !.len = n] =
             [mem |-> m, len |-> n, alloc |-> a.alloc, mod |-> a.mod]
<1>1. [a EXCEPT !.mem = m] \in FileRec
  BY DEF FileRec
<1>2. [a EXCEPT !.mem = m] = [mem |-> m, len |-> a.len, alloc |-> a.alloc, mod |-> a.mod]
  BY DEF FileRec
<1>3. \A b \in FileRec : [b EXCEPT !.len = n] = [mem |-> b.mem, len |-> n, alloc |-> b.alloc, mod |-> b.mod]
  BY DEF FileRec
<1> QED
  BY <1>1, <1>2, <1>3

\* Content() tells files apart by their bytes.
LEMMA ContentIsBytes ==
    ASSUME NEW a, NEW b, GoodFile(a), GoodFile(b), Same(a, b)
    PROVE  Content(a) = Content(b)
  BY DEF Same, Content

\* The data of a write, as a sequence of bytes.
LEMMA DataBytes ==
    ASSUME NEW data \in Data
    PROVE  Len(data) \in Nat \ {0} /\ \A i \in 1..Len(data) : data[i] \in Bytes
<1>1. PICK n \in 1..MaxAlloc : data \in [1..n -> Bytes]
  BY FilesAssumption
<1>2. Len(data) = n
  <2>1. data \in Seq(Bytes) /\ DOMAIN data = 1..n /\ n \in Nat
    BY <1>1, FilesAssumption
  <2> QED
    BY <2>1
<1> QED
  BY <1>1, <1>2, FilesAssumption

\* A write cuts its range off at the allocation, and lengthens the file up to
\* the end of what it wrote.
LEMMA WriteIsFile ==
    ASSUME NEW a, GoodFile(a), NEW lo \in 0..MaxAlloc, NEW hi \in Int,
           NEW data, Len(data) \in Nat, \A i \in 1..Len(data) : data[i] \in Bytes
    PROVE  LET top == IF hi > a.alloc THEN a.alloc ELSE hi
               span == IF Len(data) > top - lo THEN top - lo ELSE Len(data)
               new == WriteTo(a, lo, hi, data)
           IN  /\ GoodFile(new) /\ new.alloc = a.alloc /\ new.mod = a.mod
               /\ new.len = IF a.len < span + lo THEN span + lo ELSE a.len
               /\ \A i \in 0..MaxAlloc - 1 :
                    new.mem[i] = IF i \in lo..lo + span - 1 THEN data[i - lo + 1] ELSE a.mem[i]
<1> DEFINE top == IF hi > a.alloc THEN a.alloc ELSE hi
           span == IF Len(data) > top - lo THEN top - lo ELSE Len(data)
           new == WriteTo(a, lo, hi, data)
           l == IF a.len < span + lo THEN span + lo ELSE a.len
           m == [i \in 0..MaxAlloc - 1 |-> IF i \in lo..lo + span - 1 THEN data[i - lo + 1] ELSE a.mem[i]]
<1>1. /\ a.mem \in [0..MaxAlloc - 1 -> Bytes] /\ a.mod \in Modes
      /\ a.len \in 0..MaxAlloc /\ a.alloc \in 0..MaxAlloc /\ a.len <= a.alloc /\ MaxAlloc \in Nat
  BY Parts
<1>2. l \in 0..MaxAlloc /\ l <= a.alloc /\ span \in Int /\ span <= Len(data)
  <2>1. span \in Int /\ span <= Len(data) /\ span <= top - lo
    BY <1>1
  <2>2. span + lo <= a.alloc
    BY <1>1, <2>1
  <2> HIDE DEF span, top
  <2> QED
    BY <1>1, <2>1, <2>2
<1>3. m \in Mem
  <2>1. ASSUME NEW i \in 0..MaxAlloc - 1, i \in lo..lo + span - 1 PROVE data[i - lo + 1] \in Bytes
    <3>1. i - lo + 1 \in 1..Len(data)
      BY <1>2, <2>1
    <3> QED
      BY <3>1
  <2> QED
    BY <1>1, <2>1 DEF Mem
<1>4. new.len = l /\ new.mem = m /\ new.alloc = a.alloc /\ new.mod = a.mod
  <2>1. a \in [mem : Mem, len : 0..MaxAlloc, alloc : 0..MaxAlloc, mod : Modes] /\ DOMAIN a.mem = 0..MaxAlloc - 1
    BY <1>1 DEF GoodFile, FileRec
  <2>2. new = [a EXCEPT !.len = l, !.mem = m]
    BY <2>1 DEF WriteTo
  <2> HIDE DEF l, m, new
  <2> QED
    BY <2>1, <2>2
<1>5. new = [mem |-> m, len |-> l, alloc |-> a.alloc, mod |-> a.mod]
  <2>1. a \in [mem : Mem, len : 0..MaxAlloc, alloc : 0..MaxAlloc, mod : Modes] /\ DOMAIN a.mem = 0..MaxAlloc - 1
    BY <1>1 DEF GoodFile, FileRec
  <2>2. new = [a EXCEPT !.len = l, !.mem = m]
    BY <2>1 DEF WriteTo
  <2> HIDE DEF l, m, new
  <2> QED
    BY <2>1, <2>2
<1>6. GoodFile(new)
  <2> HIDE DEF l, m, new
  <2> QED
    BY <1>1, <1>2, <1>3, <1>5, IsFile
<1> QED
  BY <1>4, <1>6

\* The number of bytes that a write puts into a file.
Written(f, lo, hi, data) ==
    LET top == IF hi > f.alloc THEN f.alloc ELSE hi
    IN  IF Len(data) > top - lo THEN top - lo ELSE Len(data)

\* Where they are.
LEMMA WritePuts ==
    ASSUME NEW a, GoodFile(a), NEW lo \in 0..MaxAlloc, NEW hi \in Int,
           NEW data, Len(data) \in Nat, \A i \in 1..Len(data) : data[i] \in Bytes,
           NEW span, span = Written(a, lo, hi, data)
    PROVE  /\ WriteTo(a, lo, hi, data).len = IF a.len < span + lo THEN span + lo ELSE a.len
           /\ \A i \in 0..MaxAlloc - 1 :
                WriteTo(a, lo, hi, data).mem[i] = IF i \in lo..lo + span - 1 THEN data[i - lo + 1] ELSE a.mem[i]
  BY WriteIsFile DEF Written

\* What was read from a device is stored as it is there.
LEMMA StoreIsFile ==
    ASSUME NEW a, GoodFile(a), NEW b, GoodFile(b), Fits(a, b)
    PROVE  GoodFile(Store(a, b)) /\ Same(Store(a, b), b) /\ Store(a, b).alloc = a.alloc
<1> DEFINE m == [i \in 0..MaxAlloc - 1 |-> IF i < b.len THEN b.mem[i] ELSE a.mem[i]]
           new == Store(a, b)
<1>1. /\ a \in [mem : Mem, len : 0..MaxAlloc, alloc : 0..MaxAlloc, mod : Modes]
      /\ a.mem \in [0..MaxAlloc - 1 -> Bytes] /\ b.mem \in [0..MaxAlloc - 1 -> Bytes]
      /\ a.alloc \in 0..MaxAlloc /\ a.mod \in Modes /\ b.len \in 0..MaxAlloc /\ MaxAlloc \in Nat
  BY Parts DEF GoodFile, FileRec
<1>2. m \in Mem
  BY <1>1 DEF Mem
<1>3. new = [a EXCEPT !.len = b.len, !.mem = m]
  BY <1>1 DEF Store
<1>4. /\ new = [mem |-> m, len |-> b.len, alloc |-> a.alloc, mod |-> a.mod]
      /\ new.len = b.len /\ new.mem = m /\ new.alloc = a.alloc
  <2> HIDE DEF m, new
  <2> QED
    BY <1>1, <1>3
<1>5. GoodFile(new)
  <2>1. b.len <= a.alloc
    BY DEF Fits
  <2> HIDE DEF m, new
  <2> QED
    BY <1>1, <1>2, <1>4, <2>1, IsFile
<1>6. Same(new, b)
  <2>1. \A i \in 0..b.len - 1 : m[i] = b.mem[i]
    BY <1>1
  <2> QED
    BY <1>4, <2>1 DEF Same
<1> QED
  BY <1>4, <1>5, <1>6

\* push writes a file from its start: the device has its bytes when it has the
\* room and had no more bytes before, and the message holds them all.
LEMMA PushIsFile ==
    ASSUME NEW a, GoodFile(a), NEW b, GoodFile(b)
    PROVE  /\ GoodFile(Pushed(a, b))
           /\ a.len <= b.len /\ b.len <= a.alloc /\ b.len <= PushMax => Same(b, Pushed(a, b))
           /\ Same(b, a) => Same(b, Pushed(a, b))
<1> DEFINE n == Sent(b)
           data == [i \in 1..n |-> b.mem[i - 1]]
<1>1. /\ b.mem \in [0..MaxAlloc - 1 -> Bytes] /\ b.len \in 0..MaxAlloc /\ b.len \in Nat
      /\ a.len \in 0..MaxAlloc /\ a.alloc \in 0..MaxAlloc /\ a.alloc \in Int /\ MaxAlloc \in Nat
      /\ n \in Nat /\ n <= b.len /\ (b.len <= PushMax => n = b.len)
  BY Parts, FilesAssumption, PushAssumption DEF Sent
<1> HIDE DEF n
<1>2. \A i \in 1..n : data[i] \in Bytes /\ data[i] = b.mem[i - 1]
  BY <1>1
<1>3. Len(data) = n
  BY <1>1
<1> DEFINE new == WriteTo(a, 0, a.alloc, data)
<1>4. 0 \in 0..MaxAlloc
  BY <1>1
<1>5. LET span == IF Len(data) > a.alloc - 0 THEN a.alloc - 0 ELSE Len(data)
      IN  /\ GoodFile(new)
          /\ new.len = IF a.len < span + 0 THEN span + 0 ELSE a.len
          /\ \A i \in 0..MaxAlloc - 1 :
               new.mem[i] = IF i \in 0..0 + span - 1 THEN data[i - 0 + 1] ELSE a.mem[i]
  <2>1. Len(data) \in Nat /\ \A i \in 1..Len(data) : data[i] \in Bytes
    BY <1>1, <1>2, <1>3
  <2>2. (IF a.alloc > a.alloc THEN a.alloc ELSE a.alloc) = a.alloc
    OBVIOUS
  <2> HIDE DEF data
  <2> QED
    BY <1>1, <1>4, <2>1, <2>2, WriteIsFile
<1> HIDE DEF data, new
<1>6. \A i \in 0..MaxAlloc - 1 :
        new.mem[i] = IF i < n /\ i < a.alloc THEN data[i + 1] ELSE a.mem[i]
  <2> SUFFICES ASSUME NEW i \in 0..MaxAlloc - 1
               PROVE  new.mem[i] = IF i < n /\ i < a.alloc THEN data[i + 1] ELSE a.mem[i]
    OBVIOUS
  <2>1. i \in Int /\ i >= 0 /\ i - 0 + 1 = i + 1
    BY <1>1
  <2> QED
    BY <1>1, <1>3, <1>5, <2>1
<1>7. ASSUME a.len <= b.len, b.len <= a.alloc, b.len <= PushMax PROVE Same(b, new)
  <2>1. new.len = b.len
    BY <1>1, <1>3, <1>5, <1>7
  <2>2. \A i \in 0..b.len - 1 : i \in 0..MaxAlloc - 1 /\ new.mem[i] = data[i + 1] /\ i + 1 \in 1..n
    BY <1>1, <1>7, <1>6
  <2>3. ASSUME NEW i \in 0..b.len - 1 PROVE new.mem[i] = b.mem[i]
    <3>1. new.mem[i] = data[i + 1] /\ i + 1 \in 1..n
      BY <2>2
    <3>2. data[i + 1] = b.mem[(i + 1) - 1] /\ (i + 1) - 1 = i
      BY <1>1, <1>2, <3>1
    <3> QED
      BY <3>1, <3>2
  <2> QED
    BY <2>1, <2>3 DEF Same
<1>8. ASSUME Same(b, a) PROVE Same(b, new)
  <2>1. a.len = b.len /\ n <= a.len
    BY <1>1, <1>8 DEF Same
  <2>2. new.len = b.len
    BY <1>1, <1>3, <1>5, <2>1
  <2>3. ASSUME NEW i \in 0..b.len - 1 PROVE new.mem[i] = b.mem[i]
    <3>1. i \in 0..MaxAlloc - 1 /\ i \in Int
      BY <1>1
    <3>2. CASE i < n /\ i < a.alloc
      <4>1. new.mem[i] = data[i + 1] /\ i + 1 \in 1..n
        BY <1>1, <1>6, <3>1, <3>2
      <4>2. data[i + 1] = b.mem[(i + 1) - 1] /\ (i + 1) - 1 = i
        BY <1>2, <3>1, <4>1
      <4> QED
        BY <4>1, <4>2
    <3>3. CASE ~(i < n /\ i < a.alloc)
      <4>1. new.mem[i] = a.mem[i]
        BY <1>6, <3>1, <3>3
      <4> QED
        BY <1>8, <4>1 DEF Same
    <3> QED
      BY <3>2, <3>3
  <2> QED
    BY <2>2, <2>3 DEF Same
<1> QED
  BY <1>5, <1>7, <1>8 DEF Pushed, n, data, new

\* A write to the cached file and to the same file on the device leaves the two
\* the same when they were, when it begins no later than their end, and when the
\* device has the room.
LEMMA ThroughIsSame ==
    ASSUME NEW a, GoodFile(a), NEW b, GoodFile(b), Same(a, b),
           NEW lo \in 0..MaxAlloc, NEW hi \in 0..MaxAlloc, NEW data \in Data,
           lo < a.alloc, lo <= hi, lo <= a.len,
           (IF hi > a.alloc THEN a.alloc ELSE hi) <= b.alloc
    PROVE  Same(WriteTo(a, lo, hi, data),
                WriteTo(b, lo, IF hi > a.alloc THEN a.alloc ELSE hi, data))
<1> DEFINE top == IF hi > a.alloc THEN a.alloc ELSE hi
           span == IF Len(data) > top - lo THEN top - lo ELSE Len(data)
           a2 == WriteTo(a, lo, hi, data)
           b2 == WriteTo(b, lo, top, data)
<1>1. /\ a.len \in 0..MaxAlloc /\ a.alloc \in 0..MaxAlloc /\ a.len <= a.alloc
      /\ b.len \in 0..MaxAlloc /\ b.alloc \in 0..MaxAlloc /\ MaxAlloc \in Nat
  BY Parts
<1>2. Len(data) \in Nat /\ \A i \in 1..Len(data) : data[i] \in Bytes
  BY DataBytes
<1>3. top \in Int /\ hi \in Int /\ (IF top > b.alloc THEN b.alloc ELSE top) = top
  BY <1>1
<1>4. /\ a2.len = IF a.len < span + lo THEN span + lo ELSE a.len
      /\ \A i \in 0..MaxAlloc - 1 :
           a2.mem[i] = IF i \in lo..lo + span - 1 THEN data[i - lo + 1] ELSE a.mem[i]
  <2>1. span = Written(a, lo, hi, data)
    BY DEF Written
  <2> HIDE DEF span, top
  <2> QED
    BY <1>2, <1>3, <2>1, WritePuts
<1>5. /\ b2.len = IF b.len < span + lo THEN span + lo ELSE b.len
      /\ \A i \in 0..MaxAlloc - 1 :
           b2.mem[i] = IF i \in lo..lo + span - 1 THEN data[i - lo + 1] ELSE b.mem[i]
  <2>1. span = Written(b, lo, top, data)
    BY <1>3 DEF Written
  <2> HIDE DEF span, top
  <2> QED
    BY <1>2, <1>3, <2>1, WritePuts
<1>6. span + lo <= MaxAlloc /\ span \in Int
  BY <1>1, <1>2
<1> HIDE DEF a2, b2, span, top
<1>7. a2.len = b2.len /\ a2.len \in 0..MaxAlloc
  BY <1>1, <1>4, <1>5, <1>6 DEF Same
<1>8. ASSUME NEW i \in 0..a2.len - 1 PROVE a2.mem[i] = b2.mem[i]
  <2>1. i \in 0..MaxAlloc - 1
    BY <1>1, <1>7
  <2>2. CASE i \in lo..lo + span - 1
    BY <1>4, <1>5, <2>1, <2>2
  <2>3. CASE i \notin lo..lo + span - 1
    <3>1. i \in 0..a.len - 1
      BY <1>1, <1>4, <1>6, <2>1, <2>3
    <3>2. a.mem[i] = b.mem[i]
      BY <3>1 DEF Same
    <3> QED
      BY <1>4, <1>5, <2>1, <2>3, <3>2
  <2> QED
    BY <2>2, <2>3
<1> QED
  BY <1>7, <1>8 DEF Same, a2, b2, top

-----------------------------------------------------------------------------
(* The inductive invariant.                                                *)

\* The copies that were read from their device, and have only been written
\* through since, are as on the device.
Copies == \A d \in Devs, f \in File :
            <<d, f>> \in synced => /\ f \in DOMAIN db[d] \cap DOMAIN node[d]
                                  /\ Same(db[d][f], node[d][f])
FilesOK == ImageOK(db) /\ ImageOK(node) /\ synced \subseteq Devs \X File /\ Copies
\* The active device is one of the database.
Rest == active \in Devs /\ steps \in 0..Steps /\ running \in BOOLEAN
Inv == FilesOK /\ Rest

\* The files of a device.
LEMMA ImageFile ==
    ASSUME NEW image, ImageOK(image), NEW d \in Devs
    PROVE  DOMAIN image[d] \subseteq File /\ \A f \in DOMAIN image[d] : GoodFile(image[d][f])
  BY DEF ImageOK, GoodFile

\* A file is replaced.
LEMMA OneFile ==
    ASSUME NEW image, ImageOK(image), NEW d \in Devs, NEW f \in DOMAIN image[d],
           NEW new, GoodFile(new), NEW image2, image2 = [image EXCEPT ![d][f] = new]
    PROVE  ImageOK(image2)
<1>1. /\ DOMAIN image = Devs /\ DOMAIN image2 = Devs
      /\ \A e \in Devs : DOMAIN image2[e] = DOMAIN image[e]
      /\ \A e \in Devs : \A g \in DOMAIN image[e] : e # d \/ g # f => image2[e][g] = image[e][g]
      /\ image2[d][f] = new
  BY DEF ImageOK
<1>2. ASSUME NEW e \in Devs, NEW g \in DOMAIN image[e] PROVE image2[e][g] \in FileRec /\ image2[e][g].len <= image2[e][g].alloc
  <2>1. CASE e = d /\ g = f
    BY <1>1, <2>1 DEF GoodFile
  <2>2. CASE e # d \/ g # f
    BY <1>1, <2>2 DEF ImageOK
  <2> QED
    BY <2>1, <2>2
<1> QED
  BY <1>1, <1>2 DEF ImageOK

\* A command changes a cached file.
LEMMA CacheStep ==
    ASSUME FilesOK, NEW d \in Devs, NEW f \in DOMAIN db[d], NEW new, GoodFile(new),
           db' = [db EXCEPT ![d][f] = new], node' = node,
           synced' \subseteq synced \cup {<<d, f>>},
           <<d, f>> \in synced' => f \in DOMAIN node[d] /\ Same(new, node[d][f])
    PROVE  FilesOK'
<1>1. f \in File
  BY ImageFile DEF FilesOK
<1>2. /\ ImageOK(db') /\ db'[d][f] = new
      /\ \A e \in Devs : DOMAIN db'[e] = DOMAIN db[e]
      /\ \A e \in Devs : \A g \in DOMAIN db[e] : e # d \/ g # f => db'[e][g] = db[e][g]
  <2>1. ImageOK(db) /\ DOMAIN db = Devs
    BY DEF FilesOK, ImageOK
  <2>2. ImageOK(db')
    BY <2>1, OneFile
  <2> QED
    BY <2>1, <2>2
<1>3. ImageOK(node') /\ synced' \subseteq Devs \X File
  BY <1>1 DEF FilesOK
<1>4. ASSUME NEW e \in Devs, NEW g \in File, <<e, g>> \in synced'
      PROVE  g \in DOMAIN db'[e] \cap DOMAIN node'[e] /\ Same(db'[e][g], node'[e][g])
  <2>1. CASE e = d /\ g = f
    BY <1>2, <1>4, <2>1
  <2>2. CASE e # d \/ g # f
    <3>1. <<e, g>> \in synced
      BY <1>4, <2>2
    <3> QED
      BY <1>2, <2>2, <3>1 DEF FilesOK, Copies
  <2> QED
    BY <2>1, <2>2
<1>5. ImageOK(db)' /\ ImageOK(node)'
  BY <1>2, <1>3 DEF ImageOK
<1> QED
  BY <1>3, <1>4, <1>5 DEF FilesOK, Copies

\* A command changes a cached file and a file on its device.
LEMMA BothStep ==
    ASSUME FilesOK, NEW d \in Devs, NEW f \in DOMAIN db[d], NEW new, GoodFile(new),
           NEW g \in DOMAIN node[d], NEW new2, GoodFile(new2),
           db' = [db EXCEPT ![d][f] = new], node' = [node EXCEPT ![d][g] = new2],
           synced' \subseteq synced,
           <<d, f>> \in synced' \/ <<d, g>> \in synced' => f = g /\ Same(new, new2)
    PROVE  FilesOK'
<1>1. f \in File /\ g \in File
  BY ImageFile DEF FilesOK
<1>2. /\ ImageOK(db') /\ db'[d][f] = new
      /\ \A e \in Devs : DOMAIN db'[e] = DOMAIN db[e]
      /\ \A e \in Devs : \A h \in DOMAIN db[e] : e # d \/ h # f => db'[e][h] = db[e][h]
  <2>1. ImageOK(db) /\ DOMAIN db = Devs
    BY DEF FilesOK, ImageOK
  <2>2. ImageOK(db')
    BY <2>1, OneFile
  <2> QED
    BY <2>1, <2>2
<1>3. /\ ImageOK(node') /\ node'[d][g] = new2
      /\ \A e \in Devs : DOMAIN node'[e] = DOMAIN node[e]
      /\ \A e \in Devs : \A h \in DOMAIN node[e] : e # d \/ h # g => node'[e][h] = node[e][h]
  <2>1. ImageOK(node) /\ DOMAIN node = Devs
    BY DEF FilesOK, ImageOK
  <2>2. ImageOK(node')
    BY <2>1, OneFile
  <2> QED
    BY <2>1, <2>2
<1>4. ASSUME NEW e \in Devs, NEW h \in File, <<e, h>> \in synced'
      PROVE  h \in DOMAIN db'[e] \cap DOMAIN node'[e] /\ Same(db'[e][h], node'[e][h])
  <2>1. h \in DOMAIN db[e] \cap DOMAIN node[e] /\ Same(db[e][h], node[e][h])
    BY <1>4 DEF FilesOK, Copies
  <2>2. CASE e = d /\ (h = f \/ h = g)
    BY <1>2, <1>3, <1>4, <2>1, <2>2
  <2>3. CASE ~(e = d /\ (h = f \/ h = g))
    BY <1>2, <1>3, <2>1, <2>3
  <2> QED
    BY <2>2, <2>3
<1>5. ImageOK(db)' /\ ImageOK(node)' /\ synced' \subseteq Devs \X File
  BY <1>2, <1>3 DEF ImageOK, FilesOK
<1> QED
  BY <1>4, <1>5 DEF FilesOK, Copies

\* No file changes.
LEMMA FilesStay ==
    ASSUME FilesOK, UNCHANGED <<db, node, synced>>
    PROVE  FilesOK'
  BY DEF FilesOK, ImageOK, Copies

\* Every command selects a device of the database and is counted.
LEMMA Selects ==
    ASSUME Inv, NEW dev \in Devs \cup {Zero, Unknown}, Command(dev)
    PROVE  Target(dev) \in Devs /\ Rest'
<1>1. Rest /\ Steps \in Nat
  BY FilesAssumption DEF Inv
<1> QED
  BY <1>1 DEF Command, Begins, Target, Rest

\* A device changes a file of its own: the copy is no longer known to be the same.
LEMMA DeviceInv == ASSUME Inv, DeviceChanges PROVE Inv'
<1> DEFINE Change(d, m, f, n) == /\ node' = [node EXCEPT ![d][f].mem = m, ![d][f].len = n]
                                 /\ synced' = synced \ {<<d, f>>}
<1>1. PICK d \in Devs, m \in Contents :
        \E f \in DOMAIN node[d] : \E n \in 0..node[d][f].alloc : Change(d, m, f, n)
  BY DEF DeviceChanges
<1>2. PICK f \in DOMAIN node[d] : \E n \in 0..node[d][f].alloc : Change(d, m, f, n)
  BY <1>1
<1>3. PICK n \in 0..node[d][f].alloc : Change(d, m, f, n)
  BY <1>2
<1>4. UNCHANGED <<db, active, res, running>> /\ steps < Steps /\ steps' = steps + 1
  BY DEF DeviceChanges, Begins
<1> DEFINE file == node[d][f]
           new == [mem |-> m, len |-> n, alloc |-> file.alloc, mod |-> file.mod]
<1>5. ImageOK(node) /\ DOMAIN node = Devs /\ GoodFile(file)
  BY ImageFile DEF Inv, FilesOK, ImageOK
<1>6. /\ file \in FileRec /\ m \in Mem /\ n \in 0..MaxAlloc /\ n <= file.alloc
      /\ file.alloc \in 0..MaxAlloc /\ file.mod \in Modes
  BY <1>5, Parts, FilesAssumption DEF GoodFile
<1>7. GoodFile(new)
  BY <1>6, IsFile
<1>8. node' = [node EXCEPT ![d][f] = new]
  <2>1. [[file EXCEPT !.mem = m] EXCEPT !.len = n] = new
    BY <1>6, Rewritten
  <2>2. node' = [node EXCEPT ![d][f] = [[file EXCEPT !.mem = m] EXCEPT !.len = n]]
    BY <1>3, <1>5
  <2> QED
    BY <2>1, <2>2
<1>9. ImageOK(node')
  <2> HIDE DEF new
  <2> QED
    BY <1>5, <1>7, <1>8, OneFile
<1>10. /\ \A e \in Devs : DOMAIN node'[e] = DOMAIN node[e]
      /\ \A e \in Devs : \A g \in DOMAIN node[e] : e # d \/ g # f => node'[e][g] = node[e][g]
  BY <1>5, <1>8
<1>11. ASSUME NEW e \in Devs, NEW g \in File, <<e, g>> \in synced'
      PROVE  g \in DOMAIN db'[e] \cap DOMAIN node'[e] /\ Same(db'[e][g], node'[e][g])
  <2>1. <<e, g>> \in synced /\ (e # d \/ g # f)
    BY <1>3, <1>11
  <2>2. g \in DOMAIN db[e] \cap DOMAIN node[e] /\ Same(db[e][g], node[e][g])
    BY <2>1 DEF Inv, FilesOK, Copies
  <2> QED
    BY <1>4, <1>10, <2>1, <2>2
<1>12. ImageOK(db)' /\ ImageOK(node)' /\ synced' \subseteq Devs \X File
  BY <1>3, <1>4, <1>9 DEF Inv, FilesOK, ImageOK
<1>13. Rest'
  BY <1>4, FilesAssumption DEF Inv, Rest
<1> QED
  BY <1>11, <1>12, <1>13 DEF Inv, FilesOK, Copies

\* r through the device manager: the copy is what the device answered, or as it was.
LEMMA RefreshInv ==
    ASSUME Inv, NEW dev \in Devs \cup {Zero, Unknown}, NEW f \in File,
           NEW lo \in 0..MaxAlloc, NEW hi \in 0..MaxAlloc, CmdReadRefreshed(dev, f, lo, hi)
    PROVE  Inv'
<1> DEFINE d == Target(dev)
           g == <<"isf", f[2]>>
           new == node[d][g]
<1>1. /\ d \in Devs /\ Rest' /\ f \in DOMAIN db[d]
      /\ FilesOK
  BY Selects DEF CmdReadRefreshed, Found, Inv
<1>2. CASE UNCHANGED <<db, node, synced>>
  BY <1>1, <1>2, FilesStay DEF Inv
<1>3. CASE /\ g \in DOMAIN node[d] /\ Fits(db[d][f], new) /\ UNCHANGED node
           /\ db' = [db EXCEPT ![d][f] = Store(db[d][f], new)]
           /\ synced' = IF f[1] = "isf" THEN synced \cup {<<d, f>>} ELSE synced \ {<<d, f>>}
  <2>1. GoodFile(db[d][f]) /\ GoodFile(new)
    BY <1>1, <1>3, ImageFile DEF FilesOK
  <2>2. GoodFile(Store(db[d][f], new)) /\ Same(Store(db[d][f], new), new)
    BY <1>3, <2>1, StoreIsFile
  <2>3. f[1] = "isf" => g = f
    BY DEF File
  <2>4. <<d, f>> \in synced' => f[1] = "isf"
    BY <1>3
  <2>5. synced' \subseteq synced \cup {<<d, f>>}
    BY <1>3
  <2> HIDE DEF d
  <2>6. FilesOK'
    BY <1>1, <1>3, <2>2, <2>3, <2>4, <2>5, CacheStep
  <2> QED
    BY <1>1, <2>6 DEF Inv
<1> QED
  BY <1>2, <1>3 DEF CmdReadRefreshed, Returns

\* w -s, w without a device manager, and pub.
LEMMA WriteCacheInv ==
    ASSUME Inv, NEW dev \in Devs \cup {Zero, Unknown}, NEW f \in File, NEW data \in Data,
           NEW lo \in 0..MaxAlloc, NEW hi \in 0..MaxAlloc, CmdWriteCache(dev, f, lo, hi, data)
    PROVE  Inv'
<1> DEFINE d == Target(dev)
           new == WriteTo(db[d][f], lo, hi, data)
<1>1. d \in Devs /\ Rest' /\ f \in DOMAIN db[d] /\ FilesOK
  BY Selects DEF CmdWriteCache, Found, Inv
<1>2. CASE UNCHANGED <<db, node, synced>>
  BY <1>1, <1>2, FilesStay DEF Inv
<1>3. CASE db' = [db EXCEPT ![d][f] = new] /\ synced' = synced \ {<<d, f>>} /\ UNCHANGED node
  <2>1. GoodFile(new)
    <3>1. GoodFile(db[d][f]) /\ hi \in Int
      BY <1>1, ImageFile, FilesAssumption DEF FilesOK
    <3>2. Len(data) \in Nat /\ \A i \in 1..Len(data) : data[i] \in Bytes
      BY DataBytes
    <3> QED
      BY <3>1, <3>2, WriteIsFile
  <2> HIDE DEF d, new
  <2>2. FilesOK'
    BY <1>1, <1>3, <2>1, CacheStep
  <2> QED
    BY <1>1, <2>2 DEF Inv
<1> QED
  BY <1>2, <1>3 DEF CmdWriteCache, Returns

\* w to the cache and to the device.
LEMMA WriteThroughInv ==
    ASSUME Inv, NEW dev \in Devs \cup {Zero, Unknown}, NEW f \in File, NEW data \in Data,
           NEW lo \in 0..MaxAlloc, NEW hi \in 0..MaxAlloc, CmdWriteThrough(dev, f, lo, hi, data)
    PROVE  Inv'
<1> DEFINE d == Target(dev)
           g == <<"isf", f[2]>>
           top == IF hi > db[d][f].alloc THEN db[d][f].alloc ELSE hi
           new == WriteTo(db[d][f], lo, hi, data)
           new2 == WriteTo(node[d][g], lo, top, data)
<1>1. /\ d \in Devs /\ Rest' /\ f \in DOMAIN db[d] /\ FilesOK
      /\ lo < db[d][f].alloc /\ lo <= hi /\ db' = [db EXCEPT ![d][f] = new]
  BY Selects DEF CmdWriteThrough, Found, Inv
<1>2. Len(data) \in Nat /\ \A i \in 1..Len(data) : data[i] \in Bytes
  BY DataBytes
<1>3. GoodFile(db[d][f]) /\ hi \in Int /\ db[d][f].alloc \in 0..MaxAlloc
  BY <1>1, ImageFile, Parts, FilesAssumption DEF FilesOK
<1>4. GoodFile(new)
  BY <1>2, <1>3, WriteIsFile
<1>5. CASE UNCHANGED node /\ synced' = synced \ {<<d, f>>}
  <2> HIDE DEF d, new
  <2>1. FilesOK'
    BY <1>1, <1>4, <1>5, CacheStep
  <2> QED
    BY <1>1, <2>1 DEF Inv
<1>6. CASE /\ g \in DOMAIN node[d] /\ node' = [node EXCEPT ![d][g] = new2]
           /\ synced' = IF f = g /\ lo <= db[d][f].len /\ top <= node[d][g].alloc
                          THEN synced ELSE synced \ {<<d, f>>, <<d, g>>}
  <2>1. GoodFile(node[d][g]) /\ top \in Int
    BY <1>1, <1>3, <1>6, ImageFile, FilesAssumption DEF FilesOK
  <2>2. GoodFile(new2)
    <3> HIDE DEF top
    <3> QED
      BY <1>2, <2>1, WriteIsFile
  <2>3. synced' \subseteq synced
    BY <1>6
  <2>4. ASSUME <<d, f>> \in synced' \/ <<d, g>> \in synced' PROVE f = g /\ Same(new, new2)
    <3>1. f = g /\ lo <= db[d][f].len /\ top <= node[d][g].alloc /\ <<d, f>> \in synced
      BY <1>6, <2>4
    <3>2. Same(db[d][f], node[d][g])
      BY <1>1, <3>1 DEF FilesOK, Copies
    <3> QED
      BY <1>1, <1>3, <2>1, <3>1, <3>2, ThroughIsSame
  <2> HIDE DEF d, g, new, new2
  <2>5. FilesOK'
    BY <1>1, <1>4, <1>6, <2>2, <2>3, <2>4, BothStep
  <2> QED
    BY <1>1, <2>5 DEF Inv
<1> QED
  BY <1>5, <1>6 DEF CmdWriteThrough

\* w that ends the process.
LEMMA OverrunInv ==
    ASSUME Inv, NEW dev \in Devs \cup {Zero, Unknown}, NEW f \in File, NEW data \in Data,
           NEW lo \in 0..MaxAlloc, NEW hi \in 0..MaxAlloc, CmdWriteOverruns(dev, f, lo, hi, data)
    PROVE  Inv'
<1>1. UNCHANGED <<db, node, synced>> /\ Begins /\ active' = Target(dev) /\ running' = FALSE
  BY DEF CmdWriteOverruns
<1>2. Rest /\ Steps \in Nat
  BY FilesAssumption DEF Inv
<1>3. Rest'
  <2>1. active' \in Devs /\ steps' \in 0..Steps
    BY <1>1, <1>2 DEF Begins, Target, Rest
  <2>2. running' \in BOOLEAN
    BY <1>1
  <2> QED
    BY <2>1, <2>2 DEF Rest
<1> QED
  BY <1>1, <1>3, FilesStay DEF Inv

\* wp.
LEMMA PermsInv ==
    ASSUME Inv, NEW dev \in Devs \cup {Zero, Unknown}, NEW f \in File, NEW mod \in Modes,
           CmdWritePerms(dev, f, mod)
    PROVE  Inv'
<1> DEFINE d == Target(dev)
           new == [db[d][f] EXCEPT !.mod = mod]
<1>1. /\ d \in Devs /\ Rest' /\ f \in DOMAIN db[d] /\ FilesOK
      /\ UNCHANGED <<node, synced>> /\ db' = [db EXCEPT ![d][f] = new]
  BY Selects DEF CmdWritePerms, Found, Inv
<1>2. GoodFile(db[d][f]) /\ f \in File
  BY <1>1, ImageFile DEF FilesOK
<1>3. GoodFile(new) /\ new.len = db[d][f].len /\ new.mem = db[d][f].mem
  BY <1>2 DEF GoodFile, FileRec
<1>4. <<d, f>> \in synced' => f \in DOMAIN node[d] /\ Same(new, node[d][f])
  <2>1. <<d, f>> \in synced => f \in DOMAIN node[d] /\ Same(db[d][f], node[d][f])
    BY <1>1, <1>2 DEF FilesOK, Copies
  <2> QED
    BY <1>1, <1>3, <2>1 DEF Same
<1> HIDE DEF d, new
<1>5. FilesOK'
  BY <1>1, <1>3, <1>4, CacheStep
<1> QED
  BY <1>1, <1>5 DEF Inv

\* del.
LEMMA DelInv ==
    ASSUME Inv, NEW dev \in Devs \cup {Zero, Unknown}, NEW f \in File, CmdDel(dev, f)
    PROVE  Inv'
<1> DEFINE d == Target(dev)
<1>1. /\ d \in Devs /\ Rest' /\ FilesOK
      /\ synced' = synced \ {<<d, f>>} /\ UNCHANGED node
      /\ db' = [db EXCEPT ![d] = [g \in DOMAIN db[d] \ {f} |-> db[d][g]]]
  BY Selects DEF CmdDel, Found, Inv
<1> HIDE DEF d
<1>2. /\ DOMAIN db' = Devs /\ DOMAIN db'[d] = DOMAIN db[d] \ {f}
      /\ \A e \in Devs \ {d} : db'[e] = db[e]
      /\ \A e \in Devs : \A g \in DOMAIN db'[e] : g \in DOMAIN db[e] /\ db'[e][g] = db[e][g]
  BY <1>1 DEF FilesOK, ImageOK
<1>3. ImageOK(db')
  BY <1>1, <1>2 DEF FilesOK, ImageOK
<1>4. Copies'
  <2> SUFFICES ASSUME NEW e \in Devs, NEW g \in File, <<e, g>> \in synced'
               PROVE  g \in DOMAIN db'[e] \cap DOMAIN node'[e] /\ Same(db'[e][g], node'[e][g])
    BY DEF Copies
  <2>1. <<e, g>> \in synced /\ (e # d \/ g # f)
    BY <1>1
  <2>2. g \in DOMAIN db[e] \cap DOMAIN node[e] /\ Same(db[e][g], node[e][g])
    BY <1>1, <2>1 DEF FilesOK, Copies
  <2>3. g \in DOMAIN db'[e]
    BY <1>2, <2>1, <2>2
  <2> QED
    BY <1>1, <1>2, <2>2, <2>3
<1>5. ImageOK(db)' /\ ImageOK(node)' /\ synced' \subseteq Devs \X File
  BY <1>1, <1>3 DEF FilesOK, ImageOK
<1> QED
  BY <1>1, <1>4, <1>5 DEF Inv, FilesOK

\* new: a file of no bytes.
LEMMA NewInv ==
    ASSUME Inv, NEW dev \in Devs \cup {Zero, Unknown}, NEW f \in File, NEW mod \in Modes,
           CmdNew(dev, f, mod)
    PROVE  Inv'
<1> DEFINE d == Target(dev)
           blank == [i \in 0..MaxAlloc - 1 |-> CHOOSE b \in Bytes : TRUE]
           new == [mem |-> blank, len |-> 0, alloc |-> 0, mod |-> mod]
<1>1. d \in Devs /\ Rest' /\ FilesOK
  BY Selects DEF CmdNew, Inv
<1>2. CASE UNCHANGED <<db, node, synced>>
  BY <1>1, <1>2, FilesStay DEF Inv
<1>3. CASE /\ f \notin DOMAIN db[d] /\ UNCHANGED <<node, synced>>
           /\ db' = [db EXCEPT ![d] = [g \in DOMAIN db[d] \cup {f} |-> IF g = f THEN new ELSE db[d][g]]]
  <2>1. GoodFile(new)
    <3>1. blank \in Mem /\ 0 \in 0..MaxAlloc /\ 0 <= 0
      BY FilesAssumption DEF Mem
    <3> HIDE DEF blank
    <3> QED
      BY <3>1, IsFile
  <2> HIDE DEF d, new
  <2>2. /\ DOMAIN db' = Devs /\ DOMAIN db'[d] = DOMAIN db[d] \cup {f} /\ db'[d][f] = new
        /\ \A e \in Devs \ {d} : db'[e] = db[e]
        /\ \A e \in Devs : \A g \in DOMAIN db[e] : g \in DOMAIN db'[e] /\ db'[e][g] = db[e][g]
    BY <1>1, <1>3 DEF FilesOK, ImageOK
  <2>3. ImageOK(db')
    <3>1. ASSUME NEW e \in Devs
          PROVE  DOMAIN db'[e] \subseteq File /\ \A g \in DOMAIN db'[e] : GoodFile(db'[e][g])
      <4>1. DOMAIN db[e] \subseteq File /\ \A g \in DOMAIN db[e] : GoodFile(db[e][g])
        BY <1>1, ImageFile DEF FilesOK
      <4> QED
        BY <2>1, <2>2, <4>1
    <3> QED
      BY <2>2, <3>1 DEF ImageOK, GoodFile
  <2>4. Copies'
    <3> SUFFICES ASSUME NEW e \in Devs, NEW g \in File, <<e, g>> \in synced'
                 PROVE  g \in DOMAIN db'[e] \cap DOMAIN node'[e] /\ Same(db'[e][g], node'[e][g])
      BY DEF Copies
    <3>1. g \in DOMAIN db[e] \cap DOMAIN node[e] /\ Same(db[e][g], node[e][g])
      BY <1>1, <1>3 DEF FilesOK, Copies
    <3> QED
      BY <1>3, <2>2, <3>1
  <2>5. ImageOK(db)' /\ ImageOK(node)' /\ synced' \subseteq Devs \X File
    BY <1>1, <1>3, <2>3 DEF FilesOK, ImageOK
  <2> QED
    BY <1>1, <2>4, <2>5 DEF Inv, FilesOK
<1> QED
  BY <1>2, <1>3 DEF CmdNew, Returns, Found

\* An iteration leaves a device of the database selected.
LEMMA IterationSelects ==
    ASSUME Inv, NEW list \in Lists, Iterates(list)
    PROVE  Rest' /\ Visited(list) \subseteq Devs
<1>1. steps' \in 0..Steps /\ running' \in BOOLEAN
  BY FilesAssumption DEF Iterates, Begins, Inv, Rest
<1>2. active' \in Devs
  <2>1. active' \in LastVisited(list) /\ active \in Devs
    BY DEF Iterates, Inv, Rest
  <2>2. CASE list = <<>>
    BY <2>1, <2>2 DEF LastVisited
  <2>3. CASE list # <<>>
    <3> DEFINE known == {i \in DOMAIN list : list[i] \in Devs}
    <3>1. DOMAIN list \subseteq 1..2
      BY <2>3 DEF Lists
    <3>2. known # {} => Max(known) \in known
      <4> SUFFICES ASSUME known # {} PROVE Max(known) \in known
        OBVIOUS
      <4>1. known \subseteq 1..2
        BY <3>1
      <4>2. \E x \in known : \A y \in known : x >= y
        <5>1. known # {}
          OBVIOUS
        <5> HIDE DEF known
        <5>2. CASE 2 \in known
          BY <4>1, <5>2
        <5>3. CASE 2 \notin known
          <6>1. \A y \in known : y = 1
            BY <4>1, <5>3
          <6>2. 1 \in known
            BY <5>1, <6>1
          <6> QED
            BY <6>1, <6>2
        <5> QED
          BY <5>2, <5>3
      <4> QED
        BY <4>2 DEF Max
    <3>3. LastVisited(list) = IF known = {} THEN {active} ELSE {list[Max(known)]}
      BY <2>3 DEF LastVisited
    <3> QED
      BY <2>1, <3>2, <3>3
  <2> QED
    BY <2>2, <2>3
<1>3. Visited(list) \subseteq Devs
  BY DEF Visited
<1> QED
  BY <1>1, <1>2, <1>3 DEF Rest

\* push.
LEMMA PushInv ==
    ASSUME Inv, NEW list \in Lists, NEW b \in Blocks, CmdPush(list, b)
    PROVE  Inv'
<1> DEFINE may == {x \in Visited(list) \X File :
                     /\ x[2] \in InBlock(x[1], b) \cap DOMAIN node[x[1]]
                     /\ db[x[1]][x[2]].mod # "root"}
<1>1. Rest' /\ Visited(list) \subseteq Devs /\ FilesOK /\ UNCHANGED db
  BY IterationSelects DEF CmdPush, Inv
<1>2. PICK done \in SUBSET may :
        /\ node' = [d \in Devs |-> [f \in DOMAIN node[d] |->
                      IF <<d, f>> \in done THEN Pushed(node[d][f], db[d][f]) ELSE node[d][f]]]
        /\ synced' = synced \cup {x \in done :
             /\ node[x[1]][x[2]].len <= db[x[1]][x[2]].len /\ db[x[1]][x[2]].len <= node[x[1]][x[2]].alloc
             /\ db[x[1]][x[2]].len <= PushMax}
  BY DEF CmdPush
<1>3. \A d \in Devs, f \in File : <<d, f>> \in done => f \in DOMAIN db[d] \cap DOMAIN node[d]
  BY <1>2 DEF InBlock
<1>4. /\ DOMAIN node' = Devs /\ \A d \in Devs : DOMAIN node'[d] = DOMAIN node[d]
      /\ \A d \in Devs : \A f \in DOMAIN node[d] :
           node'[d][f] = IF <<d, f>> \in done THEN Pushed(node[d][f], db[d][f]) ELSE node[d][f]
  BY <1>2
<1>5. \A d \in Devs : /\ DOMAIN node[d] \subseteq File /\ \A f \in DOMAIN node[d] : GoodFile(node[d][f])
                      /\ DOMAIN db[d] \subseteq File /\ \A f \in DOMAIN db[d] : GoodFile(db[d][f])
  BY <1>1, ImageFile DEF FilesOK
<1>6. ImageOK(node')
  <2>1. ASSUME NEW d \in Devs, NEW f \in DOMAIN node[d] PROVE GoodFile(node'[d][f])
    <3>1. CASE <<d, f>> \in done
      <4>1. f \in DOMAIN db[d] /\ GoodFile(node[d][f]) /\ GoodFile(db[d][f])
        BY <1>3, <1>5, <3>1
      <4>2. node'[d][f] = Pushed(node[d][f], db[d][f])
        BY <1>4, <3>1
      <4> QED
        BY <4>1, <4>2, PushIsFile
    <3>2. CASE <<d, f>> \notin done
      BY <1>4, <1>5, <3>2
    <3> QED
      BY <3>1, <3>2
  <2> QED
    BY <1>4, <1>5, <2>1 DEF ImageOK, GoodFile
<1>7. Copies'
  <2> SUFFICES ASSUME NEW d \in Devs, NEW f \in File, <<d, f>> \in synced'
               PROVE  f \in DOMAIN db'[d] \cap DOMAIN node'[d] /\ Same(db'[d][f], node'[d][f])
    BY DEF Copies
  <2>1. /\ f \in DOMAIN db[d] \cap DOMAIN node[d]
        /\ \/ <<d, f>> \in synced
           \/ /\ <<d, f>> \in done /\ node[d][f].len <= db[d][f].len /\ db[d][f].len <= node[d][f].alloc
              /\ db[d][f].len <= PushMax
    BY <1>1, <1>2, <1>3 DEF FilesOK, Copies
  <2>2. GoodFile(db[d][f]) /\ GoodFile(node[d][f])
    BY <1>5, <2>1
  <2>3. CASE <<d, f>> \in done
    <3>1. Same(db[d][f], Pushed(node[d][f], db[d][f]))
      <4>1. CASE <<d, f>> \in synced
        <5>1. Same(db[d][f], node[d][f])
          BY <1>1, <4>1 DEF FilesOK, Copies
        <5> QED
          BY <2>2, <5>1, PushIsFile
      <4>2. CASE <<d, f>> \notin synced
        <5>1. node[d][f].len <= db[d][f].len /\ db[d][f].len <= node[d][f].alloc /\ db[d][f].len <= PushMax
          BY <2>1, <4>2
        <5> QED
          BY <2>2, <5>1, PushIsFile
      <4> QED
        BY <4>1, <4>2
    <3> QED
      BY <1>1, <1>4, <2>1, <2>3, <3>1
  <2>4. CASE <<d, f>> \notin done
    <3>1. Same(db[d][f], node[d][f])
      BY <1>1, <2>1, <2>4 DEF FilesOK, Copies
    <3> QED
      BY <1>1, <1>4, <2>1, <2>4, <3>1
  <2> QED
    BY <2>3, <2>4
<1>8. synced' \subseteq Devs \X File
  BY <1>1, <1>2 DEF FilesOK
<1>9. ImageOK(db)' /\ ImageOK(node)'
  BY <1>1, <1>6 DEF FilesOK, ImageOK
<1> QED
  BY <1>1, <1>7, <1>8, <1>9 DEF Inv, FilesOK

\* What pull does to the cached files: those that were answered and fit are stored.
Pulled(list, b, stop) ==
    {x \in Visited(list) \X File :
       /\ x[2] \in InBlock(x[1], b) \cap DOMAIN node[x[1]] /\ x[2][2] < stop[x[1]]
       /\ Fits(db[x[1]][x[2]], node[x[1]][x[2]])}

LEMMA PullInv ==
    ASSUME Inv, NEW list \in Lists, NEW b \in Blocks, CmdPull(list, b)
    PROVE  Inv'
<1>1. Rest' /\ Visited(list) \subseteq Devs /\ FilesOK /\ UNCHANGED node
  BY IterationSelects DEF CmdPull, Inv
<1>2. PICK stop \in [Visited(list) -> 0..Cardinality(Ids)] :
        /\ db' = [d \in Devs |-> [f \in DOMAIN db[d] |->
                    IF <<d, f>> \in Pulled(list, b, stop) THEN Store(db[d][f], node[d][f]) ELSE db[d][f]]]
        /\ synced' = synced \cup Pulled(list, b, stop)
  BY DEF CmdPull, Pulled
<1> DEFINE stored == Pulled(list, b, stop)
<1>3. /\ stored \subseteq Devs \X File
      /\ \A d \in Devs, f \in File : <<d, f>> \in stored =>
           f \in DOMAIN db[d] \cap DOMAIN node[d] /\ Fits(db[d][f], node[d][f])
  BY <1>1 DEF Pulled, InBlock
<1> HIDE DEF stored
<1>4. /\ DOMAIN db' = Devs /\ \A d \in Devs : DOMAIN db'[d] = DOMAIN db[d]
      /\ \A d \in Devs : \A f \in DOMAIN db[d] :
           db'[d][f] = IF <<d, f>> \in stored THEN Store(db[d][f], node[d][f]) ELSE db[d][f]
  BY <1>2 DEF stored
<1>5. \A d \in Devs : /\ DOMAIN node[d] \subseteq File /\ \A f \in DOMAIN node[d] : GoodFile(node[d][f])
                      /\ DOMAIN db[d] \subseteq File /\ \A f \in DOMAIN db[d] : GoodFile(db[d][f])
  BY <1>1, ImageFile DEF FilesOK
<1>6. ASSUME NEW d \in Devs, NEW f \in DOMAIN db[d]
      PROVE  GoodFile(db'[d][f]) /\ (<<d, f>> \in stored => Same(db'[d][f], node[d][f]))
  <2>1. CASE <<d, f>> \in stored
    <3>1. f \in DOMAIN node[d] /\ Fits(db[d][f], node[d][f])
      BY <1>3, <1>5, <2>1
    <3>2. GoodFile(db[d][f]) /\ GoodFile(node[d][f])
      BY <1>5, <3>1
    <3>3. GoodFile(Store(db[d][f], node[d][f])) /\ Same(Store(db[d][f], node[d][f]), node[d][f])
      BY <3>1, <3>2, StoreIsFile
    <3> QED
      BY <1>4, <2>1, <3>3
  <2>2. CASE <<d, f>> \notin stored
    BY <1>4, <1>5, <2>2
  <2> QED
    BY <2>1, <2>2
<1>7. ImageOK(db')
  BY <1>4, <1>5, <1>6 DEF ImageOK, GoodFile
<1>8. Copies'
  <2> SUFFICES ASSUME NEW d \in Devs, NEW f \in File, <<d, f>> \in synced'
               PROVE  f \in DOMAIN db'[d] \cap DOMAIN node'[d] /\ Same(db'[d][f], node'[d][f])
    BY DEF Copies
  <2>1. CASE <<d, f>> \in stored
    BY <1>1, <1>3, <1>4, <1>6, <2>1
  <2>2. CASE <<d, f>> \notin stored
    <3>1. <<d, f>> \in synced
      BY <1>2, <2>2 DEF stored
    <3>2. f \in DOMAIN db[d] \cap DOMAIN node[d] /\ Same(db[d][f], node[d][f])
      BY <1>1, <3>1 DEF FilesOK, Copies
    <3> QED
      BY <1>1, <1>4, <2>2, <3>2
  <2> QED
    BY <2>1, <2>2
<1>9. synced' \subseteq Devs \X File
  BY <1>1, <1>2, <1>3 DEF FilesOK, stored
<1>10. ImageOK(db)' /\ ImageOK(node)'
  BY <1>1, <1>7 DEF FilesOK, ImageOK
<1> QED
  BY <1>1, <1>8, <1>9, <1>10 DEF Inv, FilesOK

LEMMA InitInv == Init => Inv
<1> SUFFICES ASSUME Init PROVE Inv
  OBVIOUS
<1>1. ImageOK(db) /\ ImageOK(node) /\ synced = {} /\ active \in Devs
  BY FilesAssumption DEF Init
<1>2. steps \in 0..Steps /\ running \in BOOLEAN
  BY FilesAssumption DEF Init
<1> QED
  BY <1>1, <1>2 DEF Inv, Rest, FilesOK, Copies

\* The commands that change no file.
LEMMA ReadInv ==
    ASSUME Inv, NEW dev \in Devs \cup {Zero, Unknown}, NEW f \in File,
           \/ \E lo, hi \in 0..MaxAlloc : CmdReadCached(dev, f, lo, hi) \/ CmdReadAll(dev, f, lo, hi)
           \/ CmdReadHdr(dev, f) \/ CmdReadPerms(dev, f) \/ CmdRestore(dev) \/ CmdNotFound(dev, f)
    PROVE  Inv'
<1>1. Command(dev) /\ UNCHANGED <<db, node, synced>>
  BY DEF CmdReadCached, CmdReadAll, CmdReadHdr, CmdReadPerms, CmdRestore, CmdNotFound, Returns
<1>2. Rest'
  BY <1>1, Selects
<1>3. FilesOK'
  BY <1>1, FilesStay DEF Inv
<1> QED
  BY <1>2, <1>3 DEF Inv

\* Every command and every change on a device keeps the invariant.
LEMMA NextInv == Inv /\ [Next]_vars => Inv'
<1> SUFFICES ASSUME Inv, [Next]_vars PROVE Inv'
  OBVIOUS
<1>1. CASE Reply \/ UNCHANGED vars
  <2>1. UNCHANGED <<db, node, synced, active, steps, running>>
    BY <1>1 DEF Reply, vars
  <2>2. FilesOK'
    BY <2>1, FilesStay DEF Inv
  <2> QED
    BY <2>1, <2>2 DEF Inv, Rest
<1>2. CASE DeviceChanges
  BY <1>2, DeviceInv
<1>3. CASE FileCommand
  <2>1. PICK dev \in Devs \cup {Zero, Unknown}, f \in File :
          \/ \E lo, hi \in 0..MaxAlloc :
               \/ CmdReadCached(dev, f, lo, hi)
               \/ CmdReadRefreshed(dev, f, lo, hi)
               \/ CmdReadAll(dev, f, lo, hi)
               \/ \E data \in Data : CmdWriteCache(dev, f, lo, hi, data)
                                     \/ CmdWriteThrough(dev, f, lo, hi, data)
                                     \/ CmdWriteOverruns(dev, f, lo, hi, data)
          \/ CmdReadHdr(dev, f)
          \/ CmdReadPerms(dev, f)
          \/ CmdRestore(dev)
          \/ CmdNotFound(dev, f)
          \/ CmdDel(dev, f)
          \/ \E mod \in Modes : CmdWritePerms(dev, f, mod) \/ CmdNew(dev, f, mod)
    BY <1>3 DEF FileCommand
  <2>2. CASE \E lo, hi \in 0..MaxAlloc :
               \/ CmdReadRefreshed(dev, f, lo, hi)
               \/ \E data \in Data : CmdWriteCache(dev, f, lo, hi, data)
                                     \/ CmdWriteThrough(dev, f, lo, hi, data)
                                     \/ CmdWriteOverruns(dev, f, lo, hi, data)
    BY <2>2, RefreshInv, WriteCacheInv, WriteThroughInv, OverrunInv
  <2>3. CASE \/ \E lo, hi \in 0..MaxAlloc : CmdReadCached(dev, f, lo, hi) \/ CmdReadAll(dev, f, lo, hi)
             \/ CmdReadHdr(dev, f) \/ CmdReadPerms(dev, f) \/ CmdRestore(dev) \/ CmdNotFound(dev, f)
    BY <2>3, ReadInv
  <2>4. CASE CmdDel(dev, f) \/ \E mod \in Modes : CmdWritePerms(dev, f, mod) \/ CmdNew(dev, f, mod)
    BY <2>4, DelInv, PermsInv, NewInv
  <2> QED
    BY <2>1, <2>2, <2>3, <2>4
<1>4. ASSUME NEW list \in Lists, CmdDevLs(list) PROVE Inv'
  <2>1. Rest'
    BY <1>4, IterationSelects DEF CmdDevLs
  <2>2. FilesOK'
    BY <1>4, FilesStay DEF CmdDevLs, Inv
  <2> QED
    BY <2>1, <2>2 DEF Inv
<1>5. ASSUME NEW list \in Lists, NEW b \in Blocks, CmdPush(list, b) \/ CmdPull(list, b) PROVE Inv'
  BY <1>5, PushInv, PullInv
<1> QED
  BY <1>1, <1>2, <1>3, <1>4, <1>5 DEF Next

-----------------------------------------------------------------------------
(* Theorems.                                                               *)

\* Files keep within their allocation, in the cache and on the devices, and the
\* copies known to be the same are the same byte by byte.
THEOREM Invariance == Spec => []Inv
  BY InitInv, NextInv, PTL DEF Spec

\* No file is ever longer than its allocation, whatever ranges the file commands
\* are given and whatever lengths the devices answer with.
THEOREM TypeCorrect == Spec => []TypeOK
<1>1. Inv => TypeOK
  BY DEF Inv, Rest, FilesOK, TypeOK
<1> QED
  BY <1>1, Invariance, PTL

\* A copy that was read from its device by r or pull, or that push sent whole since
\* its message held it, and that w has only written through with success since, is as
\* on the device.
THEOREM CopiesAreEqual == Spec => []SyncedIsEqual
<1>1. Inv => SyncedIsEqual
  <2> SUFFICES ASSUME Inv, NEW d \in Devs, NEW f \in File, <<d, f>> \in synced
               PROVE  f \in DOMAIN db[d] /\ Content(db[d][f]) = Content(node[d][f])
    BY DEF SyncedIsEqual
  <2>1. f \in DOMAIN db[d] \cap DOMAIN node[d] /\ Same(db[d][f], node[d][f])
    BY DEF Inv, FilesOK, Copies
  <2>2. GoodFile(db[d][f]) /\ GoodFile(node[d][f])
    BY <2>1, ImageFile DEF Inv, FilesOK
  <2> QED
    BY <2>1, <2>2, ContentIsBytes
<1> QED
  BY <1>1, Invariance, PTL

-----------------------------------------------------------------------------
(* What a read returns.                                                    *)

\* The bytes of a read are those of its range that the file has.
LEMMA SpanIs ==
    ASSUME NEW file, GoodFile(file), NEW lo \in 0..MaxAlloc, NEW hi \in 0..MaxAlloc
    PROVE  LET span == Span(file, lo, hi)
           IN  /\ span \in Nat /\ span <= DstMax
               /\ span > 0 => lo + span <= file.alloc
               /\ lo <= hi => \A i \in 0..DstMax - 1 : i < span <=> lo + i < hi /\ lo + i < file.len
<1>1. file.len \in 0..MaxAlloc /\ file.len <= file.alloc /\ file.alloc \in Int
  BY Parts
<1>2. DstMax \in Nat /\ MaxAlloc \in Nat
  BY FilesAssumption
<1> QED
  BY <1>1, <1>2 DEF Span

\* What was said of one reply of r or r*, of the file as it was and as it is.
SliceIs(reply, old, new) ==
    /\ reply.rc > 0 => reply.lo + reply.rc <= new.alloc
    /\ reply.lo <= reply.hi /\ old.len = new.len => reply.rc <= DstMax /\ IsSlice(reply, new)

\* The reply of a read, of the file as the cache has it when the read is done.
LEMMA SliceOf ==
    ASSUME NEW d \in Devs, NEW f \in DOMAIN db[d], GoodFile(db[d][f]), NEW cmd,
           NEW lo \in 0..MaxAlloc, NEW hi \in 0..MaxAlloc,
           NEW file, db'[d][f] = file, GoodFile(file), file.alloc = db[d][f].alloc,
           active' = d, ReturnsData(cmd, f, lo, hi, Span(db[d][f], lo, hi), file)
    PROVE  SliceIs(res', db[res'.dev][res'.file], db'[res'.dev][res'.file])
<1> DEFINE span == Span(db[d][f], lo, hi)
<1>1. /\ res'.dev = d /\ res'.file = f /\ res'.lo = lo /\ res'.hi = hi /\ res'.rc = span
      /\ res'.data = [i \in 0..span - 1 |-> file.mem[lo + i]]
  BY DEF ReturnsData
<1>2. /\ span \in Nat /\ span <= DstMax /\ (span > 0 => lo + span <= db[d][f].alloc)
      /\ lo <= hi => \A i \in 0..DstMax - 1 : i < span <=> lo + i < hi /\ lo + i < db[d][f].len
  BY SpanIs
<1> HIDE DEF span
<1>3. ASSUME lo <= hi, db[d][f].len = file.len PROVE IsSlice(res', file)
  <2>1. file.len \in Nat /\ DstMax \in Nat /\ MaxAlloc \in Nat
    BY Parts, FilesAssumption
  <2> SUFFICES ASSUME NEW i \in 0..DstMax - 1
               PROVE  /\ i < res'.rc <=> res'.lo + i < res'.hi /\ res'.lo + i \in DOMAIN Content(file)
                      /\ i < res'.rc => res'.data[i] = Content(file)[res'.lo + i]
    BY DEF IsSlice
  <2>2. lo + i \in DOMAIN Content(file) <=> lo + i < file.len
    BY <2>1 DEF Content
  <2>3. i < span <=> lo + i < hi /\ lo + i < file.len
    BY <1>2, <1>3
  <2>4. ASSUME i < span PROVE res'.data[i] = Content(file)[lo + i]
    <3>1. i \in 0..span - 1 /\ lo + i \in 0..file.len - 1
      BY <1>2, <2>1, <2>3, <2>4
    <3> QED
      BY <1>1, <3>1 DEF Content
  <2> QED
    BY <1>1, <2>2, <2>3, <2>4
<1>4. SliceIs(res', db[d][f], file)
  BY <1>1, <1>2, <1>3 DEF SliceIs
<1> QED
  BY <1>1, <1>4

\* The replies of the other file commands: a read that is refused has an error.
LEMMA OtherReplies ==
    ASSUME NEW dev, NEW f,
           \/ CmdReadHdr(dev, f) \/ CmdReadPerms(dev, f) \/ CmdRestore(dev)
           \/ CmdNotFound(dev, f) \/ CmdDel(dev, f)
           \/ \E mod \in Modes : CmdWritePerms(dev, f, mod) \/ CmdNew(dev, f, mod)
    PROVE  res'.cmd # "pull" /\ ~(res'.cmd \in {"r", "r*"} /\ res'.rc >= 0)
<1>1. CASE CmdReadHdr(dev, f) \/ CmdReadPerms(dev, f) \/ CmdRestore(dev)
  BY <1>1 DEF CmdReadHdr, CmdReadPerms, CmdRestore, Returns
<1>2. CASE CmdNotFound(dev, f)
  <2>1. PICK cmd \in {"r", "r*", "rh", "rp", "wp", "del", "w", "pub"} :
          Returns(cmd, Refusal(dev, IF cmd \in {"w", "pub"} THEN 511 ELSE -513))
    BY <1>2 DEF CmdNotFound
  <2> DEFINE rc == Refusal(dev, IF cmd \in {"w", "pub"} THEN 511 ELSE -513)
  <2>2. cmd \in {"r", "r*"} => rc \in {-257, -513}
    BY DEF Refusal
  <2>3. res'.cmd = cmd /\ res'.rc = rc
    BY <2>1 DEF Returns
  <2> HIDE DEF rc
  <2> QED
    BY <2>2, <2>3
<1>3. CASE CmdDel(dev, f)
  BY <1>3 DEF CmdDel
<1>4. CASE \E mod \in Modes : CmdWritePerms(dev, f, mod)
  BY <1>4 DEF CmdWritePerms
<1>5. CASE \E mod \in Modes : CmdNew(dev, f, mod)
  <2>1. res'.cmd = "new"
    BY <1>5 DEF CmdNew, Returns
  <2> QED
    BY <2>1
<1> QED
  BY <1>1, <1>2, <1>3, <1>4, <1>5

\* r and r* return the bytes of the range that the file has when its length did not
\* change under the read, and none from outside of its allocation with any lengths.
THEOREM ReadsSlice == Spec => ReadReturnsSlice
<1> DEFINE Slice == res'.cmd \in {"r", "r*"} /\ res'.rc >= 0 =>
                      SliceIs(res', db[res'.dev][res'.file], db'[res'.dev][res'.file])
<1>1. Inv /\ [Next]_vars => [Slice]_vars
  <2> SUFFICES ASSUME Inv, Next, res'.cmd \in {"r", "r*"}, res'.rc >= 0 PROVE Slice
    OBVIOUS
  <2>1. PICK dev \in Devs \cup {Zero, Unknown}, f \in File, lo \in 0..MaxAlloc, hi \in 0..MaxAlloc :
          \/ CmdReadCached(dev, f, lo, hi)
          \/ CmdReadAll(dev, f, lo, hi)
          \/ CmdReadRefreshed(dev, f, lo, hi)
    <3>1. CASE Reply \/ DeviceChanges
      BY <3>1 DEF Reply, DeviceChanges, Begins, None
    <3>2. CASE \E list \in Lists : \/ CmdDevLs(list)
                                   \/ \E b \in Blocks : CmdPush(list, b) \/ CmdPull(list, b)
      <4>1. ASSUME NEW list \in Lists, CmdDevLs(list) PROVE FALSE
        BY <4>1 DEF CmdDevLs
      <4>2. ASSUME NEW list \in Lists, NEW b \in Blocks, CmdPush(list, b) PROVE FALSE
        BY <4>2 DEF CmdPush
      <4>3. ASSUME NEW list \in Lists, NEW b \in Blocks, CmdPull(list, b) PROVE FALSE
        BY <4>3 DEF CmdPull
      <4> QED
        BY <3>2, <4>1, <4>2, <4>3
    <3>3. ASSUME NEW dev \in Devs \cup {Zero, Unknown}, NEW f \in File,
                 \/ CmdReadHdr(dev, f) \/ CmdReadPerms(dev, f) \/ CmdRestore(dev)
                 \/ CmdNotFound(dev, f) \/ CmdDel(dev, f)
                 \/ \E mod \in Modes : CmdWritePerms(dev, f, mod) \/ CmdNew(dev, f, mod)
          PROVE  FALSE
      BY <3>3, OtherReplies
    <3>4. ASSUME NEW dev \in Devs \cup {Zero, Unknown}, NEW f \in File, NEW data \in Data,
                 NEW lo \in 0..MaxAlloc, NEW hi \in 0..MaxAlloc,
                 CmdWriteCache(dev, f, lo, hi, data) \/ CmdWriteThrough(dev, f, lo, hi, data)
          PROVE  FALSE
      BY <3>4 DEF CmdWriteCache, CmdWriteThrough, Returns, WriteReturns
    <3>5. ASSUME NEW dev \in Devs \cup {Zero, Unknown}, NEW f \in File, NEW data \in Data,
                 NEW lo \in 0..MaxAlloc, NEW hi \in 0..MaxAlloc, CmdWriteOverruns(dev, f, lo, hi, data)
          PROVE  FALSE
      BY <3>5 DEF CmdWriteOverruns, Begins, None
    <3> QED
      <4>1. \/ FileCommand \/ Reply \/ DeviceChanges
            \/ \E list \in Lists : \/ CmdDevLs(list)
                                   \/ \E b \in Blocks : CmdPush(list, b) \/ CmdPull(list, b)
        BY DEF Next
      <4>2. CASE FileCommand
        <5>1. PICK dev \in Devs \cup {Zero, Unknown}, f \in File :
                \/ \E lo, hi \in 0..MaxAlloc :
                     \/ CmdReadCached(dev, f, lo, hi)
                     \/ CmdReadRefreshed(dev, f, lo, hi)
                     \/ CmdReadAll(dev, f, lo, hi)
                     \/ \E data \in Data : CmdWriteCache(dev, f, lo, hi, data)
                                           \/ CmdWriteThrough(dev, f, lo, hi, data)
                                           \/ CmdWriteOverruns(dev, f, lo, hi, data)
                \/ CmdReadHdr(dev, f)
                \/ CmdReadPerms(dev, f)
                \/ CmdRestore(dev)
                \/ CmdNotFound(dev, f)
                \/ CmdDel(dev, f)
                \/ \E mod \in Modes : CmdWritePerms(dev, f, mod) \/ CmdNew(dev, f, mod)
          BY <4>2 DEF FileCommand
        <5>2. PICK lo \in 0..MaxAlloc, hi \in 0..MaxAlloc :
                \/ CmdReadCached(dev, f, lo, hi)
                \/ CmdReadRefreshed(dev, f, lo, hi)
                \/ CmdReadAll(dev, f, lo, hi)
                \/ \E data \in Data : CmdWriteCache(dev, f, lo, hi, data)
                                      \/ CmdWriteThrough(dev, f, lo, hi, data)
                                      \/ CmdWriteOverruns(dev, f, lo, hi, data)
          BY <3>3, <5>1
        <5> QED
          BY <3>4, <3>5, <5>2
      <4> QED
        BY <3>1, <3>2, <4>1, <4>2
  <2> DEFINE d == Target(dev)
  <2>2. /\ d \in Devs /\ active' = d /\ f \in DOMAIN db[d] /\ FilesOK
    BY <2>1, Selects DEF CmdReadCached, CmdReadAll, CmdReadRefreshed, Command, Found, Inv
  <2>3. GoodFile(db[d][f])
    BY <2>2, ImageFile DEF FilesOK
  <2>4. CASE CmdReadCached(dev, f, lo, hi) \/ CmdReadAll(dev, f, lo, hi)
    <3>1. db'[d][f] = db[d][f] /\ \E cmd \in {"r", "r*"} : ReturnsData(cmd, f, lo, hi, Span(db[d][f], lo, hi), db[d][f])
      BY <2>4 DEF CmdReadCached, CmdReadAll
    <3> HIDE DEF d
    <3> QED
      BY <2>2, <2>3, <3>1, SliceOf
  <2>5. CASE CmdReadRefreshed(dev, f, lo, hi)
    <3> DEFINE new == node[d][<<"isf", f[2]>>]
               stored == Store(db[d][f], new)
    <3>1. ~ \E rc \in {-1, -769, -1025} : Returns("r", rc)
      BY DEF Returns
    <3>2. /\ <<"isf", f[2]>> \in DOMAIN node[d] /\ Fits(db[d][f], new)
          /\ db' = [db EXCEPT ![d][f] = stored]
          /\ ReturnsData("r", f, lo, hi, Span(db[d][f], lo, hi), stored)
      BY <2>5, <3>1 DEF CmdReadRefreshed
    <3>3. GoodFile(new)
      BY <2>2, <3>2, ImageFile DEF FilesOK
    <3>4. stored.alloc = db[d][f].alloc /\ GoodFile(stored)
      BY <2>3, <3>2, <3>3, StoreIsFile
    <3>5. db'[d][f] = stored
      BY <2>2, <3>2 DEF FilesOK, ImageOK
    <3> HIDE DEF d, stored
    <3> QED
      BY <2>2, <2>3, <3>2, <3>4, <3>5, SliceOf
  <2> QED
    BY <2>1, <2>4, <2>5
<1> QED
  BY <1>1, Invariance, PTL DEF Spec, ReadReturnsSlice, SliceIs

-----------------------------------------------------------------------------
(* What pull reports.                                                      *)

\* The number of files that pull reports for a device is the number of files that
\* are now as on the device, when the ids have no gaps and the files fit.
THEOREM PullCounts == Spec => PullCountIsTrue
<1> DEFINE True == res'.cmd = "pull" =>
                     \A d \in DOMAIN res'.touched :
                       LET block == InBlock(d, res'.block)
                       IN  (\A f \in block : f \in DOMAIN node[d] /\ f[2] < Cardinality(block) /\ Fits(db[d][f], node[d][f]))
                           => \E got \in SUBSET block : /\ Cardinality(got) = res'.touched[d]
                                                       /\ \A f \in got : Content(db'[d][f]) = Content(node[d][f])
<1>1. Inv /\ [Next]_vars => [True]_vars
  <2> SUFFICES ASSUME Inv, Next, res'.cmd = "pull" PROVE True
    OBVIOUS
  <2>1. PICK list \in Lists, b \in Blocks : CmdPull(list, b)
    <3>1. CASE Reply \/ DeviceChanges
      BY <3>1 DEF Reply, DeviceChanges, Begins, None
    <3>2. ASSUME NEW list \in Lists, NEW b \in Blocks, CmdPush(list, b) PROVE FALSE
      BY <3>2 DEF CmdPush
    <3>3. ASSUME NEW list \in Lists, CmdDevLs(list) PROVE FALSE
      BY <3>3 DEF CmdDevLs
    <3>4. CASE FileCommand
      <4>1. PICK dev \in Devs \cup {Zero, Unknown}, f \in File :
              \/ \E lo, hi \in 0..MaxAlloc :
                   \/ CmdReadCached(dev, f, lo, hi)
                   \/ CmdReadRefreshed(dev, f, lo, hi)
                   \/ CmdReadAll(dev, f, lo, hi)
                   \/ \E data \in Data : CmdWriteCache(dev, f, lo, hi, data)
                                         \/ CmdWriteThrough(dev, f, lo, hi, data)
                                         \/ CmdWriteOverruns(dev, f, lo, hi, data)
              \/ CmdReadHdr(dev, f)
              \/ CmdReadPerms(dev, f)
              \/ CmdRestore(dev)
              \/ CmdNotFound(dev, f)
              \/ CmdDel(dev, f)
              \/ \E mod \in Modes : CmdWritePerms(dev, f, mod) \/ CmdNew(dev, f, mod)
        BY <3>4 DEF FileCommand
      <4>2. CASE \E lo, hi \in 0..MaxAlloc :
                   \/ CmdReadCached(dev, f, lo, hi)
                   \/ CmdReadRefreshed(dev, f, lo, hi)
                   \/ CmdReadAll(dev, f, lo, hi)
                   \/ \E data \in Data : CmdWriteCache(dev, f, lo, hi, data)
                                         \/ CmdWriteThrough(dev, f, lo, hi, data)
                                         \/ CmdWriteOverruns(dev, f, lo, hi, data)
        <5>1. PICK lo \in 0..MaxAlloc, hi \in 0..MaxAlloc :
                \/ CmdReadCached(dev, f, lo, hi)
                \/ CmdReadRefreshed(dev, f, lo, hi)
                \/ CmdReadAll(dev, f, lo, hi)
                \/ \E data \in Data : CmdWriteCache(dev, f, lo, hi, data)
                                      \/ CmdWriteThrough(dev, f, lo, hi, data)
                                      \/ CmdWriteOverruns(dev, f, lo, hi, data)
          BY <4>2
        <5>2. ASSUME NEW data \in Data,
                     CmdWriteCache(dev, f, lo, hi, data) \/ CmdWriteThrough(dev, f, lo, hi, data)
              PROVE  res'.cmd = "w"
          BY <5>2 DEF CmdWriteCache, CmdWriteThrough, Returns, WriteReturns
        <5>6. ASSUME NEW data \in Data, CmdWriteOverruns(dev, f, lo, hi, data)
              PROVE  res'.cmd = "none"
          BY <5>6 DEF CmdWriteOverruns, Begins, None
        <5>3. CASE CmdReadCached(dev, f, lo, hi)
          BY <5>3 DEF CmdReadCached, Returns, ReturnsData
        <5>4. CASE CmdReadRefreshed(dev, f, lo, hi)
          BY <5>4 DEF CmdReadRefreshed, Returns, ReturnsData
        <5>5. CASE CmdReadAll(dev, f, lo, hi)
          BY <5>5 DEF CmdReadAll, Returns, ReturnsData
        <5> QED
          BY <5>1, <5>2, <5>3, <5>4, <5>5, <5>6
      <4>3. CASE \/ CmdReadHdr(dev, f) \/ CmdReadPerms(dev, f) \/ CmdRestore(dev)
                 \/ CmdNotFound(dev, f) \/ CmdDel(dev, f)
                 \/ \E mod \in Modes : CmdWritePerms(dev, f, mod) \/ CmdNew(dev, f, mod)
        BY <4>3, OtherReplies
      <4> QED
        BY <4>1, <4>2, <4>3
    <3> QED
      BY <3>1, <3>2, <3>3, <3>4 DEF Next
  <2>2. PICK stop \in [Visited(list) -> 0..Cardinality(Ids)] :
          /\ db' = [d \in Devs |-> [f \in DOMAIN db[d] |->
                      IF <<d, f>> \in Pulled(list, b, stop) THEN Store(db[d][f], node[d][f]) ELSE db[d][f]]]
          /\ res' = [cmd |-> "pull", block |-> b, touched |->
                       [d \in Visited(list) |-> Cardinality(Counted(d, b, stop[d]))]]
    BY <2>1 DEF CmdPull, Pulled
  <2> SUFFICES ASSUME NEW d \in Visited(list),
                      \A f \in InBlock(d, b) : f \in DOMAIN node[d] /\ Fits(db[d][f], node[d][f])
               PROVE  \E got \in SUBSET InBlock(d, b) :
                        /\ Cardinality(got) = res'.touched[d]
                        /\ \A f \in got : Content(db'[d][f]) = Content(node[d][f])
    BY <2>2
  <2> DEFINE got == Counted(d, b, stop[d])
  <2>3. got \subseteq InBlock(d, b) /\ Cardinality(got) = res'.touched[d]
    BY <2>2 DEF Counted
  <2>4. ASSUME NEW f \in got PROVE Content(db'[d][f]) = Content(node[d][f])
    <3>1. d \in Devs /\ FilesOK /\ f \in DOMAIN db[d] /\ f \in DOMAIN node[d] /\ Fits(db[d][f], node[d][f])
      BY <2>3, <2>4 DEF Visited, Inv, InBlock
    <3>2. GoodFile(db[d][f]) /\ GoodFile(node[d][f]) /\ f \in File
      BY <3>1, ImageFile DEF FilesOK
    <3>3. <<d, f>> \in Pulled(list, b, stop)
      BY <2>4, <3>1, <3>2 DEF Pulled, Counted
    <3>4. db'[d][f] = Store(db[d][f], node[d][f])
      BY <2>2, <3>1, <3>3
    <3>5. GoodFile(Store(db[d][f], node[d][f])) /\ Same(Store(db[d][f], node[d][f]), node[d][f])
      BY <3>1, <3>2, StoreIsFile
    <3> QED
      BY <3>2, <3>4, <3>5, ContentIsBytes
  <2> QED
    BY <2>3, <2>4
<1> QED
  BY <1>1, Invariance, PTL DEF Spec, PullCountIsTrue

=============================================================================
