----------------------------- MODULE BufferCacheProofs -----------------------------
(*****************************************************************************)
(* The safety of the buffer cache for any number of processes, buffers and   *)
(* blocks, by the inductive invariant IInv of BufferCache.                   *)
(*****************************************************************************)
EXTENDS BufferCache, SequenceTheorems, FiniteSetTheorems, WellFoundedInduction, TLAPS

-----------------------------------------------------------------------------
\* The chains av_forw as sets: Append, Tail and RemoveAt

LEMMA AppendChain ==
    ASSUME NEW S, NEW s \in Seq(S), NEW e \in S, Distinct(s), e \notin Chain(s)
    PROVE  /\ Append(s, e) \in Seq(S)
           /\ Append(s, e) # <<>>
           /\ Chain(Append(s, e)) = Chain(s) \cup {e}
           /\ Distinct(Append(s, e))
<1>1. /\ Append(s, e) \in Seq(S)
      /\ Len(Append(s, e)) = Len(s) + 1
      /\ \A i \in 1..Len(s) : Append(s, e)[i] = s[i]
      /\ Append(s, e)[Len(s) + 1] = e
      /\ DOMAIN Append(s, e) = 1..(Len(s) + 1)
      /\ DOMAIN s = 1..Len(s) /\ Len(s) \in Nat
  OBVIOUS
<1>2. Chain(Append(s, e)) = Chain(s) \cup {e}
  <2>1. ASSUME NEW x \in Chain(Append(s, e))  PROVE x \in Chain(s) \cup {e}
    BY <1>1, <2>1 DEF Chain
  <2>2. ASSUME NEW x \in Chain(s) \cup {e}  PROVE x \in Chain(Append(s, e))
    BY <1>1, <2>2 DEF Chain
  <2> QED BY <2>1, <2>2
<1>3. Distinct(Append(s, e))
  BY <1>1 DEF Distinct, Chain
<1>4. Append(s, e) # <<>>
  BY <1>1
<1> QED BY <1>1, <1>2, <1>3, <1>4

LEMMA TailChain ==
    ASSUME NEW S, NEW s \in Seq(S), Distinct(s), s # <<>>
    PROVE  /\ Head(s) \in S /\ Head(s) \in Chain(s)
           /\ Tail(s) \in Seq(S)
           /\ Chain(Tail(s)) = Chain(s) \ {Head(s)}
           /\ Distinct(Tail(s))
<1>1. /\ Tail(s) \in Seq(S) /\ Len(Tail(s)) = Len(s) - 1
      /\ \A i \in 1..(Len(s) - 1) : Tail(s)[i] = s[i + 1]
      /\ Head(s) = s[1] /\ Len(s) \in Nat \ {0}
      /\ DOMAIN s = 1..Len(s) /\ DOMAIN Tail(s) = 1..(Len(s) - 1)
  OBVIOUS
<1>2. Head(s) \in S /\ Head(s) \in Chain(s)
  BY <1>1 DEF Chain
<1>3. Chain(Tail(s)) = Chain(s) \ {Head(s)}
  <2>1. ASSUME NEW x \in Chain(Tail(s))  PROVE x \in Chain(s) \ {Head(s)}
    <3>1. PICK i \in 1..(Len(s) - 1) : x = s[i + 1]
      BY <1>1, <2>1 DEF Chain
    <3>2. i + 1 \in DOMAIN s /\ 1 \in DOMAIN s /\ i + 1 # 1
      BY <1>1
    <3> QED BY <1>1, <3>1, <3>2 DEF Chain, Distinct
  <2>2. ASSUME NEW x \in Chain(s) \ {Head(s)}  PROVE x \in Chain(Tail(s))
    <3>1. PICK i \in 2..Len(s) : x = s[i]
      BY <1>1, <2>2 DEF Chain
    <3>2. i - 1 \in DOMAIN Tail(s) /\ Tail(s)[i - 1] = x
      BY <1>1, <3>1
    <3> QED BY <3>2 DEF Chain
  <2> QED BY <2>1, <2>2
<1>4. Distinct(Tail(s))
  BY <1>1 DEF Distinct
<1> QED BY <1>1, <1>2, <1>3, <1>4

LEMMA RemoveChain ==
    ASSUME NEW S, NEW s \in Seq(S), Distinct(s), NEW i \in DOMAIN s
    PROVE  /\ RemoveAt(s, i) \in Seq(S)
           /\ Chain(RemoveAt(s, i)) = Chain(s) \ {s[i]}
           /\ Distinct(RemoveAt(s, i))
<1> DEFINE r == RemoveAt(s, i)
<1>1. DOMAIN s = 1..Len(s) /\ Len(s) \in Nat /\ i \in 1..Len(s)
  OBVIOUS
<1>2. /\ SubSeq(s, 1, i-1) \in Seq(S) /\ Len(SubSeq(s, 1, i-1)) = i - 1
      /\ \A j \in 1..(i-1) : SubSeq(s, 1, i-1)[j] = s[j]
      /\ SubSeq(s, i+1, Len(s)) \in Seq(S) /\ Len(SubSeq(s, i+1, Len(s))) = Len(s) - i
      /\ \A j \in 1..(Len(s)-i) : SubSeq(s, i+1, Len(s))[j] = s[i+j]
  <2>1. \A j \in 1..(i-1) : s[j] \in S
    BY <1>1
  <2>2. \A j \in (i+1)..Len(s) : s[j] \in S
    BY <1>1
  <2>3. /\ SubSeq(s, 1, i-1) \in Seq(S)
        /\ Len(SubSeq(s, 1, i-1)) = IF 1 <= i-1 THEN (i-1)-1+1 ELSE 0
        /\ \A j \in 1..((i-1)-1+1) : SubSeq(s, 1, i-1)[j] = s[1+j-1]
    BY <1>1, <2>1, SubSeqProperties
  <2>4. /\ SubSeq(s, i+1, Len(s)) \in Seq(S)
        /\ Len(SubSeq(s, i+1, Len(s))) = IF i+1 <= Len(s) THEN Len(s)-(i+1)+1 ELSE 0
        /\ \A j \in 1..(Len(s)-(i+1)+1) : SubSeq(s, i+1, Len(s))[j] = s[(i+1)+j-1]
    BY <1>1, <2>2, SubSeqProperties
  <2>5. \A j \in 1..(i-1) : SubSeq(s, 1, i-1)[j] = s[j]
    BY <1>1, <2>3
  <2>6. \A j \in 1..(Len(s)-i) : SubSeq(s, i+1, Len(s))[j] = s[i+j]
    BY <1>1, <2>4
  <2> QED BY <1>1, <2>3, <2>4, <2>5, <2>6
<1>3. /\ r \in Seq(S) /\ Len(r) = Len(s) - 1 /\ DOMAIN r = 1..(Len(s) - 1)
      /\ \A j \in 1..(Len(s) - 1) : r[j] = IF j < i THEN s[j] ELSE s[j+1]
  <2> DEFINE a == SubSeq(s, 1, i-1)
             c == SubSeq(s, i+1, Len(s))
  <2>1. a \in Seq(S) /\ c \in Seq(S) /\ Len(a) = i - 1 /\ Len(c) = Len(s) - i
    BY <1>2
  <2>2. /\ \A j \in 1..(i-1) : a[j] = s[j]
        /\ \A j \in 1..(Len(s)-i) : c[j] = s[i+j]
    BY <1>2
  <2>3. r = a \o c
    BY DEF RemoveAt
  <2> HIDE DEF a, c, r
  <2>4. /\ a \o c \in Seq(S) /\ Len(a \o c) = Len(a) + Len(c)
        /\ \A j \in 1..(Len(a) + Len(c)) :
               (a \o c)[j] = IF j <= Len(a) THEN a[j] ELSE c[j - Len(a)]
    BY <2>1, ConcatProperties
  <2>5. r \in Seq(S) /\ Len(r) = Len(s) - 1
    BY <1>1, <2>1, <2>3, <2>4
  <2>6. DOMAIN r = 1..(Len(s) - 1)
    BY <2>5
  <2>7. ASSUME NEW j \in 1..(Len(s) - 1)
        PROVE  r[j] = IF j < i THEN s[j] ELSE s[j+1]
    <3>1. r[j] = IF j <= i - 1 THEN a[j] ELSE c[j - (i - 1)]
      BY <1>1, <2>1, <2>3, <2>4, SMTT(30)
    <3>2. CASE j < i
      BY <1>1, <2>2, <3>1, <3>2
    <3>3. CASE j >= i
      <4>1. j - (i - 1) \in 1..(Len(s)-i) /\ i + (j - (i - 1)) = j + 1
        BY <1>1, <3>3
      <4> QED BY <1>1, <2>2, <3>1, <3>3, <4>1
    <3> QED BY <1>1, <3>2, <3>3
  <2> QED BY <2>5, <2>6, <2>7
<1>4. Chain(r) = Chain(s) \ {s[i]}
  <2>1. ASSUME NEW x \in Chain(r)  PROVE x \in Chain(s) \ {s[i]}
    <3>1. PICK j \in 1..(Len(s) - 1) : x = r[j]
      BY <1>3, <2>1 DEF Chain
    <3>2. CASE j < i
      BY <1>1, <1>3, <3>1, <3>2, SMTT(30) DEF Chain, Distinct
    <3>3. CASE j >= i
      <4>1. x = s[j+1] /\ j + 1 \in DOMAIN s /\ j + 1 # i
        BY <1>1, <1>3, <3>1, <3>3
      <4> QED BY <4>1 DEF Chain, Distinct
    <3> QED BY <1>1, <3>2, <3>3
  <2>2. ASSUME NEW x \in Chain(s) \ {s[i]}  PROVE x \in Chain(r)
    <3>1. PICK j \in 1..Len(s) : x = s[j] /\ j # i
      BY <1>1, <2>2 DEF Chain
    <3>2. CASE j < i
      <4>1. j \in DOMAIN r /\ r[j] = x
        BY <1>1, <1>3, <3>1, <3>2
      <4> QED BY <4>1 DEF Chain
    <3>3. CASE j > i
      <4>1. j - 1 \in DOMAIN r /\ r[j - 1] = x
        BY <1>1, <1>3, <3>1, <3>3
      <4> QED BY <4>1 DEF Chain
    <3> QED BY <1>1, <3>1, <3>2, <3>3
  <2> QED BY <2>1, <2>2
<1>5. Distinct(r)
  <2> DEFINE at(j) == IF j < i THEN j ELSE j + 1
  <2>1. SUFFICES ASSUME NEW j \in DOMAIN r, NEW k \in DOMAIN r, r[j] = r[k]
                 PROVE  j = k
    BY DEF Distinct
  <2>2. /\ at(j) \in DOMAIN s /\ at(k) \in DOMAIN s
        /\ r[j] = s[at(j)] /\ r[k] = s[at(k)]
    BY <1>1, <1>3
  <2>3. at(j) = at(k)
    BY <2>1, <2>2 DEF Distinct
  <2> QED BY <1>1, <1>3, <2>3
<1> QED BY <1>3, <1>4, <1>5

-----------------------------------------------------------------------------
\* Two kinds of steps that keep the headers, the chains and their owners in order

\* A step that moves no buffer between the free list, the request chain and owners
LEMMA SameBuffers ==
    ASSUME IInv, UNCHANGED <<blk, freeList, ioq, active>>,
           \A b \in Bufs : /\ Has(b, "BUSY")' <=> Has(b, "BUSY")
                           /\ Has(b, "ASYNC")' <=> Has(b, "ASYNC"),
           \A b \in Bufs : b \in Chain(ioq) /\ Has(b, "DONE")' => Has(b, "DONE"),
           \A q \in Procs, b \in Bufs : Owns(q, b)' <=> Owns(q, b)
    PROVE  FreeListExact' /\ QueueExact' /\ OneCopy' /\ OwnersOK'
<1>1. Chain(freeList)' = Chain(freeList) /\ Chain(ioq)' = Chain(ioq)
  BY DEF Chain
<1>2. Chain(ioq) \subseteq Bufs
  BY DEF IInv, TypeOK, Chain
<1>3. FreeListExact'
  BY <1>1 DEF IInv, FreeListExact, Distinct
<1>4. QueueExact'
  BY <1>1, <1>2 DEF IInv, QueueExact, Distinct
<1>5. OneCopy'
  BY DEF IInv, OneCopy
<1>6. OwnersOK'
  BY <1>1 DEF IInv, OwnersOK
<1> QED BY <1>3, <1>4, <1>5, <1>6

\* Strategy(b) for a buffer in use whose owner keeps it and waits, or gives it up to
\* the interrupt handler
LEMMA Enqueued ==
    ASSUME IInv, NEW b \in Bufs, b \notin Chain(ioq), Has(b, "BUSY"),
           Strategy(b), UNCHANGED <<blk, freeList>>,
           \A c \in Bufs \ {b} : flags'[c] = flags[c],
           Has(b, "BUSY")', ~Has(b, "DONE")',
           \A q \in Procs, c \in Bufs \ {b} : Owns(q, c)' <=> Owns(q, c),
           \/ ~Has(b, "ASYNC")' /\ \A q \in Procs : Owns(q, b)' <=> Owns(q, b)
           \/ Has(b, "ASYNC")' /\ \A q \in Procs : ~Owns(q, b)'
    PROVE  FreeListExact' /\ QueueExact' /\ OneCopy' /\ OwnersOK'
<1>1. /\ Chain(ioq') = Chain(ioq) \cup {b} /\ Distinct(ioq') /\ ioq' # <<>>
  BY AppendChain DEF IInv, TypeOK, QueueExact, Strategy
<1>2. Chain(freeList)' = Chain(freeList) /\ Chain(ioq)' = Chain(ioq')
  BY DEF Chain
<1>3. Chain(ioq) \subseteq Bufs
  BY DEF IInv, TypeOK, Chain
<1>4. FreeListExact'
  BY <1>2 DEF IInv, FreeListExact, Distinct, Has
<1>5. QueueExact'
  <2>1. active' = 1
    BY DEF IInv, TypeOK, Strategy
  <2>2. \A c \in Chain(ioq') : Has(c, "BUSY")' /\ ~Has(c, "DONE")'
    BY <1>1, <1>3 DEF IInv, QueueExact, Has
  <2> QED BY <1>1, <1>2, <2>1, <2>2 DEF QueueExact, Distinct
<1>6. OneCopy'
  BY DEF IInv, OneCopy
<1>7. OwnersOK'
  <2>1. ~Has(b, "ASYNC")
    BY DEF IInv, OwnersOK
  <2>2. \A c \in Bufs : c \in Chain(ioq)' <=> c \in Chain(ioq) \/ c = b
    BY <1>1, <1>2
  <2> QED BY <2>1, <2>2 DEF IInv, OwnersOK, Has
<1> QED BY <1>4, <1>5, <1>6, <1>7

\* A step that takes buffer b off the free list for process p, under its old name or
\* under one that no other buffer has
LEMMA Taken ==
    ASSUME IInv, NEW b \in Bufs, NEW p \in Procs, b \in Chain(freeList),
           Chain(freeList') = Chain(freeList) \ {b}, Distinct(freeList'),
           UNCHANGED <<ioq, active>>,
           \A c \in Bufs \ {b} : flags'[c] = flags[c] /\ blk'[c] = blk[c],
           blk'[b] = blk[b] \/ \A c \in Bufs : blk[c] # blk'[b],
           Has(b, "BUSY")', ~Has(b, "ASYNC")',
           \A q \in Procs, c \in Bufs : Owns(q, c)' <=> Owns(q, c) \/ (q = p /\ c = b)
    PROVE  FreeListExact' /\ QueueExact' /\ OneCopy' /\ OwnersOK'
<1>1. Chain(freeList)' = Chain(freeList') /\ Chain(ioq)' = Chain(ioq)
  BY DEF Chain
<1>2. Chain(ioq) \subseteq Bufs /\ Chain(freeList) \subseteq Bufs
  BY DEF IInv, TypeOK, Chain
<1>3. ~Has(b, "BUSY") /\ b \notin Chain(ioq)
  BY DEF IInv, FreeListExact, QueueExact
<1>4. FreeListExact'
  BY <1>1, <1>3 DEF IInv, FreeListExact, Distinct, Has
<1>5. QueueExact'
  BY <1>1, <1>2, <1>3 DEF IInv, QueueExact, Distinct, Has
<1>6. OneCopy'
  BY DEF IInv, OneCopy
<1>7. \A q \in Procs : ~Owns(q, b)
  BY <1>3 DEF IInv, OwnersOK
<1>8. OwnersOK'
  <2>1. \A q \in Procs, c \in Bufs : Owns(q, c)' => Has(c, "BUSY")' /\ ~Has(c, "ASYNC")'
    BY DEF IInv, OwnersOK, Has
  <2>2. \A q, r \in Procs, c \in Bufs : Owns(q, c)' /\ Owns(r, c)' => q = r
    BY <1>7 DEF IInv, OwnersOK
  <2>3. \A c \in Bufs : Has(c, "BUSY")' /\ (\A q \in Procs : ~Owns(q, c)') => Has(c, "ASYNC")'
    BY DEF IInv, OwnersOK, Has
  <2>4. \A c \in Bufs : Has(c, "ASYNC")' => c \in Chain(ioq)'
    BY <1>1 DEF IInv, OwnersOK, Has
  <2> QED BY <2>1, <2>2, <2>3, <2>4 DEF OwnersOK
<1> QED BY <1>4, <1>5, <1>6, <1>8

\* A step that takes buffer b off the free list and starts its delayed write
LEMMA Flushed ==
    ASSUME IInv, NEW b \in Bufs, b \in Chain(freeList),
           Chain(freeList') = Chain(freeList) \ {b}, Distinct(freeList'),
           Strategy(b), UNCHANGED blk,
           \A c \in Bufs \ {b} : flags'[c] = flags[c],
           Has(b, "BUSY")', Has(b, "ASYNC")', ~Has(b, "DONE")',
           \A q \in Procs, c \in Bufs : Owns(q, c)' <=> Owns(q, c)
    PROVE  FreeListExact' /\ QueueExact' /\ OneCopy' /\ OwnersOK'
<1>1. ~Has(b, "BUSY") /\ b \notin Chain(ioq)
  BY DEF IInv, FreeListExact, QueueExact
<1>2. /\ Chain(ioq') = Chain(ioq) \cup {b} /\ Distinct(ioq') /\ ioq' # <<>>
  BY <1>1, AppendChain DEF IInv, TypeOK, QueueExact, Strategy
<1>3. Chain(freeList)' = Chain(freeList') /\ Chain(ioq)' = Chain(ioq')
  BY DEF Chain
<1>4. Chain(ioq) \subseteq Bufs /\ Chain(freeList) \subseteq Bufs
  BY DEF IInv, TypeOK, Chain
<1>5. FreeListExact'
  BY <1>1, <1>3 DEF IInv, FreeListExact, Distinct, Has
<1>6. QueueExact'
  <2>1. active' = 1
    BY DEF IInv, TypeOK, Strategy
  <2>2. \A c \in Chain(ioq') : Has(c, "BUSY")' /\ ~Has(c, "DONE")'
    BY <1>2, <1>4 DEF IInv, QueueExact, Has
  <2> QED BY <1>2, <1>3, <2>1, <2>2 DEF QueueExact, Distinct
<1>7. OneCopy'
  BY DEF IInv, OneCopy
<1>8. OwnersOK'
  <2>1. \A q \in Procs : ~Owns(q, b)
    BY <1>1 DEF IInv, OwnersOK
  <2>2. \A c \in Bufs : c \in Chain(ioq)' <=> c \in Chain(ioq) \/ c = b
    BY <1>2, <1>3
  <2> QED BY <2>1, <2>2 DEF IInv, OwnersOK, Has
<1> QED BY <1>5, <1>6, <1>7, <1>8

\* A step that puts buffer b, which is not queued, back on the free list
LEMMA Freed ==
    ASSUME IInv, NEW b \in Bufs, Has(b, "BUSY"), b \notin Chain(ioq),
           freeList' = Append(freeList, b), UNCHANGED <<blk, ioq, active>>,
           \A c \in Bufs \ {b} : flags'[c] = flags[c],
           ~Has(b, "BUSY")', ~Has(b, "ASYNC")',
           \A q \in Procs, c \in Bufs : Owns(q, c)' <=> Owns(q, c) /\ c # b
    PROVE  FreeListExact' /\ QueueExact' /\ OneCopy' /\ OwnersOK'
<1>1. b \notin Chain(freeList)
  BY DEF IInv, FreeListExact
<1>2. /\ Chain(freeList') = Chain(freeList) \cup {b} /\ Distinct(freeList')
  BY <1>1, AppendChain DEF IInv, TypeOK, FreeListExact
<1>3. Chain(freeList)' = Chain(freeList') /\ Chain(ioq)' = Chain(ioq)
  BY DEF Chain
<1>4. Chain(ioq) \subseteq Bufs
  BY DEF IInv, TypeOK, Chain
<1>5. FreeListExact'
  BY <1>2, <1>3 DEF IInv, FreeListExact, Distinct, Has
<1>6. QueueExact'
  BY <1>3, <1>4 DEF IInv, QueueExact, Distinct, Has
<1>7. OneCopy'
  BY DEF IInv, OneCopy
<1>8. OwnersOK'
  BY <1>3 DEF IInv, OwnersOK, Has
<1> QED BY <1>5, <1>6, <1>7, <1>8

\* The transfer of the first queued buffer is over; its owner keeps it.
LEMMA Dequeued ==
    ASSUME IInv, NEW b \in Bufs, ioq # <<>>, b = Head(ioq), NextRequest,
           UNCHANGED <<blk, freeList>>,
           \A c \in Bufs \ {b} : flags'[c] = flags[c],
           Has(b, "BUSY")', ~Has(b, "ASYNC"), ~Has(b, "ASYNC")',
           \A q \in Procs, c \in Bufs : Owns(q, c)' <=> Owns(q, c)
    PROVE  FreeListExact' /\ QueueExact' /\ OneCopy' /\ OwnersOK'
<1>1. /\ Chain(ioq') = Chain(ioq) \ {b} /\ Distinct(ioq') /\ b \in Chain(ioq)
  BY TailChain DEF IInv, TypeOK, QueueExact, NextRequest
<1>2. Has(b, "BUSY")
  BY <1>1 DEF IInv, QueueExact
<1>3. Chain(freeList)' = Chain(freeList) /\ Chain(ioq)' = Chain(ioq')
  BY DEF Chain
<1>4. Chain(ioq) \subseteq Bufs
  BY DEF IInv, TypeOK, Chain
<1>5. FreeListExact'
  BY <1>2, <1>3 DEF IInv, FreeListExact, Distinct, Has
<1>6. QueueExact'
  <2>1. (active' = 1) <=> (ioq' # <<>>)
    BY DEF NextRequest
  <2>2. \A c \in Chain(ioq') : Has(c, "BUSY")' /\ ~Has(c, "DONE")'
    BY <1>1, <1>4 DEF IInv, QueueExact, Has
  <2> QED BY <1>1, <1>3, <2>1, <2>2 DEF QueueExact, Distinct
<1>7. OneCopy'
  BY DEF IInv, OneCopy
<1>8. OwnersOK'
  <2>1. \A c \in Bufs : c \in Chain(ioq)' <=> c \in Chain(ioq) /\ c # b
    BY <1>1, <1>3
  <2> QED BY <1>2, <2>1 DEF IInv, OwnersOK, Has
<1> QED BY <1>5, <1>6, <1>7, <1>8

\* The asynchronous transfer of the first queued buffer is over; nobody owns it.
LEMMA DequeuedFreed ==
    ASSUME IInv, NEW b \in Bufs, ioq # <<>>, b = Head(ioq), NextRequest,
           UNCHANGED blk, freeList' = Append(freeList, b), Has(b, "ASYNC"),
           \A c \in Bufs \ {b} : flags'[c] = flags[c],
           ~Has(b, "BUSY")', ~Has(b, "ASYNC")',
           \A q \in Procs, c \in Bufs : Owns(q, c)' <=> Owns(q, c)
    PROVE  FreeListExact' /\ QueueExact' /\ OneCopy' /\ OwnersOK'
<1>1. /\ Chain(ioq') = Chain(ioq) \ {b} /\ Distinct(ioq') /\ b \in Chain(ioq)
  BY TailChain DEF IInv, TypeOK, QueueExact, NextRequest
<1>2. Has(b, "BUSY") /\ b \notin Chain(freeList)
  BY <1>1 DEF IInv, QueueExact, FreeListExact
<1>3. /\ Chain(freeList') = Chain(freeList) \cup {b} /\ Distinct(freeList')
  BY <1>2, AppendChain DEF IInv, TypeOK, FreeListExact
<1>4. Chain(freeList)' = Chain(freeList') /\ Chain(ioq)' = Chain(ioq')
  BY DEF Chain
<1>5. Chain(ioq) \subseteq Bufs
  BY DEF IInv, TypeOK, Chain
<1>6. FreeListExact'
  BY <1>3, <1>4 DEF IInv, FreeListExact, Distinct, Has
<1>7. QueueExact'
  <2>1. (active' = 1) <=> (ioq' # <<>>)
    BY DEF NextRequest
  <2>2. \A c \in Chain(ioq') : Has(c, "BUSY")' /\ ~Has(c, "DONE")'
    BY <1>1, <1>5 DEF IInv, QueueExact, Has
  <2> QED BY <1>1, <1>4, <2>1, <2>2 DEF QueueExact, Distinct
<1>8. OneCopy'
  BY DEF IInv, OneCopy
<1>9. OwnersOK'
  <2>1. \A q \in Procs : ~Owns(q, b)
    BY DEF IInv, OwnersOK
  <2>2. \A c \in Bufs : c \in Chain(ioq)' <=> c \in Chain(ioq) /\ c # b
    BY <1>1, <1>4
  <2> QED BY <2>1, <2>2 DEF IInv, OwnersOK, Has
<1> QED BY <1>6, <1>7, <1>8, <1>9

-----------------------------------------------------------------------------
\* Every action preserves the invariant

LEMMA CallInv ==
    ASSUME IInv, NEW p \in Procs, NEW r \in Request, Call(p, r)
    PROVE  IInv'
<1> USE CacheAssumption DEF IInv, Call, Running, Goto, cacheVars, diskVars
<1>1. TypeOK'
  BY SMTT(30) DEF TypeOK, Flag, Label, Request
<1>2. CpuOK'
  BY DEF CpuOK, TypeOK
<1>3. RetOK'
  BY DEF RetOK, TypeOK, CpuOK, Ahead
<1>4. NamesOK'
  BY DEF NamesOK, TypeOK, CpuOK, RetOK, Ahead, Want, Cur, Seeking, InCore,
                Request
<1>5. LocalsOK'
  BY DEF LocalsOK, TypeOK, CpuOK, RetOK, Ahead, Cur, Has
<1>6. TransferOK'
  BY DEF TransferOK, TypeOK, CpuOK, RetOK, LocalsOK, Ahead, Cur, Has
<1>7. SleepOK'
  BY DEF SleepOK, TypeOK, CpuOK, RetOK, Ahead, Cur
<1>8. NoLostWakeup'
  BY DEF NoLostWakeup, TypeOK, CpuOK, Has, SleepOK
<1>9. \A q \in Procs, b \in Bufs : Owns(q, b)' <=> Owns(q, b)
  BY DEF Owns, OwnsMain, OwnsAhead, Ahead, TypeOK, CpuOK, RetOK, LocalsOK, Cur
<1>10. FreeListExact' /\ QueueExact' /\ OneCopy' /\ OwnersOK'
  BY <1>9, SameBuffers DEF Has
<1> QED BY <1>1, <1>2, <1>3, <1>4, <1>5, <1>6, <1>7, <1>8, <1>10

LEMMA ResumeInv ==
    ASSUME IInv, NEW p \in Procs, Resume(p)
    PROVE  IInv'
<1> USE CacheAssumption DEF IInv, Resume, Running, Goto, cacheVars, diskVars
<1>1. TypeOK'
  BY DEF TypeOK, Flag, Label
<1>2. CpuOK'
  BY DEF CpuOK, TypeOK
<1>3. RetOK'
  BY DEF RetOK, TypeOK, CpuOK, Ahead
<1>4. NamesOK'
  BY DEF NamesOK, TypeOK, CpuOK, RetOK, Ahead, Want, Cur, Seeking, InCore
<1>5. LocalsOK'
  BY DEF LocalsOK, TypeOK, CpuOK, RetOK, Ahead, Cur, Has
<1>6. TransferOK'
  BY DEF TransferOK, TypeOK, CpuOK, RetOK, LocalsOK, Ahead, Cur, Has
<1>7. SleepOK'
  BY DEF SleepOK, TypeOK, CpuOK, RetOK, Ahead, Cur
<1>8. NoLostWakeup'
  BY DEF NoLostWakeup, TypeOK, CpuOK, Has
<1>9. \A q \in Procs, b \in Bufs : Owns(q, b)' <=> Owns(q, b)
  BY DEF Owns, OwnsMain, OwnsAhead, Ahead, TypeOK, CpuOK, RetOK, LocalsOK, Cur
<1>10. FreeListExact' /\ QueueExact' /\ OneCopy' /\ OwnersOK'
  BY <1>9, SameBuffers DEF Has
<1> QED BY <1>1, <1>2, <1>3, <1>4, <1>5, <1>6, <1>7, <1>8, <1>10

LEMMA GetBlkBusyInv ==
    ASSUME IInv, NEW p \in Procs, GetBlkBusy(p)
    PROVE  IInv'
<1> USE CacheAssumption DEF IInv, GetBlkBusy, Running, Goto, cacheVars, diskVars,
        SleepOn
<1>1. PICK b \in InCore(Want(p)) :
        /\ Has(b, "BUSY")
        /\ flags' = [flags EXCEPT ![b] = @ \cup {"WANTED"}]
        /\ SleepOn(p, b, "getblk")
  OBVIOUS
<1>2. b \in Bufs /\ b # NoBuf /\ b # FreeList
  BY DEF InCore
<1>3. \A c \in Bufs, f \in Flag \ {"WANTED"} : Has(c, f)' <=> Has(c, f)
  BY <1>1, <1>2 DEF Has, TypeOK, Flag
<1>4. TypeOK'
  BY <1>1, <1>2 DEF TypeOK, Flag, Label
<1>5. CpuOK'
  BY <1>1, <1>2 DEF CpuOK, TypeOK
<1>6. RetOK'
  BY <1>1, <1>2 DEF RetOK, TypeOK, CpuOK, Ahead
<1>7. NamesOK'
  BY <1>1, <1>2, <1>3 DEF NamesOK, TypeOK, CpuOK, RetOK, Ahead, Want, Cur,
            Seeking, InCore, Has, Flag
<1>8. LocalsOK'
  BY <1>1, <1>2, <1>3 DEF LocalsOK, TypeOK, CpuOK, RetOK, Ahead, Cur, Has,
            Flag
<1>9. TransferOK'
  BY <1>1, <1>2, <1>3 DEF TransferOK, TypeOK, CpuOK, RetOK, LocalsOK, Ahead,
            Cur, Has, Flag
<1>10. SleepOK'
  BY <1>1, <1>2 DEF SleepOK, TypeOK, CpuOK, RetOK, Ahead, Cur
<1>11. NoLostWakeup'
  BY <1>1, <1>2 DEF NoLostWakeup, TypeOK, CpuOK, Has
<1>12. \A q \in Procs, x \in Bufs : Owns(q, x)' <=> Owns(q, x)
  BY <1>1, <1>2 DEF Owns, OwnsMain, OwnsAhead, Ahead, TypeOK, CpuOK, RetOK, LocalsOK,
     Cur
<1>13. FreeListExact' /\ QueueExact' /\ OneCopy' /\ OwnersOK'
  BY <1>1, <1>3, <1>12, SameBuffers DEF Flag
<1> QED BY <1>4, <1>5, <1>6, <1>7, <1>8, <1>9, <1>10, <1>11, <1>13

LEMMA GetBlkHitInv ==
    ASSUME IInv, NEW p \in Procs, GetBlkHit(p)
    PROVE  IInv'
<1> USE CacheAssumption DEF IInv, GetBlkHit, Running, Goto, cacheVars, diskVars, SetCur,
        InCore, Cur
<1>1. TypeOK'
  BY DEF TypeOK, Flag, Label, Has
<1>2. CpuOK'
  BY DEF CpuOK, TypeOK
<1>3. RetOK'
  BY DEF RetOK, TypeOK, CpuOK, Ahead
<1>4. NamesOK'
  BY DEF NamesOK, TypeOK, CpuOK, RetOK, Ahead, Want, Cur, Seeking, InCore
<1>5. LocalsOK'
  BY DEF LocalsOK, TypeOK, CpuOK, RetOK, Ahead, Cur, Has, OwnersOK, Owns,
                OwnsMain
<1>6. TransferOK'
  BY DEF TransferOK, TypeOK, CpuOK, RetOK, LocalsOK, Ahead, Cur, Has
<1>7. SleepOK'
  BY DEF SleepOK, TypeOK, CpuOK, RetOK, Ahead, Cur
<1>8. NoLostWakeup'
  BY DEF NoLostWakeup, TypeOK, CpuOK, Has
<1>9. \A q \in Procs, b \in Bufs : Owns(q, b)' <=> Owns(q, b)
  BY DEF Owns, OwnsMain, OwnsAhead, Ahead, TypeOK, CpuOK, RetOK, LocalsOK, Cur
<1>10. FreeListExact' /\ QueueExact' /\ OneCopy' /\ OwnersOK'
  BY <1>9, SameBuffers DEF Has
<1> QED BY <1>1, <1>2, <1>3, <1>4, <1>5, <1>6, <1>7, <1>8, <1>10

LEMMA NotAvailInv ==
    ASSUME IInv, NEW p \in Procs, NotAvail(p)
    PROVE  IInv'
<1> USE CacheAssumption DEF IInv, Running, Goto, cacheVars, diskVars
<1>1. /\ cpu = p /\ pc[p] = "notavail" /\ pc' = [pc EXCEPT ![p] = ret[p]]
      /\ UNCHANGED <<blk, data, freeWanted, disk, ioq, active, errcnt, cpu, ret, req, bp,
                     abp, chan, uerror>>
  BY DEF NotAvail
<1>2. PICK b \in Bufs : b = Cur(p)
  BY <1>1 DEF LocalsOK, TypeOK, Cur
<1>3. PICK i \in DOMAIN freeList : freeList[i] = b /\ freeList' = RemoveAt(freeList, i)
  BY <1>2 DEF NotAvail
<1>4. freeList' \in Seq(Bufs) /\ Distinct(freeList') /\ Chain(freeList') = Chain(freeList) \ {b}
  BY <1>3, RemoveChain DEF TypeOK, FreeListExact
<1>5. b \in Chain(freeList) /\ freeList # <<>>
  BY <1>3 DEF Chain
<1>6. ~Has(b, "BUSY") /\ ~Has(b, "ASYNC") /\ b \notin Chain(ioq) /\ b # NoBuf
  BY <1>5 DEF FreeListExact, QueueExact, OwnersOK
<1>7. flags' = [flags EXCEPT ![b] = @ \cup {"BUSY"}]
  BY <1>2 DEF NotAvail
<1>8. \A c \in Bufs \ {b} : flags'[c] = flags[c]
  BY <1>7 DEF TypeOK
<1>9. Has(b, "BUSY")' /\ ~Has(b, "ASYNC")' /\ (Has(b, "DONE")' <=> Has(b, "DONE"))
  BY <1>6, <1>7 DEF Has, TypeOK
<1>10. Chain(ioq)' = Chain(ioq)
  BY <1>1 DEF Chain
<1>11. pc' = [pc EXCEPT ![p] = ret[p]] /\ ret[p] \in {"hold", "bread", "rafirst", "raissue"}
  BY <1>1 DEF RetOK
<1>12. blk[b] \in Blocks
  BY <1>1, <1>2 DEF NamesOK, Seeking
<1>13. TypeOK'
  BY <1>1, <1>2, <1>11, <1>4, <1>7 DEF TypeOK, Flag, Label
<1>14. CpuOK'
  BY <1>1, <1>2, <1>11 DEF CpuOK, TypeOK
<1>15. RetOK'
  BY <1>1, <1>2, <1>11 DEF RetOK, TypeOK, CpuOK, Ahead
<1>16. NamesOK'
  BY <1>1, <1>2, <1>11, <1>8, <1>12, SMTT(30) DEF NamesOK, TypeOK, CpuOK, RetOK, Ahead,
         Want, Cur, Seeking, InCore, Has
<1>17. LocalsOK'
  BY <1>1, <1>2, <1>11, <1>6, <1>8, <1>9 DEF LocalsOK, TypeOK, CpuOK, RetOK,
         Ahead, Cur, Has, OwnersOK, Owns, OwnsMain, OwnsAhead
<1>18. TransferOK'
  BY <1>1, <1>2, <1>11, <1>6, <1>8, <1>9, <1>10 DEF TransferOK, TypeOK, CpuOK,
         RetOK, LocalsOK, Ahead, Cur, Has, OwnersOK, Owns, OwnsMain,
         OwnsAhead
<1>19. SleepOK'
  BY <1>1, <1>2, <1>11 DEF SleepOK, TypeOK, CpuOK, RetOK, Ahead, Cur
<1>20. NoLostWakeup'
  BY <1>1, <1>2, <1>11, <1>5, <1>6, <1>8, <1>9, <1>10 DEF NoLostWakeup, TypeOK,
         CpuOK, Has
<1>21. \A q \in Procs, c \in Bufs : Owns(q, c)' <=> Owns(q, c) \/ (q = p /\ c = b)
  BY <1>1, <1>2, <1>6, <1>11 DEF Owns, OwnsMain, OwnsAhead, Ahead, TypeOK, CpuOK,
         RetOK, LocalsOK, Cur
<1>22. FreeListExact' /\ QueueExact' /\ OneCopy' /\ OwnersOK'
  BY <1>1, <1>4, <1>5, <1>8, <1>9, <1>21, Taken
<1> QED BY <1>13, <1>14, <1>15, <1>16, <1>17, <1>18, <1>19, <1>20, <1>22

LEMMA GetBlkNoFreeInv ==
    ASSUME IInv, NEW p \in Procs, GetBlkNoFree(p)
    PROVE  IInv'
<1> USE CacheAssumption DEF IInv, GetBlkNoFree, Running, Goto, cacheVars, diskVars,
        SleepOn
<1>1. TypeOK'
  BY DEF TypeOK, Flag, Label
<1>2. CpuOK'
  BY DEF CpuOK, TypeOK
<1>3. RetOK'
  BY DEF RetOK, TypeOK, CpuOK, Ahead
<1>4. NamesOK'
  BY DEF NamesOK, TypeOK, CpuOK, RetOK, Ahead, Want, Cur, Seeking, InCore
<1>5. LocalsOK'
  BY DEF LocalsOK, TypeOK, CpuOK, RetOK, Ahead, Cur, Has
<1>6. TransferOK'
  BY DEF TransferOK, TypeOK, CpuOK, RetOK, LocalsOK, Ahead, Cur, Has
<1>7. SleepOK'
  BY DEF SleepOK, TypeOK, CpuOK, RetOK, Ahead, Cur
<1>8. NoLostWakeup'
  BY DEF NoLostWakeup, TypeOK, CpuOK, Has
<1>9. \A q \in Procs, b \in Bufs : Owns(q, b)' <=> Owns(q, b)
  BY DEF Owns, OwnsMain, OwnsAhead, Ahead, TypeOK, CpuOK, RetOK, LocalsOK, Cur
<1>10. FreeListExact' /\ QueueExact' /\ OneCopy' /\ OwnersOK'
  BY <1>9, SameBuffers DEF Has
<1> QED BY <1>1, <1>2, <1>3, <1>4, <1>5, <1>6, <1>7, <1>8, <1>10

LEMMA GetBlkSomeFreeInv ==
    ASSUME IInv, NEW p \in Procs, GetBlkSomeFree(p)
    PROVE  IInv'
<1> USE CacheAssumption DEF IInv, GetBlkSomeFree, Running, Goto, cacheVars, diskVars
<1>1. TypeOK'
  BY DEF TypeOK, Flag, Label
<1>2. CpuOK'
  BY DEF CpuOK, TypeOK
<1>3. RetOK'
  BY DEF RetOK, TypeOK, CpuOK, Ahead
<1>4. NamesOK'
  BY DEF NamesOK, TypeOK, CpuOK, RetOK, Ahead, Want, Cur, Seeking, InCore
<1>5. LocalsOK'
  BY DEF LocalsOK, TypeOK, CpuOK, RetOK, Ahead, Cur, Has
<1>6. TransferOK'
  BY DEF TransferOK, TypeOK, CpuOK, RetOK, LocalsOK, Ahead, Cur, Has
<1>7. SleepOK'
  BY DEF SleepOK, TypeOK, CpuOK, RetOK, Ahead, Cur
<1>8. NoLostWakeup'
  BY DEF NoLostWakeup, TypeOK, CpuOK, Has
<1>9. \A q \in Procs, b \in Bufs : Owns(q, b)' <=> Owns(q, b)
  BY DEF Owns, OwnsMain, OwnsAhead, Ahead, TypeOK, CpuOK, RetOK, LocalsOK, Cur
<1>10. FreeListExact' /\ QueueExact' /\ OneCopy' /\ OwnersOK'
  BY <1>9, SameBuffers DEF Has
<1> QED BY <1>1, <1>2, <1>3, <1>4, <1>5, <1>6, <1>7, <1>8, <1>10

LEMMA TakeDirtyInv ==
    ASSUME IInv, NEW p \in Procs, TakeDirty(p)
    PROVE  IInv'
<1> USE CacheAssumption DEF IInv, Running, Goto, cacheVars, diskVars
<1>1. /\ cpu = p /\ pc[p] = "take" /\ pc' = [pc EXCEPT ![p] = "getblk"]
      /\ UNCHANGED <<blk, data, disk, freeWanted, errcnt, cpu, ret, req, bp, abp, chan, uerror>>
  BY DEF TakeDirty, Strategy
<1>2. freeList # <<>>
  BY <1>1 DEF NamesOK
<1>3. PICK b \in Bufs : b = Head(freeList)
  BY <1>2, TailChain DEF TypeOK, FreeListExact
<1>4. /\ Has(b, "DELWRI") /\ Strategy(b) /\ freeList' = Tail(freeList)
      /\ flags' = [flags EXCEPT ![b] = WriteFlags(@ \cup {"BUSY", "ASYNC"})]
  BY <1>3 DEF TakeDirty
<1>5. /\ freeList' \in Seq(Bufs) /\ Distinct(freeList')
      /\ Chain(freeList') = Chain(freeList) \ {b} /\ b \in Chain(freeList)
  BY <1>2, <1>3, <1>4, TailChain DEF TypeOK, FreeListExact
<1>6. b \in Chain(freeList) /\ freeList # <<>>
  BY <1>5, <1>2
<1>7. ~Has(b, "BUSY") /\ ~Has(b, "ASYNC") /\ b \notin Chain(ioq) /\ b # NoBuf
  BY <1>6 DEF FreeListExact, QueueExact, OwnersOK
<1>8. Has(b, "DELWRI")
  BY <1>4
<1>9. Strategy(b)
  BY <1>4 DEF Strategy
<1>10. \A c \in Bufs \ {b} : flags'[c] = flags[c]
  BY <1>4 DEF TypeOK
<1>11. Has(b, "BUSY")' /\ Has(b, "ASYNC")' /\ ~Has(b, "DONE")'
  BY <1>4 DEF Has, TypeOK, WriteFlags
<1>12. blk[b] \in Blocks
  BY <1>8 DEF NamesOK, Has
<1>13. ioq' \in Seq(Bufs) /\ Chain(ioq') = Chain(ioq) \cup {b}
  BY <1>9, <1>7, AppendChain DEF TypeOK, QueueExact, Strategy
<1>14. Chain(ioq)' = Chain(ioq')
  BY DEF Chain
<1>15. \A q \in Procs : ~Owns(q, b)
  BY <1>7 DEF OwnersOK
<1>16. \A q \in Procs : bp[q] # b /\ abp[q] # b
  BY <1>1, <1>15, <1>7 DEF Owns, OwnsMain, OwnsAhead, CpuOK, TypeOK
<1>17. TypeOK'
  BY <1>1, <1>5, <1>4, <1>13, <1>9 DEF TypeOK, Flag, Label, WriteFlags, Strategy
<1>18. CpuOK'
  BY <1>1 DEF CpuOK, TypeOK
<1>19. RetOK'
  BY <1>1 DEF RetOK, TypeOK, CpuOK, Ahead
<1>20. NamesOK'
  BY <1>1, <1>10, <1>12, ZenonT(40) DEF NamesOK, TypeOK, CpuOK, RetOK, Ahead, Want, Cur,
         Seeking, InCore, Has
<1>21. LocalsOK'
  BY <1>1, <1>7, <1>10 DEF LocalsOK, TypeOK, CpuOK, RetOK, Ahead, Cur, Has,
         OwnersOK, Owns, OwnsMain, OwnsAhead
<1>22. TransferOK'
  BY <1>1, <1>10, <1>16, <1>13, <1>14 DEF TransferOK, TypeOK, CpuOK, RetOK, LocalsOK,
         Ahead, Cur, Has
<1>23. SleepOK'
  BY <1>1 DEF SleepOK, TypeOK, CpuOK, RetOK, Ahead, Cur
<1>24. NoLostWakeup'
  BY <1>1, <1>6, <1>7, <1>10, <1>13, <1>14, SMTT(30) DEF NoLostWakeup, TypeOK, CpuOK, Has
<1>25. \A q \in Procs, c \in Bufs : Owns(q, c)' <=> Owns(q, c)
  BY <1>1 DEF Owns, OwnsMain, OwnsAhead, Ahead, TypeOK, CpuOK, RetOK,
         LocalsOK, Cur
<1>26. FreeListExact' /\ QueueExact' /\ OneCopy' /\ OwnersOK'
  BY <1>5, <1>6, <1>10, <1>11, <1>9, <1>1, <1>25, Flushed
<1> QED BY <1>17, <1>18, <1>19, <1>20, <1>21, <1>22, <1>23, <1>24, <1>26

LEMMA TakeCleanInv ==
    ASSUME IInv, NEW p \in Procs, TakeClean(p)
    PROVE  IInv'
<1> USE CacheAssumption DEF IInv, Running, Goto, cacheVars, diskVars
<1>1. /\ cpu = p /\ pc[p] = "take" /\ pc' = [pc EXCEPT ![p] = ret[p]]
      /\ UNCHANGED <<data, disk, freeWanted, ioq, active, errcnt, cpu, ret, req, chan, uerror>>
  BY DEF TakeClean
<1>2. freeList # <<>>
  BY <1>1 DEF NamesOK
<1>3. PICK b \in Bufs : b = Head(freeList)
  BY <1>2, TailChain DEF TypeOK, FreeListExact
<1>4. /\ flags' = [flags EXCEPT ![b] = {"BUSY"}] /\ blk' = [blk EXCEPT ![b] = Want(p)]
      /\ freeList' = Tail(freeList)
  BY <1>3 DEF TakeClean
<1>5. IF Ahead(p) THEN abp' = [abp EXCEPT ![p] = b] /\ bp' = bp
                  ELSE bp' = [bp EXCEPT ![p] = b] /\ abp' = abp
  BY <1>3 DEF TakeClean, SetCur
<1>6. /\ freeList' \in Seq(Bufs) /\ Distinct(freeList')
      /\ Chain(freeList') = Chain(freeList) \ {b} /\ b \in Chain(freeList)
  BY <1>2, <1>3, <1>4, TailChain DEF TypeOK, FreeListExact
<1>7. b \in Chain(freeList) /\ freeList # <<>>
  BY <1>6, <1>2
<1>8. ~Has(b, "BUSY") /\ ~Has(b, "ASYNC") /\ b \notin Chain(ioq) /\ b # NoBuf
  BY <1>7 DEF FreeListExact, QueueExact, OwnersOK
<1>9. \A c \in Bufs \ {b} : flags'[c] = flags[c] /\ blk'[c] = blk[c]
  BY <1>4 DEF TypeOK
<1>10. Has(b, "BUSY")' /\ ~Has(b, "ASYNC")'
  BY <1>4 DEF Has, TypeOK
<1>11. blk'[b] = Want(p) /\ Want(p) \in Blocks /\ \A c \in Bufs : blk[c] # blk'[b]
  BY <1>1, <1>4 DEF TypeOK, NamesOK, Seeking, InCore
<1>12. bp' \in [Procs -> Bufs \cup {NoBuf}] /\ abp' \in [Procs -> Bufs \cup {NoBuf}]
  BY <1>5, SMTT(30) DEF TypeOK
<1>13. blk' \in [Bufs -> Blocks \cup {NoBlock}]
  BY <1>4, <1>11 DEF TypeOK
<1>14. flags' \in [Bufs -> SUBSET Flag]
  BY <1>4 DEF TypeOK, Flag
<1>15. Chain(ioq)' = Chain(ioq)
  BY <1>1 DEF Chain
<1>16. pc' = [pc EXCEPT ![p] = ret[p]] /\ ret[p] \in {"hold", "bread", "rafirst", "raissue"}
  BY <1>1 DEF RetOK
<1>17. \A c \in Bufs : flags'[c] # {} => blk'[c] \in Blocks
  BY <1>9, <1>11 DEF NamesOK
<1>18. \A q \in Procs : ~Seeking(q)' \/ (q # p /\ pc[q] = "getblk" /\ pc'[q] = pc[q])
  BY <1>1, <1>16 DEF Seeking, CpuOK, TypeOK
<1>19. TypeOK'
  BY <1>1, <1>5, <1>16, <1>6, <1>12, <1>13, <1>14 DEF TypeOK, Flag, Label
<1>20. CpuOK'
  BY <1>1, <1>5, <1>16 DEF CpuOK, TypeOK
<1>21. RetOK'
  BY <1>1, <1>5, <1>16 DEF RetOK, TypeOK, CpuOK, Ahead
<1>22. NamesOK'
  BY <1>1, <1>5, <1>16, <1>17, <1>18 DEF NamesOK, TypeOK, CpuOK, RetOK, Ahead, Want,
         Cur, Seeking, InCore
<1>23. LocalsOK'
  BY <1>1, <1>5, <1>16, <1>8, <1>9 DEF LocalsOK, TypeOK, CpuOK, RetOK, Ahead,
         Cur, Has, OwnersOK, Owns, OwnsMain, OwnsAhead
<1>24. TransferOK'
  BY <1>1, <1>5, <1>16, <1>8, <1>9, <1>15 DEF TransferOK, TypeOK, CpuOK, RetOK,
         LocalsOK, Ahead, Cur, Has, OwnersOK, Owns, OwnsMain, OwnsAhead
<1>25. SleepOK'
  BY <1>1, <1>5, <1>16 DEF SleepOK, TypeOK, CpuOK, RetOK, Ahead, Cur
<1>26. NoLostWakeup'
  BY <1>1, <1>5, <1>16, <1>7, <1>8, <1>9, <1>15 DEF NoLostWakeup, TypeOK, CpuOK,
         Has
<1>27. \A q \in Procs, c \in Bufs : Owns(q, c)' <=> Owns(q, c) \/ (q = p /\ c = b)
  BY <1>1, <1>5, <1>8, <1>16 DEF Owns, OwnsMain, OwnsAhead, Ahead, TypeOK,
         CpuOK, RetOK, LocalsOK, Cur, OwnersOK
<1>28. FreeListExact' /\ QueueExact' /\ OneCopy' /\ OwnersOK'
  BY <1>1, <1>7, <1>6, <1>9, <1>10, <1>11, <1>27, Taken
<1> QED BY <1>19, <1>20, <1>21, <1>22, <1>23, <1>24, <1>25, <1>26, <1>28

LEMMA BrelseInv ==
    ASSUME IInv, NEW p \in Procs, Brelse(p)
    PROVE  IInv'
<1> USE CacheAssumption DEF IInv, Brelse, Running, Goto, cacheVars, diskVars
<1>1. TypeOK'
  BY DEF TypeOK, Flag, Label
<1>2. CpuOK'
  BY DEF CpuOK, TypeOK
<1>3. RetOK'
  BY DEF RetOK, TypeOK, CpuOK, Ahead
<1>4. NamesOK'
  BY DEF NamesOK, TypeOK, CpuOK, RetOK, Ahead, Want, Cur, Seeking, InCore
<1>5. LocalsOK'
  BY DEF LocalsOK, TypeOK, CpuOK, RetOK, Ahead, Cur, Has
<1>6. TransferOK'
  BY DEF TransferOK, TypeOK, CpuOK, RetOK, LocalsOK, Ahead, Cur, Has
<1>7. SleepOK'
  BY DEF SleepOK, TypeOK, CpuOK, RetOK, Ahead, Cur, NoLostWakeup, LocalsOK,
                OwnersOK, Owns, OwnsMain, OwnsAhead, Has
<1>8. NoLostWakeup'
  BY DEF NoLostWakeup, TypeOK, CpuOK, Has
<1>9. \A q \in Procs, b \in Bufs : Owns(q, b)' <=> Owns(q, b)
  BY DEF Owns, OwnsMain, OwnsAhead, Ahead, TypeOK, CpuOK, RetOK, LocalsOK, Cur
<1>10. FreeListExact' /\ QueueExact' /\ OneCopy' /\ OwnersOK'
  BY <1>9, SameBuffers DEF Has
<1> QED BY <1>1, <1>2, <1>3, <1>4, <1>5, <1>6, <1>7, <1>8, <1>10

LEMMA PutFreeInv ==
    ASSUME IInv, NEW p \in Procs, PutFree(p)
    PROVE  IInv'
<1> USE CacheAssumption DEF IInv, Running, Goto, cacheVars, diskVars, PutFree, SetCur,
        Leave
<1>1. PICK b \in Bufs : b = Cur(p)
  BY DEF LocalsOK, TypeOK, Cur
<1>2. b # NoBuf /\ b \notin Chain(ioq)
  BY <1>1 DEF TransferOK
<1>3. Owns(p, b) /\ Has(b, "BUSY") /\ ~Has(b, "ASYNC")
  BY <1>1, <1>2 DEF OwnersOK, Owns, OwnsMain, OwnsAhead, Cur
<1>4. freeList' = Append(freeList, b) /\ freeList' \in Seq(Bufs)
  BY <1>1, <1>3, AppendChain DEF TypeOK, FreeListExact
<1>5. flags' = [flags EXCEPT ![b] = @ \ {"WANTED", "BUSY", "ASYNC"}]
  BY <1>1
<1>6. \A c \in Bufs \ {b} : flags'[c] = flags[c]
  BY <1>5 DEF TypeOK
<1>7. ~Has(b, "BUSY")' /\ ~Has(b, "ASYNC")' /\ (Has(b, "DONE")' <=> Has(b, "DONE"))
  BY <1>5 DEF Has, TypeOK
<1>8. flags[b] # {} /\ flags'[b] \subseteq flags[b]
  BY <1>5, <1>3 DEF Has, TypeOK
<1>9. Chain(ioq)' = Chain(ioq)
  BY DEF Chain
<1>10. \/ /\ ret[p] = "user" /\ pc' = [pc EXCEPT ![p] = "user"] /\ cpu' = NoProc
          /\ req' = [req EXCEPT ![p] = NoReq]
       \/ ret[p] = "rafinish" /\ pc' = [pc EXCEPT ![p] = "rafinish"] /\ cpu' = p /\ req' = req
  OBVIOUS
<1>11. ret' \in [Procs -> Label] /\ \A q \in Procs : ret'[q] = ret[q]
  BY DEF TypeOK, Label
<1>12. IF Ahead(p) THEN abp' = [abp EXCEPT ![p] = NoBuf] /\ bp' = bp
                   ELSE bp' = [bp EXCEPT ![p] = NoBuf] /\ abp' = abp
  BY DEF RetOK
<1>13. bp' \in [Procs -> Bufs \cup {NoBuf}] /\ abp' \in [Procs -> Bufs \cup {NoBuf}]
  BY <1>12, ZenonT(40) DEF TypeOK
<1>14. req' \in [Procs -> Request \cup {NoReq}]
  BY <1>10 DEF TypeOK
<1>15. cpu' \in Procs \cup {NoProc} /\ pc' \in [Procs -> Label]
  BY <1>10 DEF TypeOK, Label
<1>16. flags'[b] = flags[b] \ {"WANTED", "BUSY", "ASYNC"}
  BY <1>5 DEF TypeOK
<1>17. \A c \in Bufs : flags'[c] \subseteq flags[c]
  BY <1>16, <1>6
<1>18. flags' \in [Bufs -> SUBSET Flag]
  BY <1>5, <1>17 DEF TypeOK
<1>19. \A q \in Procs : /\ Ahead(q)' <=> Ahead(q)
                        /\ Ahead(q) \/ pc'[q] \in {"incore", "ranext"} => req'[q] = req[q]
  BY <1>10, <1>11 DEF Ahead, TypeOK, CpuOK
<1>20. TypeOK'
  BY <1>10, <1>12, <1>11, <1>4, <1>13, <1>14, <1>15, <1>18 DEF TypeOK, Flag, Label
<1>21. CpuOK'
  BY <1>10, <1>12, <1>11 DEF CpuOK, TypeOK
<1>22. RetOK'
  BY <1>10, <1>12, <1>11 DEF RetOK, TypeOK, CpuOK, Ahead
<1>23. NamesOK'
  BY <1>10, <1>12, <1>11, <1>17, <1>19 DEF NamesOK, TypeOK, CpuOK, RetOK, Ahead, Want,
         Cur, Seeking, InCore
<1>24. LocalsOK'
  BY <1>10, <1>12, <1>11, <1>3, <1>6, <1>1 DEF LocalsOK, TypeOK, CpuOK, RetOK, Ahead,
         Cur, Has, OwnersOK, Owns, OwnsMain, OwnsAhead
<1>25. TransferOK'
  BY <1>10, <1>12, <1>11, <1>6, <1>7, <1>9, <1>1 DEF TransferOK, TypeOK, CpuOK,
         RetOK, LocalsOK, Ahead, Cur, Has, OwnersOK, Owns, OwnsMain,
         OwnsAhead
<1>26. SleepOK'
  BY <1>10, <1>12, <1>11 DEF SleepOK, TypeOK, CpuOK, RetOK, Ahead, Cur
<1>27. NoLostWakeup'
  BY <1>10, <1>12, <1>11, <1>6, <1>9, <1>1 DEF NoLostWakeup, TypeOK, CpuOK, Has,
         SleepOK
<1>28. \A q \in Procs, c \in Bufs : Owns(q, c)' <=> Owns(q, c) /\ c # b
  BY <1>1, <1>2, <1>3, <1>12, <1>10, <1>11 DEF Owns, OwnsMain, OwnsAhead, Ahead,
         TypeOK, CpuOK, RetOK, LocalsOK, Cur, OwnersOK
<1>29. FreeListExact' /\ QueueExact' /\ OneCopy' /\ OwnersOK'
  BY <1>2, <1>3, <1>4, <1>6, <1>7, <1>28, Freed
<1> QED BY <1>20, <1>21, <1>22, <1>23, <1>24, <1>25, <1>26, <1>27, <1>29

LEMMA BreadHitInv ==
    ASSUME IInv, NEW p \in Procs, BreadHit(p)
    PROVE  IInv'
<1> USE CacheAssumption DEF IInv, BreadHit, Running, Goto, cacheVars, diskVars, Has
<1>1. TypeOK'
  BY DEF TypeOK, Flag, Label
<1>2. CpuOK'
  BY DEF CpuOK, TypeOK
<1>3. RetOK'
  BY DEF RetOK, TypeOK, CpuOK, Ahead
<1>4. NamesOK'
  BY DEF NamesOK, TypeOK, CpuOK, RetOK, Ahead, Want, Cur, Seeking, InCore
<1>5. LocalsOK'
  BY DEF LocalsOK, TypeOK, CpuOK, RetOK, Ahead, Cur, Has
<1>6. TransferOK'
  BY DEF TransferOK, TypeOK, CpuOK, RetOK, LocalsOK, Ahead, Cur, Has
<1>7. SleepOK'
  BY DEF SleepOK, TypeOK, CpuOK, RetOK, Ahead, Cur
<1>8. NoLostWakeup'
  BY DEF NoLostWakeup, TypeOK, CpuOK, Has
<1>9. \A q \in Procs, b \in Bufs : Owns(q, b)' <=> Owns(q, b)
  BY DEF Owns, OwnsMain, OwnsAhead, Ahead, TypeOK, CpuOK, RetOK, LocalsOK, Cur
<1>10. FreeListExact' /\ QueueExact' /\ OneCopy' /\ OwnersOK'
  BY <1>9, SameBuffers DEF Has
<1> QED BY <1>1, <1>2, <1>3, <1>4, <1>5, <1>6, <1>7, <1>8, <1>10

LEMMA BreadMissInv ==
    ASSUME IInv, NEW p \in Procs, BreadMiss(p)
    PROVE  IInv'
<1> USE CacheAssumption DEF IInv, BreadMiss, Running, Goto, cacheVars, diskVars,
        Strategy
<1>1. bp[p] \in Bufs /\ bp[p] \notin Chain(ioq) /\ bp[p] # NoBuf
  BY DEF LocalsOK, TransferOK, Cur, RetOK, Ahead, TypeOK
<1>2. Owns(p, bp[p]) /\ Has(bp[p], "BUSY") /\ ~Has(bp[p], "ASYNC")
  BY <1>1 DEF OwnersOK, Owns, OwnsMain, OwnsAhead, RetOK, Ahead
<1>3. /\ ioq' \in Seq(Bufs)
      /\ Chain(ioq') = Chain(ioq) \cup {bp[p]}
  BY <1>1, AppendChain DEF TypeOK, QueueExact
<1>4. Chain(ioq)' = Chain(ioq')
  BY DEF Chain
<1>5. \A c \in Bufs \ {bp[p]} : flags'[c] = flags[c]
  BY <1>1 DEF TypeOK
<1>6. TypeOK'
  BY <1>1, <1>3, <1>4 DEF TypeOK, Flag, Label
<1>7. CpuOK'
  BY <1>1, <1>3, <1>4 DEF CpuOK, TypeOK
<1>8. RetOK'
  BY <1>1, <1>3, <1>4 DEF RetOK, TypeOK, CpuOK, Ahead
<1>9. NamesOK'
  BY <1>1, <1>3, <1>4, <1>2, <1>5 DEF NamesOK, TypeOK, CpuOK, RetOK, Ahead,
            Want, Cur, Seeking, InCore, Has
<1>10. LocalsOK'
  BY <1>1, <1>3, <1>4, <1>2, <1>5 DEF LocalsOK, TypeOK, CpuOK, RetOK, Ahead,
            Cur, Has, OwnersOK, Owns, OwnsMain
<1>11. TransferOK'
  BY <1>1, <1>3, <1>4, <1>2, <1>5 DEF TransferOK, TypeOK, CpuOK, RetOK,
            LocalsOK, Ahead, Cur, Has, OwnersOK, Owns, OwnsMain,
            OwnsAhead
<1>12. SleepOK'
  BY <1>1, <1>3, <1>4 DEF SleepOK, TypeOK, CpuOK, RetOK, Ahead, Cur
<1>13. NoLostWakeup'
  BY <1>1, <1>3, <1>4, <1>5 DEF NoLostWakeup, TypeOK, CpuOK, Has, LocalsOK
<1>14. \A q \in Procs, c \in Bufs : Owns(q, c)' <=> Owns(q, c)
  BY DEF Owns, OwnsMain, OwnsAhead, Ahead, TypeOK, CpuOK, RetOK, LocalsOK, Cur
<1>15. Has(bp[p], "BUSY")' /\ ~Has(bp[p], "DONE")' /\ ~Has(bp[p], "ASYNC")'
  BY <1>1, <1>2 DEF Has, TypeOK, Flag
<1>16. Strategy(bp[p])
  BY <1>1
<1>17. FreeListExact' /\ QueueExact' /\ OneCopy' /\ OwnersOK'
  BY <1>1, <1>2, <1>5, <1>14, <1>16, <1>15, Enqueued
<1> QED BY <1>6, <1>7, <1>8, <1>9, <1>10, <1>11, <1>12, <1>13, <1>15, <1>16, <1>17

LEMMA BreadaFirstInv ==
    ASSUME IInv, NEW p \in Procs, BreadaFirst(p)
    PROVE  IInv'
<1> USE CacheAssumption DEF IInv, BreadaFirst, Running, Goto, cacheVars, diskVars
<1>1. TypeOK'
  BY DEF TypeOK, Flag, Label
<1>2. CpuOK'
  BY DEF CpuOK, TypeOK
<1>3. RetOK'
  BY DEF RetOK, TypeOK, CpuOK, Ahead
<1>4. NamesOK'
  BY DEF NamesOK, TypeOK, CpuOK, RetOK, Ahead, Want, Cur, Seeking, InCore
<1>5. LocalsOK'
  BY DEF LocalsOK, TypeOK, CpuOK, RetOK, Ahead, Cur, Has
<1>6. TransferOK'
  BY DEF TransferOK, TypeOK, CpuOK, RetOK, LocalsOK, Ahead, Cur, Has
<1>7. SleepOK'
  BY DEF SleepOK, TypeOK, CpuOK, RetOK, Ahead, Cur
<1>8. NoLostWakeup'
  BY DEF NoLostWakeup, TypeOK, CpuOK, Has
<1>9. \A q \in Procs, b \in Bufs : Owns(q, b)' <=> Owns(q, b)
  BY DEF Owns, OwnsMain, OwnsAhead, Ahead, TypeOK, CpuOK, RetOK, LocalsOK, Cur
<1>10. FreeListExact' /\ QueueExact' /\ OneCopy' /\ OwnersOK'
  BY <1>9, SameBuffers DEF Has
<1> QED BY <1>1, <1>2, <1>3, <1>4, <1>5, <1>6, <1>7, <1>8, <1>10

LEMMA BreadaStartSkipInv ==
    ASSUME IInv, NEW p \in Procs, Has(bp[p], "DONE"), BreadaStart(p)
    PROVE  IInv'
<1> USE CacheAssumption DEF IInv, BreadaStart, Strategy, Has, Running, Goto, cacheVars,
        diskVars
<1>1. TypeOK'
  BY DEF TypeOK, Flag, Label
<1>2. CpuOK'
  BY DEF CpuOK, TypeOK
<1>3. RetOK'
  BY DEF RetOK, TypeOK, CpuOK, Ahead
<1>4. NamesOK'
  BY DEF NamesOK, TypeOK, CpuOK, RetOK, Ahead, Want, Cur, Seeking, InCore
<1>5. LocalsOK'
  BY DEF LocalsOK, TypeOK, CpuOK, RetOK, Ahead, Cur, Has
<1>6. TransferOK'
  BY DEF TransferOK, TypeOK, CpuOK, RetOK, LocalsOK, Ahead, Cur, Has
<1>7. SleepOK'
  BY DEF SleepOK, TypeOK, CpuOK, RetOK, Ahead, Cur
<1>8. NoLostWakeup'
  BY DEF NoLostWakeup, TypeOK, CpuOK, Has
<1>9. \A q \in Procs, b \in Bufs : Owns(q, b)' <=> Owns(q, b)
  BY DEF Owns, OwnsMain, OwnsAhead, Ahead, TypeOK, CpuOK, RetOK, LocalsOK, Cur
<1>10. FreeListExact' /\ QueueExact' /\ OneCopy' /\ OwnersOK'
  BY <1>9, SameBuffers DEF Has
<1> QED BY <1>1, <1>2, <1>3, <1>4, <1>5, <1>6, <1>7, <1>8, <1>10

LEMMA BreadaStartReadInv ==
    ASSUME IInv, NEW p \in Procs, BreadaStart(p), ~Has(bp[p], "DONE")
    PROVE  IInv'
<1> USE CacheAssumption DEF IInv, Running, Goto, cacheVars, diskVars
<1>1. /\ cpu = p /\ pc[p] = "rafirst" /\ pc' = [pc EXCEPT ![p] = "ranext"]
      /\ flags' = [flags EXCEPT ![bp[p]] = @ \cup {"READ"}] /\ Strategy(bp[p])
      /\ UNCHANGED <<blk, data, freeList, freeWanted, cpu, ret, req, bp, abp, chan, uerror>>
  BY DEF BreadaStart
<1>2. PICK b \in Bufs : b = bp[p] /\ b \notin Chain(ioq) /\ b # NoBuf
  BY <1>1 DEF LocalsOK, TransferOK, TypeOK
<1>3. Strategy(b) /\ flags' = [flags EXCEPT ![b] = @ \cup {"READ"}] /\ ~Has(b, "DONE")
  BY <1>1, <1>2
<1>4. Owns(p, b) /\ Has(b, "BUSY") /\ ~Has(b, "ASYNC")
  BY <1>1, <1>2 DEF OwnersOK, Owns, OwnsMain
<1>5. /\ ioq' \in Seq(Bufs) /\ Chain(ioq') = Chain(ioq) \cup {b}
      /\ active' \in {0, 1} /\ UNCHANGED <<disk, errcnt>>
  BY <1>2, <1>3, AppendChain DEF TypeOK, QueueExact, Strategy
<1>6. Chain(ioq)' = Chain(ioq')
  BY DEF Chain
<1>7. \A c \in Bufs \ {b} : flags'[c] = flags[c]
  BY <1>3 DEF TypeOK
<1>8. Has(b, "BUSY")' /\ ~Has(b, "DONE")' /\ ~Has(b, "ASYNC")'
  BY <1>3, <1>4 DEF Has, TypeOK
<1>9. \A c \in Bufs : flags'[c] # {} => blk[c] \in Blocks
  BY <1>4, <1>7 DEF NamesOK, Has
<1>10. TypeOK'
  BY <1>1, <1>2, <1>5, <1>3 DEF TypeOK, Flag, Label
<1>11. CpuOK'
  BY <1>1, <1>2 DEF CpuOK, TypeOK
<1>12. RetOK'
  BY <1>1, <1>2 DEF RetOK, TypeOK, CpuOK, Ahead
<1>13. NamesOK'
  BY <1>1, <1>2, <1>9 DEF NamesOK, TypeOK, CpuOK, RetOK, Ahead, Want, Cur,
         Seeking, InCore
<1>14. LocalsOK'
  BY <1>1, <1>2, <1>4, <1>7 DEF LocalsOK, TypeOK, CpuOK, RetOK, Ahead, Cur, Has,
         OwnersOK, Owns, OwnsMain, OwnsAhead
<1>15. TransferOK'
  BY <1>1, <1>2, <1>4, <1>7, <1>5, <1>6 DEF TransferOK, TypeOK, CpuOK, RetOK,
         LocalsOK, Ahead, Cur, Has, OwnersOK, Owns, OwnsMain, OwnsAhead
<1>16. SleepOK'
  BY <1>1, <1>2 DEF SleepOK, TypeOK, CpuOK, RetOK, Ahead, Cur
<1>17. NoLostWakeup'
  BY <1>1, <1>2, <1>5, <1>6, <1>7, <1>3 DEF NoLostWakeup, TypeOK, CpuOK, Has
<1>18. \A q \in Procs, c \in Bufs : Owns(q, c)' <=> Owns(q, c)
  BY <1>1 DEF Owns, OwnsMain, OwnsAhead, Ahead, TypeOK, CpuOK, RetOK,
         LocalsOK, Cur
<1>19. FreeListExact' /\ QueueExact' /\ OneCopy' /\ OwnersOK'
  BY <1>1, <1>2, <1>4, <1>3, <1>7, <1>8, <1>18, Enqueued
<1> QED BY <1>10, <1>11, <1>12, <1>13, <1>14, <1>15, <1>16, <1>17, <1>19

LEMMA BreadaNextInv ==
    ASSUME IInv, NEW p \in Procs, BreadaNext(p)
    PROVE  IInv'
<1> USE CacheAssumption DEF IInv, BreadaNext, Running, Goto, cacheVars, diskVars
<1>1. TypeOK'
  BY DEF TypeOK, Flag, Label
<1>2. CpuOK'
  BY DEF CpuOK, TypeOK
<1>3. RetOK'
  BY DEF RetOK, TypeOK, CpuOK, Ahead
<1>4. NamesOK'
  BY DEF NamesOK, TypeOK, CpuOK, RetOK, Ahead, Want, Cur, Seeking, InCore,
                Request, NoReq
<1>5. LocalsOK'
  BY DEF LocalsOK, TypeOK, CpuOK, RetOK, Ahead, Cur, Has
<1>6. TransferOK'
  BY DEF TransferOK, TypeOK, CpuOK, RetOK, LocalsOK, Ahead, Cur, Has
<1>7. SleepOK'
  BY DEF SleepOK, TypeOK, CpuOK, RetOK, Ahead, Cur
<1>8. NoLostWakeup'
  BY DEF NoLostWakeup, TypeOK, CpuOK, Has
<1>9. \A q \in Procs, b \in Bufs : Owns(q, b)' <=> Owns(q, b)
  BY DEF Owns, OwnsMain, OwnsAhead, Ahead, TypeOK, CpuOK, RetOK, LocalsOK, Cur
<1>10. FreeListExact' /\ QueueExact' /\ OneCopy' /\ OwnersOK'
  BY <1>9, SameBuffers DEF Has
<1> QED BY <1>1, <1>2, <1>3, <1>4, <1>5, <1>6, <1>7, <1>8, <1>10

LEMMA BreadaAheadHitInv ==
    ASSUME IInv, NEW p \in Procs, BreadaAheadHit(p)
    PROVE  IInv'
<1> USE CacheAssumption DEF IInv, BreadaAheadHit, Running, Goto, cacheVars, diskVars,
        Has
<1>1. TypeOK'
  BY DEF TypeOK, Flag, Label
<1>2. CpuOK'
  BY DEF CpuOK, TypeOK
<1>3. RetOK'
  BY DEF RetOK, TypeOK, CpuOK, Ahead
<1>4. NamesOK'
  BY DEF NamesOK, TypeOK, CpuOK, RetOK, Ahead, Want, Cur, Seeking, InCore
<1>5. LocalsOK'
  BY DEF LocalsOK, TypeOK, CpuOK, RetOK, Ahead, Cur, Has
<1>6. TransferOK'
  BY DEF TransferOK, TypeOK, CpuOK, RetOK, LocalsOK, Ahead, Cur, Has
<1>7. SleepOK'
  BY DEF SleepOK, TypeOK, CpuOK, RetOK, Ahead, Cur
<1>8. NoLostWakeup'
  BY DEF NoLostWakeup, TypeOK, CpuOK, Has
<1>9. \A q \in Procs, b \in Bufs : Owns(q, b)' <=> Owns(q, b)
  BY DEF Owns, OwnsMain, OwnsAhead, Ahead, TypeOK, CpuOK, RetOK, LocalsOK, Cur
<1>10. FreeListExact' /\ QueueExact' /\ OneCopy' /\ OwnersOK'
  BY <1>9, SameBuffers DEF Has
<1> QED BY <1>1, <1>2, <1>3, <1>4, <1>5, <1>6, <1>7, <1>8, <1>10

LEMMA BreadaAheadMissInv ==
    ASSUME IInv, NEW p \in Procs, BreadaAheadMiss(p)
    PROVE  IInv'
<1> USE CacheAssumption DEF IInv, BreadaAheadMiss, Running, Goto, cacheVars, diskVars,
        Strategy
<1>1. PICK b \in Bufs : b = abp[p] /\ b \notin Chain(ioq) /\ b # NoBuf
  BY DEF LocalsOK, TransferOK, Cur, RetOK, Ahead, TypeOK
<1>2. Owns(p, b) /\ Has(b, "BUSY") /\ ~Has(b, "ASYNC")
  BY <1>1 DEF OwnersOK, Owns, OwnsMain, OwnsAhead, RetOK, Ahead
<1>3. /\ ioq' \in Seq(Bufs)
      /\ Chain(ioq') = Chain(ioq) \cup {b}
  BY <1>1, AppendChain DEF TypeOK, QueueExact
<1>4. Chain(ioq)' = Chain(ioq')
  BY DEF Chain
<1>5. \A c \in Bufs \ {b} : flags'[c] = flags[c]
  BY <1>1 DEF TypeOK
<1>6. TypeOK'
  BY <1>1, <1>3, <1>4 DEF TypeOK, Flag, Label
<1>7. CpuOK'
  BY <1>1, <1>3, <1>4 DEF CpuOK, TypeOK
<1>8. RetOK'
  BY <1>1, <1>3, <1>4 DEF RetOK, TypeOK, CpuOK, Ahead
<1>9. NamesOK'
  BY <1>1, <1>3, <1>4, <1>2, <1>5 DEF NamesOK, TypeOK, CpuOK, RetOK, Ahead,
            Want, Cur, Seeking, InCore, Has
<1>10. LocalsOK'
  BY <1>1, <1>3, <1>4, <1>2, <1>5 DEF LocalsOK, TypeOK, CpuOK, RetOK, Ahead,
            Cur, Has, OwnersOK, Owns, OwnsMain
<1>11. TransferOK'
  BY <1>1, <1>3, <1>4, <1>2, <1>5 DEF TransferOK, TypeOK, CpuOK, RetOK,
            LocalsOK, Ahead, Cur, Has, OwnersOK, Owns, OwnsMain,
            OwnsAhead
<1>12. SleepOK'
  BY <1>1, <1>3, <1>4 DEF SleepOK, TypeOK, CpuOK, RetOK, Ahead, Cur
<1>13. NoLostWakeup'
  BY <1>1, <1>3, <1>4, <1>5 DEF NoLostWakeup, TypeOK, CpuOK, Has, LocalsOK
<1>14. /\ \A q \in Procs, c \in Bufs \ {b} : Owns(q, c)' <=> Owns(q, c)
      /\ \A q \in Procs : ~Owns(q, b)'
  BY <1>1, <1>2 DEF Owns, OwnsMain, OwnsAhead, Ahead, TypeOK, CpuOK, RetOK, LocalsOK,
     Cur, OwnersOK
<1>15. Has(b, "BUSY")' /\ ~Has(b, "DONE")' /\ Has(b, "ASYNC")'
  BY <1>1, <1>2 DEF Has, TypeOK, Flag
<1>16. Strategy(b)
  BY <1>1
<1>17. FreeListExact' /\ QueueExact' /\ OneCopy' /\ OwnersOK'
  BY <1>1, <1>2, <1>5, <1>14, <1>16, <1>15, Enqueued
<1> QED BY <1>6, <1>7, <1>8, <1>9, <1>10, <1>11, <1>12, <1>13, <1>15, <1>16, <1>17

LEMMA BreadaFinishInv ==
    ASSUME IInv, NEW p \in Procs, BreadaFinish(p)
    PROVE  IInv'
<1> USE CacheAssumption DEF IInv, BreadaFinish, Running, Goto, cacheVars, diskVars
<1>1. TypeOK'
  BY DEF TypeOK, Flag, Label
<1>2. CpuOK'
  BY DEF CpuOK, TypeOK
<1>3. RetOK'
  BY DEF RetOK, TypeOK, CpuOK, Ahead
<1>4. NamesOK'
  BY DEF NamesOK, TypeOK, CpuOK, RetOK, Ahead, Want, Cur, Seeking, InCore
<1>5. LocalsOK'
  BY DEF LocalsOK, TypeOK, CpuOK, RetOK, Ahead, Cur, Has
<1>6. TransferOK'
  BY DEF TransferOK, TypeOK, CpuOK, RetOK, LocalsOK, Ahead, Cur, Has
<1>7. SleepOK'
  BY DEF SleepOK, TypeOK, CpuOK, RetOK, Ahead, Cur
<1>8. NoLostWakeup'
  BY DEF NoLostWakeup, TypeOK, CpuOK, Has
<1>9. \A q \in Procs, b \in Bufs : Owns(q, b)' <=> Owns(q, b)
  BY DEF Owns, OwnsMain, OwnsAhead, Ahead, TypeOK, CpuOK, RetOK, LocalsOK, Cur
<1>10. FreeListExact' /\ QueueExact' /\ OneCopy' /\ OwnersOK'
  BY <1>9, SameBuffers DEF Has
<1> QED BY <1>1, <1>2, <1>3, <1>4, <1>5, <1>6, <1>7, <1>8, <1>10

LEMMA IOWaitSleepInv ==
    ASSUME IInv, NEW p \in Procs, IOWaitSleep(p)
    PROVE  IInv'
<1> USE CacheAssumption DEF IInv, IOWaitSleep, Running, Goto, cacheVars, diskVars,
        SleepOn
<1>1. TypeOK'
  BY DEF TypeOK, Flag, Label
<1>2. CpuOK'
  BY DEF CpuOK, TypeOK
<1>3. RetOK'
  BY DEF RetOK, TypeOK, CpuOK, Ahead
<1>4. NamesOK'
  BY DEF NamesOK, TypeOK, CpuOK, RetOK, Ahead, Want, Cur, Seeking, InCore
<1>5. LocalsOK'
  BY DEF LocalsOK, TypeOK, CpuOK, RetOK, Ahead, Cur, Has
<1>6. TransferOK'
  BY DEF TransferOK, TypeOK, CpuOK, RetOK, LocalsOK, Ahead, Cur, Has
<1>7. SleepOK'
  BY DEF SleepOK, TypeOK, CpuOK, RetOK, Ahead, Cur
<1>8. NoLostWakeup'
  BY DEF NoLostWakeup, TypeOK, CpuOK, Has, LocalsOK, TransferOK
<1>9. \A q \in Procs, b \in Bufs : Owns(q, b)' <=> Owns(q, b)
  BY DEF Owns, OwnsMain, OwnsAhead, Ahead, TypeOK, CpuOK, RetOK, LocalsOK, Cur
<1>10. FreeListExact' /\ QueueExact' /\ OneCopy' /\ OwnersOK'
  BY <1>9, SameBuffers DEF Has
<1> QED BY <1>1, <1>2, <1>3, <1>4, <1>5, <1>6, <1>7, <1>8, <1>10

LEMMA IOWaitDoneInv ==
    ASSUME IInv, NEW p \in Procs, IOWaitDone(p)
    PROVE  IInv'
<1> USE CacheAssumption DEF IInv, IOWaitDone, Running, Goto, cacheVars, diskVars
<1>1. TypeOK'
  BY DEF TypeOK, Flag, Label
<1>2. CpuOK'
  BY DEF CpuOK, TypeOK, RetOK
<1>3. RetOK'
  BY DEF RetOK, TypeOK, CpuOK, Ahead
<1>4. NamesOK'
  BY DEF NamesOK, TypeOK, CpuOK, RetOK, Ahead, Want, Cur, Seeking, InCore
<1>5. LocalsOK'
  BY DEF LocalsOK, TypeOK, CpuOK, RetOK, Ahead, Cur, Has
<1>6. TransferOK'
  BY DEF TransferOK, TypeOK, CpuOK, RetOK, LocalsOK, Ahead, Cur, Has,
                QueueExact
<1>7. SleepOK'
  BY DEF SleepOK, TypeOK, CpuOK, RetOK, Ahead, Cur
<1>8. NoLostWakeup'
  BY DEF NoLostWakeup, TypeOK, CpuOK, Has
<1>9. \A q \in Procs, b \in Bufs : Owns(q, b)' <=> Owns(q, b)
  BY DEF Owns, OwnsMain, OwnsAhead, Ahead, TypeOK, CpuOK, RetOK, LocalsOK, Cur
<1>10. FreeListExact' /\ QueueExact' /\ OneCopy' /\ OwnersOK'
  BY <1>9, SameBuffers DEF Has
<1> QED BY <1>1, <1>2, <1>3, <1>4, <1>5, <1>6, <1>7, <1>8, <1>10

LEMMA ReleaseInv ==
    ASSUME IInv, NEW p \in Procs, Release(p)
    PROVE  IInv'
<1> USE CacheAssumption DEF IInv, Release, Running, Goto, cacheVars, diskVars
<1>1. TypeOK'
  BY DEF TypeOK, Flag, Label
<1>2. CpuOK'
  BY DEF CpuOK, TypeOK
<1>3. RetOK'
  BY DEF RetOK, TypeOK, CpuOK, Ahead
<1>4. NamesOK'
  BY DEF NamesOK, TypeOK, CpuOK, RetOK, Ahead, Want, Cur, Seeking, InCore
<1>5. LocalsOK'
  BY DEF LocalsOK, TypeOK, CpuOK, RetOK, Ahead, Cur, Has
<1>6. TransferOK'
  BY DEF TransferOK, TypeOK, CpuOK, RetOK, LocalsOK, Ahead, Cur, Has
<1>7. SleepOK'
  BY DEF SleepOK, TypeOK, CpuOK, RetOK, Ahead, Cur
<1>8. NoLostWakeup'
  BY DEF NoLostWakeup, TypeOK, CpuOK, Has
<1>9. \A q \in Procs, b \in Bufs : Owns(q, b)' <=> Owns(q, b)
  BY DEF Owns, OwnsMain, OwnsAhead, Ahead, TypeOK, CpuOK, RetOK, LocalsOK, Cur
<1>10. FreeListExact' /\ QueueExact' /\ OneCopy' /\ OwnersOK'
  BY <1>9, SameBuffers DEF Has
<1> QED BY <1>1, <1>2, <1>3, <1>4, <1>5, <1>6, <1>7, <1>8, <1>10

LEMMA SpoilReleaseInv ==
    ASSUME IInv, NEW p \in Procs, NEW v \in Values, SpoilRelease(p, v)
    PROVE  IInv'
<1> USE CacheAssumption DEF IInv, SpoilRelease, Running, Goto, cacheVars, diskVars
<1>1. TypeOK'
  BY DEF TypeOK, Flag, Label
<1>2. CpuOK'
  BY DEF CpuOK, TypeOK
<1>3. RetOK'
  BY DEF RetOK, TypeOK, CpuOK, Ahead
<1>4. NamesOK'
  BY DEF NamesOK, TypeOK, CpuOK, RetOK, Ahead, Want, Cur, Seeking, InCore
<1>5. LocalsOK'
  BY DEF LocalsOK, TypeOK, CpuOK, RetOK, Ahead, Cur, Has
<1>6. TransferOK'
  BY DEF TransferOK, TypeOK, CpuOK, RetOK, LocalsOK, Ahead, Cur, Has
<1>7. SleepOK'
  BY DEF SleepOK, TypeOK, CpuOK, RetOK, Ahead, Cur
<1>8. NoLostWakeup'
  BY DEF NoLostWakeup, TypeOK, CpuOK, Has
<1>9. \A q \in Procs, b \in Bufs : Owns(q, b)' <=> Owns(q, b)
  BY DEF Owns, OwnsMain, OwnsAhead, Ahead, TypeOK, CpuOK, RetOK, LocalsOK, Cur
<1>10. FreeListExact' /\ QueueExact' /\ OneCopy' /\ OwnersOK'
  BY <1>9, SameBuffers DEF Has
<1> QED BY <1>1, <1>2, <1>3, <1>4, <1>5, <1>6, <1>7, <1>8, <1>10

LEMMA BdwriteInv ==
    ASSUME IInv, NEW p \in Procs, NEW v \in Values, Bdwrite(p, v)
    PROVE  IInv'
<1> USE CacheAssumption DEF IInv, Bdwrite, Running, Goto, cacheVars, diskVars
<1>1. bp[p] \in Bufs /\ bp[p] \notin Chain(ioq)
  BY DEF TypeOK, LocalsOK, TransferOK
<1>2. \A c \in Bufs, f \in Flag \ {"DELWRI", "DONE"} : Has(c, f)' <=> Has(c, f)
  BY <1>1 DEF Has, TypeOK, Flag
<1>3. Has(bp[p], "BUSY")
  BY <1>1 DEF OwnersOK, Owns, OwnsMain, LocalsOK
<1>4. TypeOK'
  BY <1>1 DEF TypeOK, Flag, Label
<1>5. CpuOK'
  BY <1>1 DEF CpuOK, TypeOK
<1>6. RetOK'
  BY <1>1 DEF RetOK, TypeOK, CpuOK, Ahead
<1>7. NamesOK'
  BY <1>1, <1>3 DEF NamesOK, TypeOK, CpuOK, RetOK, Ahead, Want, Cur, Seeking,
            InCore, Has
<1>8. LocalsOK'
  BY <1>1, <1>2 DEF LocalsOK, TypeOK, CpuOK, RetOK, Ahead, Cur, Has, Flag
<1>9. TransferOK'
  BY <1>1 DEF TransferOK, TypeOK, CpuOK, RetOK, LocalsOK, Ahead, Cur, Has
<1>10. SleepOK'
  BY <1>1 DEF SleepOK, TypeOK, CpuOK, RetOK, Ahead, Cur
<1>11. NoLostWakeup'
  BY <1>1, <1>2 DEF NoLostWakeup, TypeOK, CpuOK, Has, Flag
<1>12. \A q \in Procs, b \in Bufs : Owns(q, b)' <=> Owns(q, b)
  BY DEF Owns, OwnsMain, OwnsAhead, Ahead, TypeOK, CpuOK, RetOK, LocalsOK, Cur
<1>13. \A b \in Bufs : b \in Chain(ioq) /\ Has(b, "DONE")' => Has(b, "DONE")
  BY <1>1 DEF Has, TypeOK
<1>14. FreeListExact' /\ QueueExact' /\ OneCopy' /\ OwnersOK'
  BY <1>2, <1>12, <1>13, SameBuffers DEF Flag
<1> QED BY <1>4, <1>5, <1>6, <1>7, <1>8, <1>9, <1>10, <1>11, <1>13, <1>14

LEMMA BawriteInv ==
    ASSUME IInv, NEW p \in Procs, NEW v \in Values, Bawrite(p, v)
    PROVE  IInv'
<1> USE CacheAssumption DEF IInv, Bawrite, Running, Goto, cacheVars, diskVars, Strategy,
        WriteFlags, Leave, MayHaveFailed
<1>1. PICK b \in Bufs : b = bp[p] /\ b \notin Chain(ioq) /\ b # NoBuf
  BY DEF LocalsOK, TransferOK, Cur, RetOK, Ahead, TypeOK
<1>2. Owns(p, b) /\ Has(b, "BUSY") /\ ~Has(b, "ASYNC")
  BY <1>1 DEF OwnersOK, Owns, OwnsMain, OwnsAhead, RetOK, Ahead
<1>3. /\ ioq' \in Seq(Bufs)
      /\ Chain(ioq') = Chain(ioq) \cup {b}
  BY <1>1, AppendChain DEF TypeOK, QueueExact
<1>4. Chain(ioq)' = Chain(ioq')
  BY DEF Chain
<1>5. \A c \in Bufs \ {b} : flags'[c] = flags[c]
  BY <1>1 DEF TypeOK
<1>6. TypeOK'
  BY <1>1, <1>3, <1>4 DEF TypeOK, Flag, Label
<1>7. CpuOK'
  BY <1>1, <1>3, <1>4 DEF CpuOK, TypeOK
<1>8. RetOK'
  BY <1>1, <1>3, <1>4 DEF RetOK, TypeOK, CpuOK, Ahead
<1>9. NamesOK'
  BY <1>1, <1>3, <1>4, <1>2, <1>5 DEF NamesOK, TypeOK, CpuOK, RetOK, Ahead,
            Want, Cur, Seeking, InCore, Has
<1>10. LocalsOK'
  BY <1>1, <1>3, <1>4, <1>2, <1>5 DEF LocalsOK, TypeOK, CpuOK, RetOK, Ahead,
            Cur, Has, OwnersOK, Owns, OwnsMain
<1>11. TransferOK'
  BY <1>1, <1>3, <1>4, <1>2, <1>5 DEF TransferOK, TypeOK, CpuOK, RetOK,
            LocalsOK, Ahead, Cur, Has, OwnersOK, Owns, OwnsMain,
            OwnsAhead
<1>12. SleepOK'
  BY <1>1, <1>3, <1>4 DEF SleepOK, TypeOK, CpuOK, RetOK, Ahead, Cur
<1>13. NoLostWakeup'
  BY <1>1, <1>3, <1>4, <1>5 DEF NoLostWakeup, TypeOK, CpuOK, Has, LocalsOK
<1>14. /\ \A q \in Procs, c \in Bufs \ {b} : Owns(q, c)' <=> Owns(q, c)
      /\ \A q \in Procs : ~Owns(q, b)'
  BY <1>1, <1>2 DEF Owns, OwnsMain, OwnsAhead, Ahead, TypeOK, CpuOK, RetOK, LocalsOK,
     Cur, OwnersOK
<1>15. Has(b, "BUSY")' /\ ~Has(b, "DONE")' /\ Has(b, "ASYNC")'
  BY <1>1, <1>2 DEF Has, TypeOK, Flag
<1>16. Strategy(b)
  BY <1>1
<1>17. FreeListExact' /\ QueueExact' /\ OneCopy' /\ OwnersOK'
  BY <1>1, <1>2, <1>5, <1>14, <1>16, <1>15, Enqueued
<1> QED BY <1>6, <1>7, <1>8, <1>9, <1>10, <1>11, <1>12, <1>13, <1>15, <1>16, <1>17

LEMMA BwriteInv ==
    ASSUME IInv, NEW p \in Procs, NEW v \in Values, Bwrite(p, v)
    PROVE  IInv'
<1> USE CacheAssumption DEF IInv, Bwrite, Running, Goto, cacheVars, diskVars, Strategy,
        WriteFlags
<1>1. bp[p] \in Bufs /\ bp[p] \notin Chain(ioq) /\ bp[p] # NoBuf
  BY DEF LocalsOK, TransferOK, Cur, RetOK, Ahead, TypeOK
<1>2. Owns(p, bp[p]) /\ Has(bp[p], "BUSY") /\ ~Has(bp[p], "ASYNC")
  BY <1>1 DEF OwnersOK, Owns, OwnsMain, OwnsAhead, RetOK, Ahead
<1>3. /\ ioq' \in Seq(Bufs)
      /\ Chain(ioq') = Chain(ioq) \cup {bp[p]}
  BY <1>1, AppendChain DEF TypeOK, QueueExact
<1>4. Chain(ioq)' = Chain(ioq')
  BY DEF Chain
<1>5. \A c \in Bufs \ {bp[p]} : flags'[c] = flags[c]
  BY <1>1 DEF TypeOK
<1>6. TypeOK'
  BY <1>1, <1>3, <1>4 DEF TypeOK, Flag, Label
<1>7. CpuOK'
  BY <1>1, <1>3, <1>4 DEF CpuOK, TypeOK
<1>8. RetOK'
  BY <1>1, <1>3, <1>4 DEF RetOK, TypeOK, CpuOK, Ahead
<1>9. NamesOK'
  BY <1>1, <1>3, <1>4, <1>2, <1>5 DEF NamesOK, TypeOK, CpuOK, RetOK, Ahead,
            Want, Cur, Seeking, InCore, Has
<1>10. LocalsOK'
  BY <1>1, <1>3, <1>4, <1>2, <1>5 DEF LocalsOK, TypeOK, CpuOK, RetOK, Ahead,
            Cur, Has, OwnersOK, Owns, OwnsMain
<1>11. TransferOK'
  BY <1>1, <1>3, <1>4, <1>2, <1>5 DEF TransferOK, TypeOK, CpuOK, RetOK,
            LocalsOK, Ahead, Cur, Has, OwnersOK, Owns, OwnsMain,
            OwnsAhead
<1>12. SleepOK'
  BY <1>1, <1>3, <1>4 DEF SleepOK, TypeOK, CpuOK, RetOK, Ahead, Cur
<1>13. NoLostWakeup'
  BY <1>1, <1>3, <1>4, <1>5 DEF NoLostWakeup, TypeOK, CpuOK, Has, LocalsOK
<1>14. \A q \in Procs, c \in Bufs : Owns(q, c)' <=> Owns(q, c)
  BY DEF Owns, OwnsMain, OwnsAhead, Ahead, TypeOK, CpuOK, RetOK, LocalsOK, Cur
<1>15. Has(bp[p], "BUSY")' /\ ~Has(bp[p], "DONE")' /\ ~Has(bp[p], "ASYNC")'
  BY <1>1, <1>2 DEF Has, TypeOK, Flag
<1>16. Strategy(bp[p])
  BY <1>1
<1>17. FreeListExact' /\ QueueExact' /\ OneCopy' /\ OwnersOK'
  BY <1>1, <1>2, <1>5, <1>14, <1>16, <1>15, Enqueued
<1> QED BY <1>6, <1>7, <1>8, <1>9, <1>10, <1>11, <1>12, <1>13, <1>15, <1>16, <1>17

LEMMA BflushOneInv ==
    ASSUME IInv, NEW p \in Procs, BflushOne(p)
    PROVE  IInv'
<1> USE CacheAssumption DEF IInv, Running, Goto, cacheVars, diskVars, procVars
<1>1. /\ cpu = p /\ pc[p] = "bflush"
      /\ UNCHANGED <<blk, data, disk, freeWanted, errcnt, procVars>>
  BY DEF BflushOne, Strategy
<1>2. PICK i \in Dirty :
        /\ freeList' = RemoveAt(freeList, i)
        /\ flags' = [flags EXCEPT ![freeList[i]] = WriteFlags(@ \cup {"BUSY", "ASYNC"})]
        /\ Strategy(freeList[i])
  BY DEF BflushOne
<1>3. i \in DOMAIN freeList
  BY DEF Dirty
<1>4. PICK b \in Bufs : b = freeList[i]
  BY <1>3 DEF TypeOK
<1>5. /\ Has(b, "DELWRI") /\ Strategy(b) /\ freeList' = RemoveAt(freeList, i)
      /\ flags' = [flags EXCEPT ![b] = WriteFlags(@ \cup {"BUSY", "ASYNC"})]
  BY <1>2, <1>4 DEF Dirty
<1>6. freeList' \in Seq(Bufs) /\ Distinct(freeList') /\ Chain(freeList') = Chain(freeList) \ {b}
  BY <1>5, <1>3, <1>4, RemoveChain DEF TypeOK, FreeListExact
<1>7. b \in Chain(freeList) /\ freeList # <<>>
  BY <1>3, <1>4 DEF Chain
<1>8. ~Has(b, "BUSY") /\ ~Has(b, "ASYNC") /\ b \notin Chain(ioq) /\ b # NoBuf
  BY <1>7 DEF FreeListExact, QueueExact, OwnersOK
<1>9. Has(b, "DELWRI")
  BY <1>5
<1>10. Strategy(b)
  BY <1>5 DEF Strategy
<1>11. \A c \in Bufs \ {b} : flags'[c] = flags[c]
  BY <1>5 DEF TypeOK
<1>12. Has(b, "BUSY")' /\ Has(b, "ASYNC")' /\ ~Has(b, "DONE")'
  BY <1>5 DEF Has, TypeOK, WriteFlags
<1>13. blk[b] \in Blocks
  BY <1>9 DEF NamesOK, Has
<1>14. ioq' \in Seq(Bufs) /\ Chain(ioq') = Chain(ioq) \cup {b}
  BY <1>10, <1>8, AppendChain DEF TypeOK, QueueExact, Strategy
<1>15. Chain(ioq)' = Chain(ioq')
  BY DEF Chain
<1>16. \A q \in Procs : ~Owns(q, b)
  BY <1>8 DEF OwnersOK
<1>17. \A q \in Procs : bp[q] # b /\ abp[q] # b
  BY <1>1, <1>16, <1>8 DEF Owns, OwnsMain, OwnsAhead, CpuOK, TypeOK
<1>18. TypeOK'
  BY <1>1, <1>6, <1>5, <1>14, <1>10 DEF TypeOK, Flag, Label, WriteFlags, Strategy
<1>19. CpuOK'
  BY <1>1 DEF CpuOK, TypeOK
<1>20. RetOK'
  BY <1>1 DEF RetOK, TypeOK, CpuOK, Ahead
<1>21. NamesOK'
  BY <1>1, <1>11, <1>13 DEF NamesOK, TypeOK, CpuOK, RetOK, Ahead, Want, Cur,
         Seeking, InCore, Has
<1>22. LocalsOK'
  BY <1>1, <1>8, <1>11 DEF LocalsOK, TypeOK, CpuOK, RetOK, Ahead, Cur, Has,
         OwnersOK, Owns, OwnsMain, OwnsAhead
<1>23. TransferOK'
  BY <1>1, <1>11, <1>17, <1>14, <1>15 DEF TransferOK, TypeOK, CpuOK, RetOK, LocalsOK,
         Ahead, Cur, Has
<1>24. SleepOK'
  BY <1>1 DEF SleepOK, TypeOK, CpuOK, RetOK, Ahead, Cur
<1>25. NoLostWakeup'
  BY <1>1, <1>7, <1>8, <1>11, <1>14, <1>15 DEF NoLostWakeup, TypeOK, CpuOK, Has
<1>26. \A q \in Procs, c \in Bufs : Owns(q, c)' <=> Owns(q, c)
  BY <1>1 DEF Owns, OwnsMain, OwnsAhead, Ahead, TypeOK, CpuOK, RetOK,
         LocalsOK, Cur
<1>27. FreeListExact' /\ QueueExact' /\ OneCopy' /\ OwnersOK'
  BY <1>6, <1>7, <1>11, <1>12, <1>10, <1>1, <1>26, Flushed
<1> QED BY <1>18, <1>19, <1>20, <1>21, <1>22, <1>23, <1>24, <1>25, <1>27

LEMMA BflushDoneInv ==
    ASSUME IInv, NEW p \in Procs, BflushDone(p)
    PROVE  IInv'
<1> USE CacheAssumption DEF IInv, BflushDone, Running, Goto, cacheVars, diskVars, Leave
<1>1. TypeOK'
  BY DEF TypeOK, Flag, Label, Request
<1>2. CpuOK'
  BY DEF CpuOK, TypeOK
<1>3. RetOK'
  BY DEF RetOK, TypeOK, CpuOK, Ahead
<1>4. NamesOK'
  BY DEF NamesOK, TypeOK, CpuOK, RetOK, Ahead, Want, Cur, Seeking, InCore
<1>5. LocalsOK'
  BY DEF LocalsOK, TypeOK, CpuOK, RetOK, Ahead, Cur, Has
<1>6. TransferOK'
  BY DEF TransferOK, TypeOK, CpuOK, RetOK, LocalsOK, Ahead, Cur, Has
<1>7. SleepOK'
  BY DEF SleepOK, TypeOK, CpuOK, RetOK, Ahead, Cur
<1>8. NoLostWakeup'
  BY DEF NoLostWakeup, TypeOK, CpuOK, Has
<1>9. \A q \in Procs, b \in Bufs : Owns(q, b)' <=> Owns(q, b)
  BY DEF Owns, OwnsMain, OwnsAhead, Ahead, TypeOK, CpuOK, RetOK, LocalsOK, Cur
<1>10. FreeListExact' /\ QueueExact' /\ OneCopy' /\ OwnersOK'
  BY <1>9, SameBuffers DEF Has
<1> QED BY <1>1, <1>2, <1>3, <1>4, <1>5, <1>6, <1>7, <1>8, <1>10

LEMMA TransferSync ==
    ASSUME IInv, NEW b \in Bufs, NEW f \in SUBSET Flag, active # 0, b = Head(ioq),
           f \ {"ERROR"} = flags[b] \ {"ERROR"}, "ASYNC" \notin f, IODone(b, f), NextRequest,
           data' \in [Bufs -> Values], disk' \in [Blocks -> Values],
           UNCHANGED <<blk, cpu, pc, ret, req, bp, abp, uerror>>
    PROVE  IInv'
<1> USE CacheAssumption DEF IInv, Running, Goto, cacheVars, diskVars
<1>1. ioq # <<>> /\ active' \in {0, 1} /\ errcnt' \in 0..MaxErr
  BY DEF QueueExact, TypeOK, NextRequest
<1>2. ioq' \in Seq(Bufs) /\ Chain(ioq') = Chain(ioq) \ {b} /\ b \in Chain(ioq)
  BY <1>1, TailChain DEF TypeOK, QueueExact, NextRequest
<1>3. Chain(ioq)' = Chain(ioq')
  BY DEF Chain
<1>4. Has(b, "BUSY") /\ "BUSY" \in f /\ blk[b] \in Blocks
  BY <1>2 DEF QueueExact, NamesOK, Has
<1>5. /\ flags' = [flags EXCEPT ![b] = (f \cup {"DONE"}) \ {"WANTED"}]
      /\ chan' = Woken(b) /\ UNCHANGED <<freeList, freeWanted>>
  BY DEF IODone
<1>6. \A c \in Bufs \ {b} : flags'[c] = flags[c]
  BY <1>5 DEF TypeOK
<1>7. Has(b, "BUSY")' /\ Has(b, "DONE")' /\ ~Has(b, "ASYNC") /\ ~Has(b, "ASYNC")'
  BY <1>5, <1>4 DEF Has, TypeOK
<1>8. /\ chan' \in [Procs -> Bufs \cup {FreeList, NoBuf}]
      /\ \A q \in Procs : chan'[q] = IF chan[q] = b THEN NoBuf ELSE chan[q]
  BY <1>5 DEF Woken, TypeOK
<1>9. \A c \in Bufs : flags'[c] # {} => blk[c] \in Blocks
  BY <1>4, <1>6 DEF NamesOK
<1>10. TypeOK'
  BY <1>8, <1>1, <1>2, <1>5, <1>8 DEF TypeOK, Flag, Label
<1>11. CpuOK'
  BY <1>8 DEF CpuOK, TypeOK
<1>12. RetOK'
  BY <1>8 DEF RetOK, TypeOK, CpuOK, Ahead
<1>13. NamesOK'
  BY <1>8, <1>9, <1>5 DEF NamesOK, TypeOK, CpuOK, RetOK, Ahead, Want, Cur,
         Seeking, InCore
<1>14. LocalsOK'
  BY <1>8, <1>6, <1>4 DEF LocalsOK, TypeOK, CpuOK, RetOK, Ahead, Cur, Has
<1>15. TransferOK'
  BY <1>8, <1>2, <1>3, <1>6, <1>7 DEF TransferOK, TypeOK, CpuOK, RetOK, LocalsOK,
         Ahead, Cur, Has
<1>16. SleepOK'
  BY <1>8 DEF SleepOK, TypeOK, CpuOK, RetOK, Ahead, Cur
<1>17. NoLostWakeup'
  BY <1>8, <1>2, <1>3, <1>6, <1>5 DEF NoLostWakeup, TypeOK, CpuOK, Has, SleepOK
<1>18. \A q \in Procs, c \in Bufs : Owns(q, c)' <=> Owns(q, c)
  BY DEF Owns, OwnsMain, OwnsAhead, Ahead, TypeOK, CpuOK, RetOK, LocalsOK, Cur
<1>19. FreeListExact' /\ QueueExact' /\ OneCopy' /\ OwnersOK'
  BY <1>1, <1>5, <1>6, <1>7, <1>18, Dequeued
<1> QED BY <1>10, <1>11, <1>12, <1>13, <1>14, <1>15, <1>16, <1>17, <1>19

LEMMA TransferAsync ==
    ASSUME IInv, NEW b \in Bufs, NEW f \in SUBSET Flag, active # 0, b = Head(ioq),
           f \ {"ERROR"} = flags[b] \ {"ERROR"}, "ASYNC" \in f, IODone(b, f), NextRequest,
           data' \in [Bufs -> Values], disk' \in [Blocks -> Values],
           UNCHANGED <<blk, cpu, pc, ret, req, bp, abp, uerror>>
    PROVE  IInv'
<1> USE CacheAssumption DEF IInv, Running, Goto, cacheVars, diskVars
<1>1. ioq # <<>> /\ active' \in {0, 1} /\ errcnt' \in 0..MaxErr
  BY DEF QueueExact, TypeOK, NextRequest
<1>2. ioq' \in Seq(Bufs) /\ Chain(ioq') = Chain(ioq) \ {b} /\ b \in Chain(ioq)
  BY <1>1, TailChain DEF TypeOK, QueueExact, NextRequest
<1>3. Chain(ioq)' = Chain(ioq')
  BY DEF Chain
<1>4. Has(b, "BUSY") /\ "BUSY" \in f /\ blk[b] \in Blocks
  BY <1>2 DEF QueueExact, NamesOK, Has
<1>5. /\ flags' = [flags EXCEPT ![b] = (f \cup {"DONE"}) \ {"WANTED", "BUSY", "ASYNC"}]
      /\ freeWanted' = FALSE /\ freeList' = Append(freeList, b)
  BY DEF IODone
<1>6. \A c \in Bufs \ {b} : flags'[c] = flags[c]
  BY <1>5 DEF TypeOK
<1>7. ~Has(b, "BUSY")' /\ Has(b, "DONE")' /\ Has(b, "ASYNC") /\ ~Has(b, "ASYNC")'
  BY <1>5, <1>4 DEF Has, TypeOK
<1>8. freeList' \in Seq(Bufs) /\ freeList' # <<>>
  BY <1>5, <1>4, AppendChain DEF TypeOK, FreeListExact
<1>9. \A q \in Procs : ~Owns(q, b)
  BY <1>7 DEF OwnersOK
<1>10. \A q \in Procs : chan[q] = b => Has(b, "WANTED")
  BY <1>9 DEF NoLostWakeup, SleepOK, CpuOK, Owns, OwnsMain, TypeOK
<1>11. /\ chan' \in [Procs -> Bufs \cup {FreeList, NoBuf}]
       /\ \A q \in Procs : chan'[q] = IF chan[q] \in {b, FreeList} THEN NoBuf ELSE chan[q]
  BY <1>10 DEF IODone, TypeOK, NoLostWakeup, Has
<1>12. \A c \in Bufs : flags'[c] # {} => blk[c] \in Blocks
  BY <1>4, <1>6 DEF NamesOK
<1>13. TypeOK'
  BY <1>11, <1>1, <1>2, <1>5, <1>8, <1>11 DEF TypeOK, Flag, Label
<1>14. CpuOK'
  BY <1>11 DEF CpuOK, TypeOK
<1>15. RetOK'
  BY <1>11 DEF RetOK, TypeOK, CpuOK, Ahead
<1>16. NamesOK'
  BY <1>11, <1>12, <1>8 DEF NamesOK, TypeOK, CpuOK, RetOK, Ahead, Want, Cur,
         Seeking, InCore
<1>17. LocalsOK'
  BY <1>11, <1>6, <1>4 DEF LocalsOK, TypeOK, CpuOK, RetOK, Ahead, Cur, Has
<1>18. TransferOK'
  BY <1>11, <1>2, <1>3, <1>6, <1>7 DEF TransferOK, TypeOK, CpuOK, RetOK, LocalsOK,
         Ahead, Cur, Has
<1>19. SleepOK'
  BY <1>11 DEF SleepOK, TypeOK, CpuOK, RetOK, Ahead, Cur
<1>20. NoLostWakeup'
  BY <1>11, <1>2, <1>3, <1>6 DEF NoLostWakeup, TypeOK, CpuOK, Has, SleepOK
<1>21. \A q \in Procs, c \in Bufs : Owns(q, c)' <=> Owns(q, c)
  BY DEF Owns, OwnsMain, OwnsAhead, Ahead, TypeOK, CpuOK, RetOK, LocalsOK, Cur
<1>22. FreeListExact' /\ QueueExact' /\ OneCopy' /\ OwnersOK'
  BY <1>1, <1>5, <1>6, <1>7, <1>21, DequeuedFreed
<1> QED BY <1>13, <1>14, <1>15, <1>16, <1>17, <1>18, <1>19, <1>20, <1>22

LEMMA TransferInv ==
    ASSUME IInv, NEW b \in Bufs, NEW f \in SUBSET Flag, active # 0, b = Head(ioq),
           f \ {"ERROR"} = flags[b] \ {"ERROR"}, IODone(b, f), NextRequest,
           data' \in [Bufs -> Values], disk' \in [Blocks -> Values],
           UNCHANGED <<blk, cpu, pc, ret, req, bp, abp, uerror>>
    PROVE  IInv'
<1>1. CASE "ASYNC" \in f
  BY <1>1, TransferAsync
<1>2. CASE "ASYNC" \notin f
  BY <1>2, TransferSync
<1> QED BY <1>1, <1>2

LEMMA TransferDoneInv ==
    ASSUME IInv, TransferDone
    PROVE  IInv'
<1>1. ioq # <<>> /\ active # 0
  BY DEF IInv, QueueExact, TypeOK, TransferDone
<1>2. PICK b \in Bufs : b = Head(ioq)
  BY <1>1, TailChain DEF IInv, TypeOK, QueueExact
<1>3. b \in Chain(ioq)
  BY <1>1, <1>2, TailChain DEF IInv, TypeOK, QueueExact
<1>4. blk[b] \in Blocks
  BY <1>3 DEF IInv, QueueExact, NamesOK, Has
<1>5. flags[b] \in SUBSET Flag
  BY DEF IInv, TypeOK
<1>6. data' \in [Bufs -> Values] /\ disk' \in [Blocks -> Values]
  BY <1>2, <1>4 DEF IInv, TypeOK, TransferDone
<1>7. IODone(b, flags[b]) /\ NextRequest
  BY <1>2 DEF TransferDone
<1>8. UNCHANGED <<blk, cpu, pc, ret, req, bp, abp, uerror>>
  BY DEF TransferDone
<1> QED BY <1>1, <1>2, <1>5, <1>6, <1>7, <1>8, TransferInv

LEMMA TransferFailedInv ==
    ASSUME IInv, TransferFailed
    PROVE  IInv'
<1>1. ioq # <<>> /\ active # 0
  BY DEF IInv, QueueExact, TypeOK, TransferFailed
<1>2. PICK b \in Bufs : b = Head(ioq)
  BY <1>1, TailChain DEF IInv, TypeOK, QueueExact
<1>3. PICK f \in SUBSET Flag : f = flags[b] \cup {"ERROR"}
  BY DEF IInv, TypeOK, Flag
<1>4. IODone(b, f) /\ NextRequest
  BY <1>2, <1>3 DEF TransferFailed
<1>5. /\ data' \in [Bufs -> Values] /\ disk' \in [Blocks -> Values]
      /\ UNCHANGED <<blk, cpu, pc, ret, req, bp, abp, uerror>>
  BY DEF IInv, TypeOK, TransferFailed
<1> QED BY <1>1, <1>2, <1>3, <1>4, <1>5, TransferInv

\* A step that changes neither the cache, nor the queue, nor the processes
LEMMA NothingMoves ==
    ASSUME IInv, UNCHANGED <<cacheVars, procVars, disk, ioq, active>>, errcnt' \in 0..MaxErr
    PROVE  IInv'
<1> USE DEF cacheVars, procVars
<1>1. Chain(freeList)' = Chain(freeList) /\ Chain(ioq)' = Chain(ioq)
  BY DEF Chain
<1>2. \A q \in Procs, c \in Bufs : Owns(q, c)' <=> Owns(q, c)
  BY DEF Owns, OwnsMain, OwnsAhead, Ahead
<1>3. FreeListExact' /\ QueueExact' /\ OneCopy' /\ OwnersOK'
  BY <1>2, SameBuffers DEF Has
<1>4. TypeOK' /\ CpuOK' /\ RetOK'
  BY DEF IInv, TypeOK, CpuOK, RetOK, Ahead
<1>5. NamesOK'
  BY DEF IInv, NamesOK, Seeking, Want, Ahead, Cur, InCore
<1>6. LocalsOK' /\ TransferOK' /\ SleepOK' /\ NoLostWakeup'
  BY <1>1 DEF IInv, LocalsOK, TransferOK, SleepOK, NoLostWakeup, Ahead, Cur, Has
<1> QED BY <1>3, <1>4, <1>5, <1>6 DEF IInv

LEMMA TransferRetryInv ==
    ASSUME IInv, TransferRetry
    PROVE  IInv'
<1>1. errcnt' \in 0..MaxErr
  BY CacheAssumption DEF IInv, TypeOK, TransferRetry
<1> QED BY <1>1, NothingMoves DEF TransferRetry

LEMMA BreadaStartInv ==
    ASSUME IInv, NEW p \in Procs, BreadaStart(p)
    PROVE  IInv'
<1>1. CASE Has(bp[p], "DONE")
  BY <1>1, BreadaStartSkipInv
<1>2. CASE ~Has(bp[p], "DONE")
  BY <1>2, BreadaStartReadInv
<1> QED BY <1>1, <1>2

-----------------------------------------------------------------------------
\* The invariant of the specification

LEMMA InitInv == Init => IInv
<1> SUFFICES ASSUME Init PROVE IInv
  OBVIOUS
<1> USE CacheAssumption DEF Init
<1>1. Cardinality(Bufs) \in Nat
  BY FS_CardinalityType
<1>2. freeList \in Seq(Bufs)
  BY <1>1, SeqDef
<1>3. NoReq \in Request \cup {NoReq}
  OBVIOUS
<1>4. ioq \in Seq(Bufs) /\ Chain(ioq) = {}
  BY DEF Chain
<1>5. TypeOK
  <2>1. /\ flags \in [Bufs -> SUBSET Flag] /\ blk \in [Bufs -> Blocks \cup {NoBlock}]
        /\ data \in [Bufs -> Values] /\ disk \in [Blocks -> Values]
    OBVIOUS
  <2>2. active \in {0, 1} /\ errcnt \in 0..MaxErr
    OBVIOUS
  <2>3. freeWanted \in BOOLEAN
    OBVIOUS
  <2>4. cpu \in Procs \cup {NoProc} /\ req \in [Procs -> Request \cup {NoReq}]
    OBVIOUS
  <2>5. pc \in [Procs -> Label] /\ ret \in [Procs -> Label]
    BY DEF Label
  <2>6. /\ bp \in [Procs -> Bufs \cup {NoBuf}] /\ abp \in [Procs -> Bufs \cup {NoBuf}]
        /\ chan \in [Procs -> Bufs \cup {FreeList, NoBuf}] /\ uerror \in [Procs -> BOOLEAN]
    OBVIOUS
  <2> QED BY <1>2, <1>4, <2>1, <2>2, <2>3, <2>4, <2>5, <2>6 DEF TypeOK
<1>6. CpuOK /\ RetOK
  BY DEF CpuOK, RetOK, Ahead
<1>7. NamesOK
  BY DEF NamesOK, Seeking, Ahead
<1>8. LocalsOK /\ TransferOK /\ SleepOK /\ NoLostWakeup
  BY DEF LocalsOK, TransferOK, SleepOK, NoLostWakeup, Ahead
<1>9. FreeListExact
  BY DEF FreeListExact, Has
<1>10. QueueExact /\ Distinct(ioq)
  BY <1>4 DEF QueueExact, Distinct
<1>11. OneCopy
  BY DEF OneCopy
<1>12. OwnersOK
  BY DEF OwnersOK, Owns, OwnsMain, OwnsAhead, Has
<1> QED BY <1>5, <1>6, <1>7, <1>8, <1>9, <1>10, <1>11, <1>12 DEF IInv

LEMMA StepInv ==
    ASSUME IInv, NEW p \in Procs, Step(p)
    PROVE  IInv'
<1>1. CASE GetBlkBusy(p) \/ GetBlkHit(p) \/ NotAvail(p) \/ GetBlkNoFree(p)
           \/ GetBlkSomeFree(p) \/ TakeDirty(p) \/ TakeClean(p)
  BY <1>1, GetBlkBusyInv, GetBlkHitInv, NotAvailInv, GetBlkNoFreeInv,
     GetBlkSomeFreeInv, TakeDirtyInv, TakeCleanInv
<1>2. CASE Brelse(p) \/ PutFree(p)
  BY <1>2, BrelseInv, PutFreeInv
<1>3. CASE BreadHit(p) \/ BreadMiss(p)
  BY <1>3, BreadHitInv, BreadMissInv
<1>4. CASE BreadaFirst(p) \/ BreadaStart(p) \/ BreadaNext(p)
           \/ BreadaAheadHit(p) \/ BreadaAheadMiss(p) \/ BreadaFinish(p)
  BY <1>4, BreadaFirstInv, BreadaStartInv, BreadaNextInv, BreadaAheadHitInv,
     BreadaAheadMissInv, BreadaFinishInv
<1>5. CASE IOWaitSleep(p) \/ IOWaitDone(p) \/ Release(p)
  BY <1>5, IOWaitSleepInv, IOWaitDoneInv, ReleaseInv
<1>6. ASSUME NEW v \in Values,
             SpoilRelease(p, v) \/ Bdwrite(p, v) \/ Bawrite(p, v) \/ Bwrite(p, v)
      PROVE  IInv'
  BY <1>6, SpoilReleaseInv, BdwriteInv, BawriteInv, BwriteInv
<1>7. CASE BflushOne(p) \/ BflushDone(p)
  BY <1>7, BflushOneInv, BflushDoneInv
<1> QED BY <1>1, <1>2, <1>3, <1>4, <1>5, <1>6, <1>7 DEF Step

LEMMA NextInv == IInv /\ [Next]_vars => IInv'
<1> SUFFICES ASSUME IInv, [Next]_vars PROVE IInv'
  OBVIOUS
<1>1. CASE UNCHANGED vars
  <2>1. errcnt' \in 0..MaxErr /\ UNCHANGED <<cacheVars, procVars, disk, ioq, active>>
    BY <1>1 DEF vars, cacheVars, diskVars, procVars, IInv, TypeOK
  <2> QED BY <2>1, NothingMoves
<1>2. ASSUME NEW p \in Procs, NEW r \in Request, Call(p, r)
      PROVE  IInv'
  BY <1>2, CallInv
<1>3. ASSUME NEW p \in Procs, Resume(p)
      PROVE  IInv'
  BY <1>3, ResumeInv
<1>4. ASSUME NEW p \in Procs, Step(p)
      PROVE  IInv'
  BY <1>4, StepInv
<1>5. CASE DiskInterrupt
  BY <1>5, TransferDoneInv, TransferRetryInv, TransferFailedInv DEF DiskInterrupt
<1> QED BY <1>1, <1>2, <1>3, <1>4, <1>5 DEF Next

\* Invariance: every reachable state of the cache satisfies IInv, however many
\* processes, buffers and blocks there are and wherever transfers fail.
THEOREM Invariance == Spec => []IInv
<1> QED BY InitInv, NextInv, PTL DEF Spec

\* The variables keep their types: no buffer pointer of BufferManager.cpp goes
\* astray and ATAHandler's error count stays within its bound.
THEOREM TypeCorrect == Spec => []TypeOK
<1>1. IInv => TypeOK
  BY DEF IInv
<1> QED BY <1>1, Invariance, PTL

\* GetBlk, NotAvail, Bflush, Brelse and the interrupt handler keep the free list
\* exact: it holds the buffers nobody uses, each once.
THEOREM FreeListSafe == Spec => []FreeListExact
<1>1. IInv => FreeListExact
  BY DEF IInv
<1> QED BY <1>1, Invariance, PTL

\* Strategy, Start and ATAHandler keep the request chain exact, and the controller
\* never stops with requests queued.
THEOREM QueueSafe == Spec => []QueueExact
<1>1. IInv => QueueExact
  BY DEF IInv
<1> QED BY <1>1, Invariance, PTL

\* GetBlk never gives a block a second buffer.
THEOREM NoDuplicate == Spec => []OneCopy
<1>1. IInv => OneCopy
  BY DEF IInv
<1> QED BY <1>1, Invariance, PTL

\* No process sleeps in GetBlk or IOWait without somebody who will wake it.
THEOREM WakeupsSafe == Spec => []NoLostWakeup
<1>1. IInv => NoLostWakeup
  BY DEF IInv
<1> QED BY <1>1, Invariance, PTL

\* A buffer in use has one owner: a process, or an asynchronous transfer.
THEOREM OwnershipSafe == Spec => []ExclusiveUse
<1>1. ASSUME IInv  PROVE ExclusiveUse
  <2> SUFFICES ASSUME NEW b \in Bufs
               PROVE  \/ \E p \in Procs :
                            /\ Users(b) = {p}
                            /\ ~Has(b, "ASYNC") /\ (Has(b, "BUSY") \/ Running(p, "notavail"))
                      \/ Users(b) = {} /\ Has(b, "BUSY") /\ Has(b, "ASYNC") /\ b \in Chain(ioq)
                      \/ Users(b) = {} /\ ~Has(b, "BUSY")
    BY DEF ExclusiveUse
  <2>1. \A p \in Procs : p \in Users(b) <=> Owns(p, b) \/ (Running(p, "notavail") /\ b = Cur(p))
    BY <1>1, CacheAssumption DEF IInv, TypeOK, CpuOK, LocalsOK, Users, Owns, OwnsMain,
       OwnsAhead, Cur, Running
  <2>2. CASE \E p \in Procs : Running(p, "notavail") /\ b = Cur(p)
    <3>1. PICK p \in Procs : Running(p, "notavail") /\ b = Cur(p)
      BY <2>2
    <3>2. ~Has(b, "BUSY") /\ \A q \in Procs : ~Owns(q, b)
      BY <1>1, <3>1 DEF IInv, LocalsOK, OwnersOK, Running
    <3>3. ~Has(b, "ASYNC")
      BY <1>1, <3>2 DEF IInv, OwnersOK, QueueExact
    <3>4. Users(b) = {p}
      <4>1. \A q \in Procs : q \in Users(b) <=> q = p
        BY <2>1, <3>1, <3>2 DEF Running
      <4> QED BY <4>1 DEF Users
    <3> QED BY <3>1, <3>3, <3>4
  <2>3. CASE ~\E p \in Procs : Running(p, "notavail") /\ b = Cur(p)
    <3>1. \A p \in Procs : p \in Users(b) <=> Owns(p, b)
      BY <2>1, <2>3
    <3>2. CASE \E p \in Procs : Owns(p, b)
      <4>1. PICK p \in Procs : Owns(p, b)
        BY <3>2
      <4>2. Has(b, "BUSY") /\ ~Has(b, "ASYNC") /\ \A q \in Procs : Owns(q, b) => q = p
        BY <1>1, <4>1 DEF IInv, OwnersOK
      <4>3. Users(b) = {p}
        <5>1. \A q \in Procs : q \in Users(b) <=> q = p
          BY <3>1, <4>1, <4>2
        <5> QED BY <5>1 DEF Users
      <4> QED BY <4>2, <4>3
    <3>3. CASE \A p \in Procs : ~Owns(p, b)
      <4>1. Users(b) = {}
        BY <3>1, <3>3 DEF Users
      <4> QED BY <1>1, <3>3, <4>1 DEF IInv, OwnersOK
    <3> QED BY <3>2, <3>3
  <2> QED BY <2>2, <2>3
<1> QED BY <1>1, Invariance, PTL

-----------------------------------------------------------------------------
(* What the cache is for: Bread and Breada hand over the current contents of *)
(* the block asked for, and the cache implements BlockStore, an array of     *)
(* blocks, for any number of processes, buffers, blocks and values.          *)
(*                                                                           *)
(* IInv says who has a buffer; BuffersOK adds what its flags say about its   *)
(* bytes and the disk, CallsOK what a process knows about the buffer it has. *)

\* A delayed write has valid bytes; a transfer that failed is of a failing block;
\* and valid bytes that need not be written are those of the disk.
BuffersOK ==
    \A b \in Bufs :
        /\ Has(b, "DELWRI") => Has(b, "DONE")
        /\ Has(b, "ERROR") => blk[b] \in Failing
        /\ Has(b, "DONE") /\ ~Has(b, "DELWRI") /\ blk[b] \in Sound => data[b] = disk[blk[b]]

\* The buffer of a call is the one of the block it asked for, valid by the time it is
\* handed over or its process woken, unless the call is GetBlk.
CallOK(p) ==
    /\ bp[p] # NoBuf => blk[bp[p]] = req[p].blk
    /\ Seeking(p) /\ ret[p] = "hold" => req[p].call = "getblk"
    /\ pc[p] = "hold" /\ req[p].call # "getblk" => Has(bp[p], "DONE")
    /\ pc[p] = "iowait" /\ chan[p] = NoBuf /\ cpu # p => Has(bp[p], "DONE")
    /\ pc[p] # "user" /\ uerror[p] => req[p].blk \in Failing

CallsOK == \A p \in Procs : CallOK(p)

StoreInv == IInv /\ BuffersOK /\ CallsOK

-----------------------------------------------------------------------------
\* The contents of a block, and what changes them

\* The buffer of a block decides if its bytes are valid, the disk if there is none.
ContentFacts ==
    \A k \in Blocks :
        /\ \A b \in Bufs : blk[b] = k /\ Valid(b) => Content(k) = data[b]
        /\ (\A b \in Bufs : blk[b] = k => ~Valid(b)) => Content(k) = disk[k]

LEMMA ContentIs == IInv => ContentFacts
<1> SUFFICES ASSUME IInv, NEW k \in Blocks
             PROVE  /\ \A b \in Bufs : blk[b] = k /\ Valid(b) => Content(k) = data[b]
                    /\ (\A b \in Bufs : blk[b] = k => ~Valid(b)) => Content(k) = disk[k]
  BY DEF ContentFacts
<1>1. k # NoBlock
  BY CacheAssumption
<1>2. ASSUME NEW b \in Bufs, blk[b] = k, Valid(b)  PROVE Content(k) = data[b]
  <2>1. \A c \in InCore(k) : c = b
    BY <1>1, <1>2 DEF IInv, OneCopy, InCore
  <2>2. b \in InCore(k)
    BY <1>2 DEF InCore
  <2>3. (CHOOSE c \in InCore(k) : Valid(c)) = b
    BY <1>2, <2>1, <2>2
  <2> QED BY <1>2, <2>2, <2>3 DEF Content
<1>3. ASSUME \A b \in Bufs : blk[b] = k => ~Valid(b)  PROVE Content(k) = disk[k]
  BY <1>3 DEF Content, InCore
<1> QED BY <1>2, <1>3

LEMMA ContentIsAfter == IInv' => ContentFacts'
BY ContentIs, PTL

\* A block whose buffer stays as it is keeps its contents.
LEMMA ContentKept ==
    ASSUME IInv, IInv', NEW k \in Blocks, disk'[k] = disk[k],
           \A b \in Bufs : blk'[b] = k <=> blk[b] = k,
           \A b \in Bufs : blk[b] = k => (Valid(b)' <=> Valid(b)) /\ data'[b] = data[b]
    PROVE  Content(k)' = Content(k)
<1>1. CASE \E b \in Bufs : blk[b] = k /\ Valid(b)
  <2>1. PICK b \in Bufs : blk[b] = k /\ Valid(b)
    BY <1>1
  <2>2. Content(k) = data[b]
    BY <2>1, ContentIs DEF ContentFacts
  <2>3. blk'[b] = k /\ Valid(b)'
    BY <2>1
  <2>4. Content(k)' = data'[b]
    BY <2>3, ContentIsAfter DEF ContentFacts
  <2> QED BY <2>1, <2>2, <2>4
<1>2. CASE \A b \in Bufs : blk[b] = k => ~Valid(b)
  <2>1. Content(k) = disk[k]
    BY <1>2, ContentIs DEF ContentFacts
  <2>2. Content(k)' = disk'[k]
    BY <1>2, ContentIsAfter DEF ContentFacts
  <2> QED BY <2>1, <2>2
<1> QED BY <1>1, <1>2

\* Steps that leave the bytes and what is said of them alone
LEMMA Quiet ==
    ASSUME IInv, IInv', BuffersOK, UNCHANGED <<blk, data, disk, ioq>>,
           \A b \in Bufs, f \in {"READ", "DONE", "ERROR", "DELWRI"} : Has(b, f)' <=> Has(b, f)
    PROVE  BuffersOK' /\ \A k \in Blocks : Content(k)' = Content(k)
<1>1. \A b \in Bufs : Valid(b)' <=> Valid(b)
  BY DEF Valid, Chain
<1>2. BuffersOK'
  BY DEF BuffersOK
<1> QED BY <1>1, <1>2, ContentKept

\* Strategy for a read: the buffer's bytes are not valid, nor will they be yet
LEMMA ReadStarts ==
    ASSUME IInv, IInv', BuffersOK, NEW b \in Bufs, b \notin Chain(ioq), ~Has(b, "DONE"),
           NEW F, F \subseteq {"READ", "ASYNC"}, "READ" \in F,
           flags' = [flags EXCEPT ![b] = @ \cup F], Strategy(b), UNCHANGED <<blk, data>>
    PROVE  BuffersOK' /\ \A k \in Blocks : Content(k)' = Content(k)
<1>1. disk' = disk
  BY DEF Strategy
<1>2. /\ \A c \in Bufs \ {b} : flags'[c] = flags[c]
      /\ flags'[b] = flags[b] \cup F
  BY DEF IInv, TypeOK
<1>3. Chain(ioq') = Chain(ioq) \cup {b}
  BY AppendChain DEF IInv, TypeOK, QueueExact, Strategy
<1>4. ~Valid(b) /\ ~Valid(b)'
  BY <1>2 DEF Valid, Has, Chain
<1>5. \A c \in Bufs \ {b} : Valid(c)' <=> Valid(c)
  BY <1>2, <1>3 DEF Valid, Has, Chain
<1>6. BuffersOK'
  BY <1>1, <1>2 DEF BuffersOK, Has
<1> QED BY <1>1, <1>4, <1>5, <1>6, ContentKept

\* Strategy for a write: the buffer's bytes, old or new, are the block's
LEMMA WriteStarts ==
    ASSUME IInv, IInv', BuffersOK, NEW b \in Bufs, b \notin Chain(ioq), NEW v,
           NEW F, F \cap {"READ", "DONE", "ERROR", "DELWRI"} = {},
           flags' = [flags EXCEPT ![b] = F], data' = [data EXCEPT ![b] = v],
           Strategy(b), UNCHANGED blk
    PROVE  /\ BuffersOK'
           /\ \A k \in Blocks : Content(k)' = IF k = blk[b] THEN v ELSE Content(k)
<1>1. disk' = disk
  BY DEF Strategy
<1>2. /\ \A c \in Bufs \ {b} : flags'[c] = flags[c] /\ data'[c] = data[c]
      /\ flags'[b] = F /\ data'[b] = v
  BY DEF IInv, TypeOK
<1>3. Chain(ioq') = Chain(ioq) \cup {b}
  BY AppendChain DEF IInv, TypeOK, QueueExact, Strategy
<1>4. Valid(b)'
  BY <1>2, <1>3 DEF Valid, Has, Chain
<1>5. \A c \in Bufs \ {b} : Valid(c)' <=> Valid(c)
  BY <1>2, <1>3 DEF Valid, Has, Chain
<1>6. BuffersOK'
  BY <1>1, <1>2 DEF BuffersOK, Has
<1>7. ASSUME NEW k \in Blocks, k = blk[b]  PROVE Content(k)' = v
  BY <1>2, <1>4, <1>7, ContentIsAfter DEF ContentFacts
<1>8. ASSUME NEW k \in Blocks, k # blk[b]  PROVE Content(k)' = Content(k)
  BY <1>1, <1>2, <1>5, <1>8, ContentKept
<1> QED BY <1>6, <1>7, <1>8

\* Bdwrite: new bytes, to be written later
LEMMA WriteDelayed ==
    ASSUME IInv, IInv', BuffersOK, NEW b \in Bufs, b \notin Chain(ioq), NEW v,
           flags' = [flags EXCEPT ![b] = @ \cup {"DELWRI", "DONE"}],
           data' = [data EXCEPT ![b] = v], UNCHANGED <<blk, disk, ioq>>
    PROVE  /\ BuffersOK'
           /\ \A k \in Blocks : Content(k)' = IF k = blk[b] THEN v ELSE Content(k)
<1>1. /\ \A c \in Bufs \ {b} : flags'[c] = flags[c] /\ data'[c] = data[c]
      /\ flags'[b] = flags[b] \cup {"DELWRI", "DONE"} /\ data'[b] = v
  BY DEF IInv, TypeOK
<1>2. Valid(b)' /\ \A c \in Bufs \ {b} : Valid(c)' <=> Valid(c)
  BY <1>1 DEF Valid, Has, Chain
<1>3. BuffersOK'
  BY <1>1 DEF BuffersOK, Has
<1>4. ASSUME NEW k \in Blocks, k = blk[b]  PROVE Content(k)' = v
  BY <1>1, <1>2, <1>4, ContentIsAfter DEF ContentFacts
<1>5. ASSUME NEW k \in Blocks, k # blk[b]  PROVE Content(k)' = Content(k)
  BY <1>1, <1>2, <1>5, ContentKept
<1> QED BY <1>3, <1>4, <1>5

\* WriteI after a failed read: the block is none of those that are promised
LEMMA Spoiled ==
    ASSUME IInv, IInv', BuffersOK, NEW b \in Bufs, blk[b] \in Failing, NEW v,
           data' = [data EXCEPT ![b] = v], UNCHANGED <<flags, blk, disk, ioq>>
    PROVE  BuffersOK' /\ \A k \in Sound : Content(k)' = Content(k)
<1>1. \A c \in Bufs \ {b} : data'[c] = data[c]
  BY DEF IInv, TypeOK
<1>2. \A c \in Bufs : Valid(c)' <=> Valid(c)
  BY DEF Valid, Has, Chain
<1>3. blk[b] \notin Sound
  BY DEF Sound
<1>4. BuffersOK'
  BY <1>1, <1>3 DEF BuffersOK, Has
<1>5. ASSUME NEW k \in Sound  PROVE Content(k)' = Content(k)
  <2>1. k \in Blocks /\ k # blk[b]
    BY <1>3 DEF Sound
  <2> QED BY <1>1, <1>2, <2>1, ContentKept
<1> QED BY <1>4, <1>5

\* GetBlk gives a clean free buffer another block
LEMMA Renamed ==
    ASSUME IInv, IInv', BuffersOK, NEW b \in Bufs, ~Has(b, "BUSY"), ~Has(b, "DELWRI"),
           NEW k0 \in Blocks, InCore(k0) = {},
           flags' = [flags EXCEPT ![b] = {"BUSY"}], blk' = [blk EXCEPT ![b] = k0],
           UNCHANGED <<data, disk, ioq>>
    PROVE  BuffersOK' /\ \A k \in Sound : Content(k)' = Content(k)
<1>1. /\ \A c \in Bufs \ {b} : flags'[c] = flags[c] /\ blk'[c] = blk[c]
      /\ flags'[b] = {"BUSY"} /\ blk'[b] = k0
  BY DEF IInv, TypeOK
<1>2. b \notin Chain(ioq)
  BY DEF IInv, QueueExact
<1>3. ~Valid(b)' /\ \A c \in Bufs \ {b} : Valid(c)' <=> Valid(c)
  BY <1>1, <1>2 DEF Valid, Has, Chain
<1>4. BuffersOK'
  BY <1>1 DEF BuffersOK, Has
<1>5. ASSUME NEW k \in Sound  PROVE Content(k)' = Content(k)
  <2>1. k \in Blocks /\ k # NoBlock
    BY CacheAssumption DEF Sound
  <2>2. CASE k = k0
    <3>1. \A c \in Bufs : blk[c] # k
      BY <2>2 DEF InCore
    <3>2. Content(k) = disk[k]
      BY <2>1, <3>1, ContentIs DEF ContentFacts
    <3>3. \A c \in Bufs : blk'[c] = k => ~Valid(c)'
      BY <1>1, <1>3, <3>1
    <3>4. Content(k)' = disk'[k]
      BY <2>1, <3>3, ContentIsAfter DEF ContentFacts
    <3> QED BY <3>2, <3>4
  <2>3. CASE k # k0 /\ k = blk[b]
    <3>1. \A c \in Bufs \ {b} : blk[c] # k
      BY <2>1, <2>3 DEF IInv, OneCopy
    <3>2. Content(k)' = disk'[k]
      <4>1. \A c \in Bufs : blk'[c] # k
        BY <1>1, <2>3, <3>1
      <4> QED BY <2>1, <4>1, ContentIsAfter DEF ContentFacts
    <3>3. Content(k) = disk[k]
      <4>1. CASE Valid(b)
        BY <1>2, <2>1, <2>3, <4>1, ContentIs DEF ContentFacts, Valid, BuffersOK
      <4>2. CASE ~Valid(b)
        BY <2>1, <3>1, <4>2, ContentIs DEF ContentFacts
      <4> QED BY <4>1, <4>2
    <3> QED BY <3>2, <3>3
  <2>4. CASE k # k0 /\ k # blk[b]
    BY <1>1, <1>3, <2>1, <2>4, ContentKept
  <2> QED BY <2>2, <2>3, <2>4
<1> QED BY <1>4, <1>5

\* What IODone does to the flags of the buffer at the head of the chain
LEMMA FlagsDone ==
    ASSUME IInv, NEW b \in Bufs, NEW f, IODone(b, f)
    PROVE  /\ \A c \in Bufs \ {b} : flags'[c] = flags[c]
           /\ \A g \in {"READ", "ERROR", "DELWRI"} : g \in flags'[b] <=> g \in f
           /\ "DONE" \in flags'[b]
<1>1. PICK gone \in SUBSET {"WANTED", "BUSY", "ASYNC"} :
          flags' = [flags EXCEPT ![b] = (f \cup {"DONE"}) \ gone]
  BY DEF IODone
<1>2. flags \in [Bufs -> SUBSET Flag]
  BY DEF IInv, TypeOK
<1> QED BY <1>1, <1>2

\* The request at the head of the chain
LEMMA AtHead ==
    ASSUME IInv, active # 0
    PROVE  /\ Head(ioq) \in Bufs /\ Head(ioq) \in Chain(ioq)
           /\ Chain(Tail(ioq)) = Chain(ioq) \ {Head(ioq)}
           /\ Has(Head(ioq), "BUSY") /\ ~Has(Head(ioq), "DONE")
           /\ blk[Head(ioq)] \in Blocks
           /\ flags[Head(ioq)] \in SUBSET Flag
<1>1. ioq \in Seq(Bufs) /\ Distinct(ioq) /\ ioq # <<>>
  BY DEF IInv, TypeOK, QueueExact
<1>2. /\ Head(ioq) \in Bufs /\ Head(ioq) \in Chain(ioq)
      /\ Chain(Tail(ioq)) = Chain(ioq) \ {Head(ioq)}
  BY <1>1, TailChain
<1>3. Has(Head(ioq), "BUSY") /\ ~Has(Head(ioq), "DONE")
  BY <1>2 DEF IInv, QueueExact
<1> QED BY <1>2, <1>3 DEF IInv, NamesOK, Has, TypeOK

\* The end of a transfer: bytes and disk agree, on what Content said before
LEMMA TransferEnds ==
    ASSUME IInv, IInv', BuffersOK, TransferDone
    PROVE  BuffersOK' /\ \A k \in Blocks : Content(k)' = Content(k)
<1>0. PICK b \in Bufs : b = Head(ioq)
  BY AtHead DEF TransferDone
<1>1. active # 0 /\ IODone(b, flags[b]) /\ ioq' = Tail(ioq) /\ blk' = blk
  BY <1>0 DEF TransferDone, NextRequest
<1>2. /\ b \in Bufs /\ b \in Chain(ioq) /\ Chain(Tail(ioq)) = Chain(ioq) \ {b}
      /\ Has(b, "BUSY") /\ ~Has(b, "DONE") /\ blk[b] \in Blocks /\ flags[b] \in SUBSET Flag
  BY <1>0, <1>1, AtHead
<1>3. \/ Has(b, "READ") /\ data' = [data EXCEPT ![b] = disk[blk[b]]] /\ disk' = disk
      \/ ~Has(b, "READ") /\ disk' = [disk EXCEPT ![blk[b]] = data[b]] /\ data' = data
  BY <1>0 DEF TransferDone
<1>4. /\ \A c \in Bufs \ {b} : flags'[c] = flags[c]
      /\ \A g \in {"READ", "ERROR", "DELWRI"} : Has(b, g)' <=> Has(b, g)
      /\ Has(b, "DONE")'
  <2>1. /\ \A c \in Bufs \ {b} : flags'[c] = flags[c]
        /\ \A g \in {"READ", "ERROR", "DELWRI"} : g \in flags'[b] <=> g \in flags[b]
        /\ "DONE" \in flags'[b]
    BY <1>1, <1>2, FlagsDone
  <2> QED BY <2>1 DEF Has
<1>5. /\ \A c \in Bufs \ {b} : data'[c] = data[c]
      /\ \A k \in Blocks \ {blk[b]} : disk'[k] = disk[k]
      /\ disk'[blk[b]] = data'[b]
  BY <1>2, <1>3 DEF IInv, TypeOK
<1>6. \A c \in Bufs : c # b => blk[c] # blk[b]
  <2>1. blk[b] # NoBlock
    BY <1>2, CacheAssumption
  <2> QED BY <1>2, <2>1 DEF IInv, OneCopy
<1>7. \A c \in Bufs \ {b} : Valid(c)' <=> Valid(c)
  BY <1>1, <1>2, <1>4 DEF Valid, Has, Chain
<1>8. BuffersOK'
  <2> SUFFICES ASSUME NEW c \in Bufs
               PROVE  /\ Has(c, "DELWRI")' => Has(c, "DONE")'
                      /\ Has(c, "ERROR")' => blk'[c] \in Failing
                      /\ Has(c, "DONE")' /\ ~Has(c, "DELWRI")' /\ blk'[c] \in Sound
                            => data'[c] = disk'[blk'[c]]
    BY DEF BuffersOK
  <2>1. CASE c = b
    BY <1>1, <1>2, <1>4, <1>5, <2>1 DEF BuffersOK, Has
  <2>2. CASE c # b
    BY <1>1, <1>4, <1>5, <1>6, <2>2 DEF BuffersOK, Has, Sound
  <2> QED BY <2>1, <2>2
<1>9. ASSUME NEW k \in Blocks, k = blk[b]  PROVE Content(k)' = Content(k)
  <2>1. Content(k)' = data'[b]
    <3>1. Valid(b)'
      BY <1>4 DEF Valid
    <3> QED BY <1>1, <1>2, <1>9, <3>1, ContentIsAfter DEF ContentFacts
  <2>2. CASE Has(b, "READ")
    <3>1. \A c \in Bufs : blk[c] = k => ~Valid(c)
      BY <1>2, <1>6, <1>9, <2>2 DEF Valid
    <3>2. Content(k) = disk[k]
      BY <3>1, ContentIs DEF ContentFacts
    <3>3. data'[b] = disk[k]
      BY <1>2, <1>3, <1>9, <2>2 DEF IInv, TypeOK
    <3> QED BY <2>1, <3>2, <3>3
  <2>3. CASE ~Has(b, "READ")
    <3>1. Content(k) = data[b]
      BY <1>2, <1>9, <2>3, ContentIs DEF ContentFacts, Valid
    <3> QED BY <1>3, <2>1, <2>3, <3>1
  <2> QED BY <2>2, <2>3
<1>10. ASSUME NEW k \in Blocks, k # blk[b]  PROVE Content(k)' = Content(k)
  BY <1>1, <1>5, <1>7, <1>10, ContentKept
<1> QED BY <1>8, <1>9, <1>10

\* A transfer that is given up: the block is none of those that are promised
LEMMA TransferGivenUp ==
    ASSUME IInv, IInv', BuffersOK, TransferFailed
    PROVE  BuffersOK' /\ \A k \in Sound : Content(k)' = Content(k)
<1>0. PICK b \in Bufs : b = Head(ioq)
  BY AtHead DEF TransferFailed
<1>1. /\ active # 0 /\ IODone(b, flags[b] \cup {"ERROR"}) /\ ioq' = Tail(ioq)
      /\ blk[b] \in Failing /\ UNCHANGED <<blk, data, disk>>
  BY <1>0 DEF TransferFailed, NextRequest
<1>2. /\ b \in Bufs /\ b \in Chain(ioq) /\ Chain(Tail(ioq)) = Chain(ioq) \ {b}
      /\ ~Has(b, "DONE") /\ blk[b] \in Blocks /\ flags[b] \cup {"ERROR"} \in SUBSET Flag
  BY <1>0, <1>1, AtHead DEF Flag
<1>3. /\ \A c \in Bufs \ {b} : flags'[c] = flags[c]
      /\ "DONE" \in flags'[b]
  BY <1>1, <1>2, FlagsDone
<1>4. \A c \in Bufs \ {b} : Valid(c)' <=> Valid(c)
  <2>1. Chain(ioq)' = Chain(ioq) \ {b}
    BY <1>1, <1>2 DEF Chain
  <2> QED BY <1>3, <2>1 DEF Valid, Has
<1>5. blk[b] \notin Sound
  BY <1>1 DEF Sound
<1>6. BuffersOK'
  <2> SUFFICES ASSUME NEW c \in Bufs
               PROVE  /\ Has(c, "DELWRI")' => Has(c, "DONE")'
                      /\ Has(c, "ERROR")' => blk'[c] \in Failing
                      /\ Has(c, "DONE")' /\ ~Has(c, "DELWRI")' /\ blk'[c] \in Sound
                            => data'[c] = disk'[blk'[c]]
    BY DEF BuffersOK
  <2>1. CASE c = b
    BY <1>1, <1>3, <1>5, <2>1 DEF Has
  <2>2. CASE c # b
    BY <1>1, <1>3, <2>2 DEF BuffersOK, Has
  <2> QED BY <2>1, <2>2
<1>7. ASSUME NEW k \in Sound  PROVE Content(k)' = Content(k)
  <2>1. k \in Blocks /\ k # blk[b]
    BY <1>5 DEF Sound
  <2> QED BY <1>1, <1>4, <2>1, ContentKept
<1> QED BY <1>6, <1>7


-----------------------------------------------------------------------------
\* One process runs: what that means for the others and for BlockStore

\* The block that BlockStore sees p using
Held(p) == IF pc[p] = "hold" /\ req[p].blk \in Sound THEN req[p].blk ELSE NoBlock

StoreStep == [Store!StoreNext]_(Store!svars)

\* Nobody else has a hold of the same block.
Apart ==
    \A p, q \in Procs :
        pc[p] = "hold" /\ pc[q] = "hold" /\ req[p].blk = req[q].blk => p = q

LEMMA HoldersApart == IInv /\ CallsOK => Apart
<1> SUFFICES ASSUME IInv, CallsOK, NEW p \in Procs, NEW q \in Procs,
                    pc[p] = "hold", pc[q] = "hold", req[p].blk = req[q].blk
             PROVE  p = q
  BY DEF Apart
<1>1. bp[p] # NoBuf /\ bp[q] # NoBuf /\ bp[p] \in Bufs /\ bp[q] \in Bufs
  BY DEF IInv, LocalsOK, TypeOK
<1>2. Owns(p, bp[p]) /\ Owns(q, bp[q])
  BY <1>1 DEF Owns, OwnsMain
<1>3. blk[bp[p]] = blk[bp[q]]
  BY <1>1 DEF CallsOK, CallOK
<1>4. blk[bp[p]] # NoBlock
  <2>1. flags[bp[p]] # {}
    BY <1>1, <1>2 DEF IInv, OwnersOK, Has
  <2> QED BY <1>1, <2>1, CacheAssumption DEF IInv, NamesOK
<1>5. bp[p] = bp[q]
  BY <1>1, <1>3, <1>4 DEF IInv, OneCopy
<1> QED BY <1>1, <1>2, <1>5 DEF IInv, OwnersOK

LEMMA HoldersApartAfter == IInv' /\ CallsOK' => Apart'
BY HoldersApart, PTL

\* The variables of BlockStore, as the refinement names them
LEMMA StoreVars ==
    Store!svars = <<[k \in Sound |-> Content(k)], [q \in Procs |-> Held(q)]>>
BY DEF Store!svars, Held

LEMMA ContentsSame ==
    ASSUME \A k \in Sound : Content(k)' = Content(k)
    PROVE  [k \in Sound |-> Content(k)]' = [k \in Sound |-> Content(k)]
OBVIOUS

LEMMA HeldSame ==
    ASSUME \A q \in Procs : Held(q)' = Held(q)
    PROVE  [q \in Procs |-> Held(q)]' = [q \in Procs |-> Held(q)]
OBVIOUS

LEMMA SameStore ==
    ASSUME \A k \in Sound : Content(k)' = Content(k), \A q \in Procs : Held(q)' = Held(q)
    PROVE  StoreStep
BY ContentsSame, HeldSame, StoreVars DEF StoreStep, Held, Store!svars


\* What the other processes and their buffers keep while p runs
OthersStay(p) ==
    \A q \in Procs \ {p} :
        /\ pc'[q] = pc[q] /\ ret'[q] = ret[q] /\ req'[q] = req[q]
        /\ bp'[q] = bp[q] /\ uerror'[q] = uerror[q] /\ cpu # q
        /\ pc[q] = "iowait" /\ chan'[q] = NoBuf => chan[q] = NoBuf
        /\ bp[q] # NoBuf => /\ blk'[bp[q]] = blk[bp[q]]
                            /\ "DONE" \in flags[bp[q]] => "DONE" \in flags'[bp[q]]

LEMMA OthersKept ==
    ASSUME IInv, CallsOK, NEW p \in Procs, OthersStay(p)
    PROVE  \A q \in Procs \ {p} : CallOK(q)' /\ Held(q)' = Held(q)
<1> SUFFICES ASSUME NEW q \in Procs \ {p}  PROVE CallOK(q)' /\ Held(q)' = Held(q)
  OBVIOUS
<1>1. /\ pc'[q] = pc[q] /\ ret'[q] = ret[q] /\ req'[q] = req[q]
      /\ bp'[q] = bp[q] /\ uerror'[q] = uerror[q] /\ cpu # q
      /\ pc[q] = "iowait" /\ chan'[q] = NoBuf => chan[q] = NoBuf
      /\ bp[q] # NoBuf => /\ blk'[bp[q]] = blk[bp[q]]
                          /\ "DONE" \in flags[bp[q]] => "DONE" \in flags'[bp[q]]
  BY DEF OthersStay
<1>2. Held(q)' = Held(q)
  BY <1>1 DEF Held
<1>3. pc[q] \in {"hold", "iowait"} => bp[q] # NoBuf
  BY DEF IInv, LocalsOK
<1>4. CallOK(q)'
  BY <1>1, <1>3 DEF CallsOK, CallOK, Seeking, Has
<1> QED BY <1>2, <1>4

\* p neither has a block before nor after, or only one of both: a step of BlockStore
LEMMA TakesOrGives ==
    ASSUME IInv, IInv', CallsOK, CallsOK', NEW p \in Procs, OthersStay(p),
           \A k \in Sound : Content(k)' = Content(k), pc[p] # "hold" \/ pc'[p] # "hold"
    PROVE  StoreStep
<1>1. \A q \in Procs \ {p} : Held(q)' = Held(q)
  BY OthersKept
<1>2. NoBlock \notin Sound
  BY CacheAssumption DEF Sound
<1> DEFINE U == [q \in Procs |-> Held(q)]
<1>3. U' = [U EXCEPT ![p] = Held(p)']
  BY <1>1
<1>4. CASE Held(p)' = Held(p)
  BY <1>1, <1>4, SameStore
<1>5. CASE Held(p)' # Held(p) /\ Held(p)' # NoBlock
  <2>1. Held(p) = NoBlock /\ pc'[p] = "hold" /\ Held(p)' \in Sound
    BY <1>5 DEF Held
  <2>2. ASSUME NEW q \in Procs  PROVE Held(q) # Held(p)'
    <3>1. CASE q = p
      BY <1>5, <3>1
    <3>2. CASE q # p
      <4>1. Held(q)' # Held(p)'
        <5>1. SUFFICES ASSUME Held(q)' = Held(p)'  PROVE FALSE
          OBVIOUS
        <5>2. pc'[q] = "hold" /\ req'[q].blk = req'[p].blk
          BY <1>2, <2>1, <5>1 DEF Held
        <5> QED BY <2>1, <3>2, <5>2, HoldersApartAfter DEF Apart
      <4> QED BY <1>1, <3>2, <4>1
    <3> QED BY <3>1, <3>2
  <2>3. U[p] = NoBlock /\ \A q \in Procs : U[q] # Held(p)'
    BY <2>1, <2>2
  <2> QED BY <1>3, <2>1, <2>3, ContentsSame
          DEF StoreStep, Held, Store!svars, Store!StoreNext, Store!Acquire
<1>6. CASE Held(p)' # Held(p) /\ Held(p)' = NoBlock
  <2>1. Held(p) \in Sound
    BY <1>6 DEF Held
  <2>2. U[p] \in Sound
    BY <2>1
  <2> QED BY <1>3, <1>6, <2>2, ContentsSame
          DEF StoreStep, Held, Store!svars, Store!StoreNext, Store!GiveUp
<1> QED BY <1>4, <1>5, <1>6

\* p replaces the bytes of its block and gives it up.
LEMMA Stores ==
    ASSUME IInv, IInv', CallsOK, NEW p \in Procs, OthersStay(p), NEW v \in Values,
           pc[p] = "hold", pc'[p] # "hold",
           \A k \in Blocks : Content(k)' = IF k = req[p].blk THEN v ELSE Content(k)
    PROVE  StoreStep
<1>1. \A q \in Procs \ {p} : Held(q)' = Held(q)
  BY OthersKept
<1>2. Held(p)' = NoBlock
  BY DEF Held
<1>3. CASE req[p].blk \in Sound
  <2> DEFINE U == [q \in Procs |-> Held(q)]
             C == [k \in Sound |-> Content(k)]
  <2>1. U' = [U EXCEPT ![p] = NoBlock]
    BY <1>1, <1>2
  <2>2. U[p] = req[p].blk
    BY <1>3 DEF Held
  <2>3. C' = [C EXCEPT ![U[p]] = v]
    BY <1>3, <2>2 DEF Sound
  <2> QED BY <1>3, <2>1, <2>2, <2>3
          DEF StoreStep, Held, Store!svars, Store!StoreNext, Store!Store
<1>4. CASE req[p].blk \notin Sound
  <2>1. \A k \in Sound : Content(k)' = Content(k)
    BY <1>4 DEF Sound
  <2>2. \A q \in Procs : Held(q)' = Held(q)
    BY <1>1, <1>2, <1>4 DEF Held
  <2> QED BY <2>1, <2>2, SameStore
<1> QED BY <1>3, <1>4

\* The buffers of the others are in use, and not those of the process that runs.
LEMMA OthersBuffers ==
    ASSUME IInv, NEW p \in Procs, cpu = p, NEW q \in Procs \ {p}, bp[q] # NoBuf
    PROVE  /\ bp[q] \in Bufs /\ Owns(q, bp[q]) /\ Has(bp[q], "BUSY") /\ ~Has(bp[q], "ASYNC")
           /\ bp[q] # bp[p] /\ bp[q] # abp[p]
<1>1. pc[q] # "notavail"
  BY DEF IInv, CpuOK
<1>2. bp[q] \in Bufs /\ Owns(q, bp[q])
  BY <1>1 DEF IInv, TypeOK, Owns, OwnsMain
<1>3. Has(bp[q], "BUSY") /\ ~Has(bp[q], "ASYNC")
  BY <1>2 DEF IInv, OwnersOK
<1>4. ASSUME NEW c \in {bp[p], abp[p]}, c = bp[q]  PROVE FALSE
  <2>1. CASE Owns(p, c)
    BY <1>2, <1>4, <2>1 DEF IInv, OwnersOK
  <2>2. CASE ~Owns(p, c)
    <3>1. c # NoBuf
      BY <1>4
    <3>2. pc[p] = "notavail" /\ c = Cur(p)
      BY <1>4, <2>2, <3>1 DEF Owns, OwnsMain, OwnsAhead, Cur
    <3> QED BY <1>3, <1>4, <3>2 DEF IInv, LocalsOK
  <2> QED BY <2>1, <2>2
<1> QED BY <1>2, <1>3, <1>4

LEMMA Stays ==
    ASSUME IInv, NEW p \in Procs, cpu = p,
           \A q \in Procs \ {p} :
               /\ pc'[q] = pc[q] /\ ret'[q] = ret[q] /\ req'[q] = req[q]
               /\ bp'[q] = bp[q] /\ uerror'[q] = uerror[q]
               /\ pc[q] = "iowait" /\ chan'[q] = NoBuf => chan[q] = NoBuf,
           \A c \in Bufs : Has(c, "BUSY") /\ c \notin {bp[p], abp[p]} =>
               blk'[c] = blk[c] /\ ("DONE" \in flags[c] => "DONE" \in flags'[c])
    PROVE  OthersStay(p)
<1>1. \A q \in Procs \ {p} : bp[q] # NoBuf =>
          /\ blk'[bp[q]] = blk[bp[q]]
          /\ "DONE" \in flags[bp[q]] => "DONE" \in flags'[bp[q]]
  BY OthersBuffers
<1> QED BY <1>1 DEF OthersStay


-----------------------------------------------------------------------------
\* The actions

\* p does its part; flags of other kinds than those of the bytes may change.
LEMMA QuietStep ==
    ASSUME StoreInv, IInv', NEW p \in Procs, cpu = p, UNCHANGED <<blk, data, disk, ioq>>,
           \A b \in Bufs, f \in {"READ", "DONE", "ERROR", "DELWRI"} :
               f \in flags'[b] <=> f \in flags[b],
           \A q \in Procs \ {p} :
               /\ pc'[q] = pc[q] /\ ret'[q] = ret[q] /\ req'[q] = req[q]
               /\ bp'[q] = bp[q] /\ uerror'[q] = uerror[q]
               /\ pc[q] = "iowait" /\ chan'[q] = NoBuf => chan[q] = NoBuf,
           pc[p] # "hold" \/ pc'[p] # "hold", CallOK(p)'
    PROVE  StoreInv' /\ StoreStep
<1> USE DEF StoreInv
<1>1. OthersStay(p)
  BY Stays
<1>2. BuffersOK' /\ \A k \in Blocks : Content(k)' = Content(k)
  BY Quiet DEF Has
<1>3. CallsOK'
  BY <1>1, OthersKept DEF CallsOK
<1> QED BY <1>1, <1>2, <1>3, TakesOrGives DEF Sound

LEMMA GetBlkKeeps ==
    ASSUME StoreInv, IInv', NEW p \in Procs,
           \/ GetBlkBusy(p) \/ GetBlkHit(p) \/ GetBlkNoFree(p) \/ GetBlkSomeFree(p)
    PROVE  StoreInv' /\ StoreStep
<1> USE DEF StoreInv, IInv, TypeOK
<1>0. bp \in [Procs -> Bufs \cup {NoBuf}] /\ CallOK(p) /\ cpu = p /\ pc[p] = "getblk"
  BY DEF CallsOK, GetBlkBusy, GetBlkHit, GetBlkNoFree, GetBlkSomeFree, Running
<1>1. CASE GetBlkBusy(p)
  <2>1. /\ UNCHANGED <<blk, data, disk, ioq, ret, req, bp, uerror>>
        /\ pc' = [pc EXCEPT ![p] = "getblk"]
    BY <1>1 DEF GetBlkBusy, SleepOn, Goto, diskVars
  <2>2. \E b \in Bufs : /\ flags' = [flags EXCEPT ![b] = @ \cup {"WANTED"}]
                        /\ chan' = [chan EXCEPT ![p] = b]
    BY <1>1 DEF GetBlkBusy, SleepOn, InCore
  <2>3. CallOK(p)'
    BY <1>0, <2>1 DEF CallOK, Seeking
  <2> QED BY <1>0, <2>1, <2>2, <2>3, QuietStep
<1>2. CASE GetBlkHit(p)
  <2>1. /\ UNCHANGED <<blk, data, disk, ioq, flags, chan, ret, req, uerror>>
        /\ pc' = [pc EXCEPT ![p] = "notavail"]
    BY <1>2 DEF GetBlkHit, Goto, diskVars, cacheVars
  <2>2. \E b \in Bufs : blk[b] = Want(p) /\ SetCur(p, b)
    BY <1>2 DEF GetBlkHit, InCore
  <2>3. /\ \A q \in Procs \ {p} : bp'[q] = bp[q]
        /\ bp'[p] # bp[p] => blk[bp'[p]] = req[p].blk
    BY <1>0, <2>2 DEF SetCur, Want
  <2>4. CallOK(p)'
    BY <1>0, <2>1, <2>3 DEF CallOK, Seeking
  <2> QED BY <1>0, <2>1, <2>3, <2>4, QuietStep
<1>3. CASE GetBlkNoFree(p)
  <2>1. /\ UNCHANGED <<blk, data, disk, ioq, flags, ret, req, bp, uerror>>
        /\ pc' = [pc EXCEPT ![p] = "getblk"] /\ chan' = [chan EXCEPT ![p] = FreeList]
    BY <1>3 DEF GetBlkNoFree, SleepOn, Goto, diskVars
  <2>2. CallOK(p)'
    BY <1>0, <2>1 DEF CallOK, Seeking
  <2> QED BY <1>0, <2>1, <2>2, QuietStep
<1>4. CASE GetBlkSomeFree(p)
  <2>1. /\ UNCHANGED <<blk, data, disk, ioq, flags, ret, req, bp, chan, uerror>>
        /\ pc' = [pc EXCEPT ![p] = "take"]
    BY <1>4 DEF GetBlkSomeFree, Goto, diskVars, cacheVars
  <2>2. CallOK(p)'
    BY <1>0, <2>1 DEF CallOK, Seeking
  <2> QED BY <1>0, <2>1, <2>2, QuietStep
<1> QED BY <1>1, <1>2, <1>3, <1>4

LEMMA NotAvailKeeps ==
    ASSUME StoreInv, IInv', NEW p \in Procs, NotAvail(p)
    PROVE  StoreInv' /\ StoreStep
<1> USE DEF StoreInv, IInv, TypeOK
<1>1. CallOK(p) /\ cpu = p /\ pc[p] = "notavail"
  BY DEF CallsOK, NotAvail, Running
<1>2. /\ UNCHANGED <<blk, data, disk, ioq, ret, req, bp, chan, uerror>>
      /\ pc' = [pc EXCEPT ![p] = ret[p]]
      /\ flags' = [flags EXCEPT ![Cur(p)] = @ \cup {"BUSY"}]
  BY DEF NotAvail, Goto, diskVars
<1>3. ret[p] \in {"hold", "bread", "rafirst", "raissue"}
  BY <1>1 DEF RetOK
<1>4. CallOK(p)'
  BY <1>1, <1>2, <1>3 DEF CallOK, Seeking
<1>5. \A b \in Bufs, f \in {"READ", "DONE", "ERROR", "DELWRI"} : f \in flags'[b] <=> f \in flags[b]
  BY <1>2
<1> QED BY <1>1, <1>2, <1>4, <1>5, QuietStep


LEMMA BrelseKeeps ==
    ASSUME StoreInv, IInv', NEW p \in Procs, Brelse(p)
    PROVE  StoreInv' /\ StoreStep
<1> USE DEF StoreInv
<1>1. CallOK(p) /\ cpu = p /\ pc[p] = "brelse" /\ pc \in [Procs -> Label]
  BY DEF CallsOK, Brelse, Running, IInv, TypeOK
<1>2. /\ UNCHANGED <<blk, data, disk, ioq, flags, ret, req, bp, uerror>>
      /\ pc' = [pc EXCEPT ![p] = "putfree"]
  BY DEF Brelse, Goto, diskVars
<1>3. ASSUME NEW q \in Procs \ {p}, pc[q] = "iowait", chan'[q] = NoBuf  PROVE chan[q] = NoBuf
  <2>1. SUFFICES ASSUME chan[q] # NoBuf  PROVE FALSE
    OBVIOUS
  <2>2. chan[q] \in {Cur(p), FreeList}
    BY <1>3, <2>1 DEF Brelse
  <2>3. chan[q] = bp[q] /\ bp[q] # NoBuf
    BY <1>3, <2>1 DEF IInv, SleepOK
  <2>4. bp[q] \in Bufs /\ bp[q] # Cur(p)
    BY <1>1, <2>3, OthersBuffers DEF Cur
  <2> QED BY <2>2, <2>3, <2>4, CacheAssumption
<1>4. CallOK(p)'
  BY <1>1, <1>2 DEF CallOK, Seeking
<1> QED BY <1>1, <1>2, <1>3, <1>4, QuietStep

LEMMA PutFreeKeeps ==
    ASSUME StoreInv, IInv', NEW p \in Procs, PutFree(p)
    PROVE  StoreInv' /\ StoreStep
<1> USE DEF StoreInv, IInv, TypeOK
<1>1. CallOK(p) /\ cpu = p /\ pc[p] = "putfree"
  BY DEF CallsOK, PutFree, Running
<1>2. /\ UNCHANGED <<blk, data, disk, ioq, chan, uerror>>
      /\ flags' = [flags EXCEPT ![Cur(p)] = @ \ {"WANTED", "BUSY", "ASYNC"}]
      /\ SetCur(p, NoBuf)
  BY DEF PutFree, diskVars
<1>3. \/ /\ ret[p] = "user" /\ pc' = [pc EXCEPT ![p] = "user"]
         /\ req' = [req EXCEPT ![p] = NoReq] /\ ret' = [ret EXCEPT ![p] = "user"]
      \/ ret[p] = "rafinish" /\ pc' = [pc EXCEPT ![p] = "rafinish"] /\ UNCHANGED <<req, ret>>
  BY DEF PutFree, Leave, Goto
<1>4. CallOK(p)'
  <2>1. CASE ret[p] = "user"
    <3>1. bp'[p] = NoBuf /\ pc'[p] = "user"
      BY <1>2, <1>3, <2>1 DEF SetCur, Ahead
    <3> QED BY <3>1 DEF CallOK, Seeking
  <2>2. CASE ret[p] = "rafinish"
    <3>1. bp' = bp /\ pc'[p] = "rafinish" /\ UNCHANGED <<req, ret>>
      BY <1>2, <1>3, <2>2 DEF SetCur, Ahead
    <3> QED BY <1>1, <1>2, <3>1 DEF CallOK, Seeking
  <2> QED BY <1>3, <2>1, <2>2
<1>5. \A b \in Bufs, f \in {"READ", "DONE", "ERROR", "DELWRI"} : f \in flags'[b] <=> f \in flags[b]
  BY <1>2
<1>6. \A q \in Procs \ {p} : bp'[q] = bp[q]
  BY <1>2 DEF SetCur
<1>7. \A q \in Procs \ {p} : pc'[q] = pc[q] /\ ret'[q] = ret[q] /\ req'[q] = req[q]
  BY <1>3
<1> QED BY <1>1, <1>2, <1>4, <1>5, <1>6, <1>7, QuietStep

LEMMA BreadKeeps ==
    ASSUME StoreInv, IInv', NEW p \in Procs,
           \/ BreadHit(p) \/ BreadaFirst(p) \/ BreadaNext(p)
           \/ BreadaAheadHit(p) \/ BreadaFinish(p)
           \/ BreadaStart(p) /\ Has(bp[p], "DONE")
    PROVE  StoreInv' /\ StoreStep
<1> USE DEF StoreInv, IInv, TypeOK
<1>1. /\ CallOK(p) /\ cpu = p
      /\ pc[p] \in {"bread", "incore", "rafirst", "ranext", "raissue", "rafinish"}
      /\ UNCHANGED <<blk, data, disk, ioq, flags, req, bp, chan, uerror, cpu>>
  BY DEF CallsOK, BreadHit, BreadaFirst, BreadaStart, BreadaNext, BreadaAheadHit,
         BreadaFinish, Running, cacheVars, diskVars
<1>2. PICK l \in {"getblk", "ranext", "rafinish", "brelse", "iowait", "hold"},
           r \in {"rafirst", "raissue", "rafinish", "bread", "hold", ret[p]} :
          /\ pc' = [pc EXCEPT ![p] = l] /\ ret' = [ret EXCEPT ![p] = r]
          /\ l = "hold" => Has(bp[p], "DONE")
          /\ l = "getblk" => r # "hold"
  BY DEF BreadHit, BreadaFirst, BreadaStart, BreadaNext, BreadaAheadHit, BreadaFinish, Goto
<1>3. CallOK(p)'
  BY <1>1, <1>2 DEF CallOK, Seeking, Has
<1> QED BY <1>1, <1>2, <1>3, QuietStep

LEMMA IOWaitKeeps ==
    ASSUME StoreInv, IInv', NEW p \in Procs, IOWaitSleep(p) \/ IOWaitDone(p)
    PROVE  StoreInv' /\ StoreStep
<1> USE DEF StoreInv, IInv, TypeOK
<1>1. /\ CallOK(p) /\ cpu = p /\ pc[p] = "iowait" /\ bp[p] # NoBuf /\ bp[p] \in Bufs
      /\ UNCHANGED <<blk, data, disk, ioq, flags, req, bp>>
  BY DEF CallsOK, IOWaitSleep, IOWaitDone, Running, cacheVars, diskVars, LocalsOK
<1>2. CASE IOWaitSleep(p)
  <2>1. /\ UNCHANGED <<ret, uerror>> /\ pc' = [pc EXCEPT ![p] = "iowait"]
        /\ chan' = [chan EXCEPT ![p] = bp[p]]
    BY <1>2 DEF IOWaitSleep, SleepOn, Goto
  <2>2. CallOK(p)'
    BY <1>1, <2>1 DEF CallOK, Seeking
  <2> QED BY <1>1, <2>1, <2>2, QuietStep
<1>3. CASE IOWaitDone(p)
  <2>1. /\ Has(bp[p], "DONE") /\ UNCHANGED chan
        /\ uerror' = [uerror EXCEPT ![p] = @ \/ Has(bp[p], "ERROR")]
        /\ pc' = [pc EXCEPT ![p] = ret[p]] /\ ret' = [ret EXCEPT ![p] = "user"]
    BY <1>3 DEF IOWaitDone, Goto
  <2>2. ret[p] \in {"hold", "brelse"}
    BY <1>1 DEF RetOK
  <2>3. uerror'[p] => req[p].blk \in Failing
    BY <1>1, <2>1 DEF CallOK, BuffersOK
  <2>4. \A q \in Procs \ {p} : uerror'[q] = uerror[q]
    BY <2>1
  <2>5. CallOK(p)'
    BY <1>1, <2>1, <2>2, <2>3 DEF CallOK, Seeking, Has
  <2> QED BY <1>1, <2>1, <2>4, <2>5, QuietStep
<1> QED BY <1>2, <1>3

LEMMA ReleaseKeeps ==
    ASSUME StoreInv, IInv', NEW p \in Procs, Release(p) \/ BflushDone(p)
    PROVE  StoreInv' /\ StoreStep
<1> USE DEF StoreInv, IInv, TypeOK
<1>1. /\ CallOK(p) /\ cpu = p /\ pc[p] \in {"hold", "bflush"}
      /\ UNCHANGED <<blk, data, disk, ioq, flags, bp, chan, uerror>>
  BY DEF CallsOK, Release, BflushDone, Running, cacheVars, diskVars
<1>2. CASE Release(p)
  <2>1. /\ pc' = [pc EXCEPT ![p] = "brelse"] /\ ret' = [ret EXCEPT ![p] = "user"]
        /\ req' = req
    BY <1>2 DEF Release, Goto
  <2>2. CallOK(p)'
    BY <1>1, <2>1 DEF CallOK, Seeking
  <2> QED BY <1>1, <2>1, <2>2, QuietStep
<1>3. CASE BflushDone(p)
  <2>1. /\ pc' = [pc EXCEPT ![p] = "user"] /\ ret' = [ret EXCEPT ![p] = "user"]
        /\ req' = [req EXCEPT ![p] = NoReq] /\ bp[p] = NoBuf
    BY <1>1, <1>3 DEF BflushDone, Leave, Goto, LocalsOK, Running
  <2>2. CallOK(p)'
    BY <1>1, <2>1 DEF CallOK, Seeking
  <2> QED BY <1>1, <2>1, <2>2, QuietStep
<1> QED BY <1>2, <1>3

LEMMA CallKeeps ==
    ASSUME StoreInv, IInv', NEW p \in Procs,
           Resume(p) \/ \E r \in Request : Call(p, r)
    PROVE  StoreInv' /\ StoreStep
<1> USE DEF StoreInv, IInv, TypeOK
<1>1. /\ CallOK(p) /\ cpu = NoProc /\ cpu' = p /\ pc[p] # "hold"
      /\ UNCHANGED <<blk, data, disk, ioq, flags, bp, chan>>
  BY CacheAssumption DEF CallsOK, Resume, Call, cacheVars, diskVars, CpuOK
<1>2. /\ \A q \in Procs \ {p} : /\ pc'[q] = pc[q] /\ ret'[q] = ret[q] /\ req'[q] = req[q]
                                /\ uerror'[q] = uerror[q]
      /\ CallOK(p)' /\ pc'[p] # "hold"
  <2>1. CASE Resume(p)
    <3>1. UNCHANGED <<pc, ret, req, uerror>>
      BY <2>1 DEF Resume
    <3> QED BY <1>1, <3>1 DEF CallOK, Seeking, Has
  <2>2. ASSUME NEW r \in Request, Call(p, r)  PROVE <1>2!1 /\ CallOK(p)' /\ pc'[p] # "hold"
    <3>1. /\ req' = [req EXCEPT ![p] = r] /\ uerror' = [uerror EXCEPT ![p] = FALSE]
          /\ pc[p] = "user" /\ bp[p] = NoBuf
      BY <2>2 DEF Call, LocalsOK
    <3>2. PICK l \in {"getblk", "incore", "bflush"}, x \in {"hold", "bread", ret[p]} :
              /\ pc' = [pc EXCEPT ![p] = l] /\ ret' = [ret EXCEPT ![p] = x]
              /\ l = "getblk" /\ x = "hold" => r.call = "getblk"
      BY <2>2 DEF Call, Goto
    <3> QED BY <1>1, <3>1, <3>2 DEF CallOK, Seeking
  <2> QED BY <2>1, <2>2
<1>3. OthersStay(p)
  BY <1>1, <1>2, CacheAssumption DEF OthersStay
<1>4. BuffersOK' /\ \A k \in Blocks : Content(k)' = Content(k)
  BY <1>1, Quiet DEF Has
<1>5. CallsOK'
  BY <1>2, <1>3, OthersKept DEF CallsOK
<1> QED BY <1>1, <1>3, <1>4, <1>5, TakesOrGives DEF Sound


\* A free buffer that is written first: its bytes were the block's already.
LEMMA WritesOld ==
    ASSUME StoreInv, IInv', NEW b \in Bufs, ~Has(b, "BUSY"), Has(b, "DELWRI"),
           flags' = [flags EXCEPT ![b] = WriteFlags(@ \cup {"BUSY", "ASYNC"})],
           Strategy(b), UNCHANGED <<blk, data>>
    PROVE  BuffersOK' /\ \A k \in Blocks : Content(k)' = Content(k)
<1> USE DEF StoreInv
<1> DEFINE F == WriteFlags(flags[b] \cup {"BUSY", "ASYNC"})
<1>1. b \notin Chain(ioq) /\ blk[b] \in Blocks /\ Has(b, "DONE")
  BY DEF IInv, QueueExact, NamesOK, BuffersOK, Has
<1>2. data' = [data EXCEPT ![b] = data[b]]
  BY DEF IInv, TypeOK
<1>3. PICK f : f = F
  OBVIOUS
<1>4. PICK v : v = data[b]
  OBVIOUS
<1>5. flags' = [flags EXCEPT ![b] = f] /\ f \cap {"READ", "DONE", "ERROR", "DELWRI"} = {}
  BY <1>3 DEF WriteFlags
<1>6. /\ BuffersOK'
      /\ \A k \in Blocks : Content(k)' = IF k = blk[b] THEN v ELSE Content(k)
  BY <1>1, <1>2, <1>4, <1>5, WriteStarts
<1>7. Content(blk[b]) = v
  BY <1>1, <1>4, ContentIs DEF ContentFacts, Valid
<1> QED BY <1>6, <1>7

LEMMA TakeKeeps ==
    ASSUME StoreInv, IInv', NEW p \in Procs, TakeDirty(p) \/ TakeClean(p)
    PROVE  StoreInv' /\ StoreStep
<1> USE DEF StoreInv
<1>1. /\ CallOK(p) /\ cpu = p /\ pc[p] = "take" /\ freeList # <<>>
      /\ InCore(Want(p)) = {} /\ Want(p) \in Blocks
      /\ ret[p] \in {"hold", "bread", "rafirst", "raissue"}
  BY DEF CallsOK, TakeDirty, TakeClean, Running, IInv, NamesOK, Seeking, RetOK
<1>2. PICK b \in Bufs : b = Head(freeList) /\ ~Has(b, "BUSY")
  BY <1>1, TailChain DEF IInv, TypeOK, FreeListExact
<1>3. CASE TakeDirty(p)
  <2>1. /\ UNCHANGED <<blk, data, ret, req, bp, chan, uerror>> /\ Strategy(b)
        /\ pc' = [pc EXCEPT ![p] = "getblk"] /\ Has(b, "DELWRI")
        /\ flags' = [flags EXCEPT ![b] = WriteFlags(@ \cup {"BUSY", "ASYNC"})]
    BY <1>2, <1>3 DEF TakeDirty, Goto
  <2>2. BuffersOK' /\ \A k \in Blocks : Content(k)' = Content(k)
    BY <1>2, <2>1, WritesOld
  <2>3. \A c \in Bufs : Has(c, "BUSY") => flags'[c] = flags[c]
    BY <1>2, <2>1 DEF IInv, TypeOK
  <2>4. OthersStay(p)
    BY <1>1, <2>1, <2>3, Stays DEF IInv, TypeOK
  <2>5. CallOK(p)' /\ pc'[p] # "hold"
    BY <1>1, <2>1 DEF CallOK, Seeking, IInv, TypeOK
  <2>6. CallsOK'
    BY <2>4, <2>5, OthersKept DEF CallsOK
  <2> QED BY <1>1, <2>2, <2>4, <2>5, <2>6, TakesOrGives DEF Sound
<1>4. CASE TakeClean(p)
  <2>1. /\ UNCHANGED <<data, disk, ioq, ret, req, chan, uerror>>
        /\ flags' = [flags EXCEPT ![b] = {"BUSY"}] /\ blk' = [blk EXCEPT ![b] = Want(p)]
        /\ ~Has(b, "DELWRI") /\ SetCur(p, b) /\ pc' = [pc EXCEPT ![p] = ret[p]]
    BY <1>2, <1>4 DEF TakeClean, Goto, diskVars
  <2>2. BuffersOK' /\ \A k \in Sound : Content(k)' = Content(k)
    <3>1. PICK k \in Blocks : k = Want(p)
      BY <1>1
    <3> QED BY <1>1, <1>2, <2>1, <3>1, Renamed
  <2>3. \A c \in Bufs : Has(c, "BUSY") => flags'[c] = flags[c] /\ blk'[c] = blk[c]
    BY <1>2, <2>1 DEF IInv, TypeOK
  <2>4. \A q \in Procs \ {p} : bp'[q] = bp[q]
    BY <2>1 DEF SetCur, IInv, TypeOK
  <2>5. OthersStay(p)
    BY <1>1, <2>1, <2>3, <2>4, Stays DEF IInv, TypeOK
  <2>6. bp'[p] # NoBuf => blk'[bp'[p]] = req[p].blk
    <3>1. CASE Ahead(p)
      <4>1. bp' = bp
        BY <2>1, <3>1 DEF SetCur
      <4>2. bp[p] # NoBuf => bp[p] # b
        <5>1. bp[p] # NoBuf => Owns(p, bp[p])
          BY <1>1 DEF Owns, OwnsMain
        <5> QED BY <1>2, <5>1 DEF IInv, OwnersOK
      <4> QED BY <1>1, <2>1, <4>1, <4>2 DEF CallOK, IInv, TypeOK
    <3>2. CASE ~Ahead(p)
      BY <1>2, <2>1, <3>2 DEF SetCur, Want, IInv, TypeOK
    <3> QED BY <3>1, <3>2
  <2>7. CallOK(p)'
    BY <1>1, <2>1, <2>6 DEF CallOK, Seeking, IInv, TypeOK
  <2>8. CallsOK'
    BY <2>5, <2>7, OthersKept DEF CallsOK
  <2> QED BY <1>1, <2>2, <2>5, <2>8, TakesOrGives
<1> QED BY <1>3, <1>4


LEMMA ReadKeeps ==
    ASSUME StoreInv, IInv', NEW p \in Procs,
           \/ BreadMiss(p) \/ BreadaAheadMiss(p)
           \/ BreadaStart(p) /\ ~Has(bp[p], "DONE")
    PROVE  StoreInv' /\ StoreStep
<1> USE DEF StoreInv
<1>1. /\ CallOK(p) /\ cpu = p /\ cpu' = p /\ pc[p] \in {"bread", "rafirst", "raissue"}
      /\ UNCHANGED <<blk, data, req, chan, uerror>>
  BY DEF CallsOK, BreadMiss, BreadaAheadMiss, BreadaStart, Running
<1>2. PICK b \in Bufs, F \in SUBSET {"READ", "ASYNC"},
           l \in {"iowait", "ranext", "rafinish"} :
          /\ b \in {bp[p], abp[p]} /\ ~Has(b, "DONE") /\ b \notin Chain(ioq) /\ "READ" \in F
          /\ flags' = [flags EXCEPT ![b] = @ \cup F] /\ Strategy(b)
          /\ pc' = [pc EXCEPT ![p] = l]
  <2>1. CASE BreadMiss(p)
    <3>1. bp[p] \in Bufs /\ bp[p] \notin Chain(ioq)
      BY <2>1 DEF BreadMiss, Running, IInv, LocalsOK, TransferOK, TypeOK
    <3> QED BY <2>1, <3>1 DEF BreadMiss, Goto
  <2>2. CASE BreadaStart(p) /\ ~Has(bp[p], "DONE")
    <3>1. bp[p] \in Bufs /\ bp[p] \notin Chain(ioq)
      BY <2>2 DEF BreadaStart, Running, IInv, LocalsOK, TransferOK, TypeOK
    <3> QED BY <2>2, <3>1 DEF BreadaStart, Goto
  <2>3. CASE BreadaAheadMiss(p)
    <3>1. Cur(p) = abp[p]
      BY <2>3 DEF BreadaAheadMiss, Running, IInv, RetOK, Cur, Ahead
    <3>2. abp[p] \in Bufs /\ abp[p] \notin Chain(ioq)
      BY <2>3, <3>1 DEF BreadaAheadMiss, Running, IInv, LocalsOK, TransferOK, TypeOK
    <3> QED BY <2>3, <3>2 DEF BreadaAheadMiss, Goto
  <2> QED BY <2>1, <2>2, <2>3
<1>3. bp' = bp /\ \E x \in {"hold", ret[p]} : ret' = [ret EXCEPT ![p] = x]
  BY DEF BreadMiss, BreadaAheadMiss, BreadaStart, IInv, TypeOK
<1>4. BuffersOK' /\ \A k \in Blocks : Content(k)' = Content(k)
  BY <1>1, <1>2, ReadStarts
<1>5. \A c \in Bufs : Has(c, "BUSY") /\ c \notin {bp[p], abp[p]} => flags'[c] = flags[c]
  BY <1>2 DEF IInv, TypeOK
<1>6. OthersStay(p)
  BY <1>1, <1>2, <1>3, <1>5, Stays DEF IInv, TypeOK
<1>7. CallOK(p)' /\ pc'[p] # "hold"
  BY <1>1, <1>2, <1>3 DEF CallOK, Seeking, IInv, TypeOK
<1>8. CallsOK'
  BY <1>6, <1>7, OthersKept DEF CallsOK
<1> QED BY <1>1, <1>4, <1>6, <1>7, <1>8, TakesOrGives DEF Sound

LEMMA WriteKeeps ==
    ASSUME StoreInv, IInv', NEW p \in Procs, NEW v \in Values,
           Bdwrite(p, v) \/ Bawrite(p, v) \/ Bwrite(p, v)
    PROVE  StoreInv' /\ StoreStep
<1> USE DEF StoreInv
<1>1. /\ CallOK(p) /\ cpu = p /\ pc[p] = "hold" /\ UNCHANGED <<blk, chan>>
      /\ data' = [data EXCEPT ![bp[p]] = v]
      /\ \A q \in Procs \ {p} : uerror'[q] = uerror[q]
  BY DEF CallsOK, Bdwrite, Bawrite, Bwrite, Running, MayHaveFailed, IInv, TypeOK
<1>2. PICK b \in Bufs : b = bp[p] /\ b \notin Chain(ioq) /\ blk[b] = req[p].blk
  BY <1>1 DEF IInv, LocalsOK, TransferOK, TypeOK, CallOK
<1>3. PICK l \in {"brelse", "user", "iowait"}, x \in {"user", "brelse"} :
          /\ pc' = [pc EXCEPT ![p] = l] /\ ret' = [ret EXCEPT ![p] = x]
          /\ l # "user" => UNCHANGED <<req, bp, uerror>>
          /\ l = "user" => req' = [req EXCEPT ![p] = NoReq] /\ bp' = [bp EXCEPT ![p] = NoBuf]
          /\ l = "iowait" => cpu' = p
  BY <1>1 DEF Bdwrite, Bawrite, Bwrite, Leave, Goto
<1>4. /\ BuffersOK' /\ \A c \in Bufs \ {b} : flags'[c] = flags[c]
      /\ \A k \in Blocks : Content(k)' = IF k = blk[b] THEN v ELSE Content(k)
  <2>1. CASE Bdwrite(p, v)
    <3>1. /\ flags' = [flags EXCEPT ![b] = @ \cup {"DELWRI", "DONE"}]
          /\ UNCHANGED <<disk, ioq>>
      BY <1>2, <2>1 DEF Bdwrite, diskVars
    <3>2. \A c \in Bufs \ {b} : flags'[c] = flags[c]
      BY <3>1 DEF IInv, TypeOK
    <3> QED BY <1>1, <1>2, <3>1, <3>2, WriteDelayed
  <2>2. CASE Bawrite(p, v) \/ Bwrite(p, v)
    <3>1. PICK F : /\ flags' = [flags EXCEPT ![b] = F]
                   /\ F \cap {"READ", "DONE", "ERROR", "DELWRI"} = {}
      <4>1. \A f : WriteFlags(f) \cap {"READ", "DONE", "ERROR", "DELWRI"} = {}
        BY DEF WriteFlags
      <4>2. CASE Bawrite(p, v)
        <5>1. flags' = [flags EXCEPT ![b] = WriteFlags(flags[b] \cup {"ASYNC"})]
          BY <1>2, <4>2 DEF Bawrite
        <5> QED BY <4>1, <5>1
      <4>3. CASE Bwrite(p, v)
        <5>1. flags' = [flags EXCEPT ![b] = WriteFlags(flags[b])]
          BY <1>2, <4>3 DEF Bwrite
        <5> QED BY <4>1, <5>1
      <4> QED BY <2>2, <4>2, <4>3
    <3>2. Strategy(b)
      BY <1>2, <2>2 DEF Bawrite, Bwrite
    <3>3. \A c \in Bufs \ {b} : flags'[c] = flags[c]
      BY <3>1 DEF IInv, TypeOK
    <3> QED BY <1>1, <1>2, <3>1, <3>2, <3>3, WriteStarts
  <2> QED BY <2>1, <2>2
<1>5. \A c \in Bufs : Has(c, "BUSY") /\ c \notin {bp[p], abp[p]} => flags'[c] = flags[c]
  BY <1>2, <1>4
<1>6. OthersStay(p)
  BY <1>1, <1>3, <1>5, Stays DEF IInv, TypeOK
<1>7. CallOK(p)' /\ pc'[p] # "hold"
  BY <1>1, <1>3 DEF CallOK, Seeking, IInv, TypeOK
<1>8. CallsOK'
  BY <1>6, <1>7, OthersKept DEF CallsOK
<1> QED BY <1>1, <1>2, <1>4, <1>6, <1>7, <1>8, Stores

\* The contents of a failing block are nobody's business.
LEMMA SpoilKeeps ==
    ASSUME StoreInv, IInv', NEW p \in Procs, NEW v \in Values, SpoilRelease(p, v)
    PROVE  StoreInv' /\ StoreStep
<1> USE DEF StoreInv
<1>1. /\ CallOK(p) /\ cpu = p /\ pc[p] = "hold" /\ uerror[p]
      /\ UNCHANGED <<flags, blk, disk, ioq, req, bp, chan, uerror>>
      /\ data' = [data EXCEPT ![bp[p]] = v]
      /\ pc' = [pc EXCEPT ![p] = "brelse"] /\ ret' = [ret EXCEPT ![p] = "user"]
  BY DEF CallsOK, SpoilRelease, Running, Goto, diskVars
<1>2. PICK b \in Bufs : b = bp[p] /\ blk[b] \in Failing
  BY <1>1 DEF IInv, LocalsOK, TypeOK, CallOK
<1>3. BuffersOK' /\ \A k \in Sound : Content(k)' = Content(k)
  BY <1>1, <1>2, Spoiled
<1>4. OthersStay(p)
  BY <1>1, Stays DEF IInv, TypeOK
<1>5. CallOK(p)' /\ pc'[p] # "hold"
  BY <1>1 DEF CallOK, Seeking, IInv, TypeOK
<1>6. CallsOK'
  BY <1>4, <1>5, OthersKept DEF CallsOK
<1> QED BY <1>1, <1>3, <1>4, <1>5, <1>6, TakesOrGives

LEMMA BflushKeeps ==
    ASSUME StoreInv, IInv', NEW p \in Procs, BflushOne(p)
    PROVE  StoreInv' /\ StoreStep
<1> USE DEF StoreInv
<1>1. /\ CallOK(p) /\ cpu = p /\ pc[p] = "bflush"
      /\ UNCHANGED <<blk, data, pc, ret, req, bp, chan, uerror>>
  BY DEF CallsOK, BflushOne, Running, procVars
<1>2. PICK b \in Bufs : /\ ~Has(b, "BUSY") /\ Has(b, "DELWRI") /\ Strategy(b)
                        /\ flags' = [flags EXCEPT ![b] = WriteFlags(@ \cup {"BUSY", "ASYNC"})]
  <2>1. PICK i \in Dirty : /\ Strategy(freeList[i])
                           /\ flags' = [flags EXCEPT ![freeList[i]] =
                                            WriteFlags(@ \cup {"BUSY", "ASYNC"})]
    BY DEF BflushOne
  <2>2. PICK b : b = freeList[i]
    OBVIOUS
  <2>3. b \in Bufs /\ b \in Chain(freeList) /\ Has(b, "DELWRI")
    BY <2>1, <2>2 DEF Dirty, Chain, IInv, TypeOK
  <2> QED BY <2>1, <2>2, <2>3 DEF IInv, FreeListExact
<1>3. BuffersOK' /\ \A k \in Blocks : Content(k)' = Content(k)
  BY <1>1, <1>2, WritesOld
<1>4. \A c \in Bufs : Has(c, "BUSY") => flags'[c] = flags[c]
  BY <1>2 DEF IInv, TypeOK
<1>5. OthersStay(p)
  BY <1>1, <1>4, Stays
<1>6. CallOK(p)' /\ pc'[p] # "hold"
  BY <1>1 DEF CallOK, Seeking, IInv, LocalsOK
<1>7. CallsOK'
  BY <1>5, <1>6, OthersKept DEF CallsOK
<1> QED BY <1>1, <1>3, <1>5, <1>6, <1>7, TakesOrGives DEF Sound


\* Whom the interrupt handler wakes in IOWait: only those whose transfer is over
LEMMA InterruptWakes ==
    ASSUME StoreInv, NEW b \in Bufs, NEW f, b \in Chain(ioq), IODone(b, f),
           "ASYNC" \in flags[b] <=> "ASYNC" \in f, NEW q \in Procs, pc[q] = "iowait",
           chan'[q] = NoBuf
    PROVE  chan[q] = NoBuf \/ bp[q] = b
<1> SUFFICES ASSUME chan[q] # NoBuf, bp[q] # b  PROVE FALSE
  OBVIOUS
<1>1. chan[q] = bp[q] /\ bp[q] \in Bufs
  BY DEF StoreInv, IInv, SleepOK, TypeOK, LocalsOK
<1>2. chan[q] # b /\ chan[q] # FreeList
  BY <1>1, CacheAssumption
<1>3. chan'[q] = chan[q]
  BY <1>2 DEF IODone, Woken
<1> QED BY <1>3

\* What the interrupt does to a buffer in use it does not take from its process.
LEMMA InterruptCalls ==
    ASSUME StoreInv, NEW b \in Bufs, NEW f, b \in Chain(ioq), IODone(b, f),
           "ASYNC" \in flags[b] <=> "ASYNC" \in f,
           UNCHANGED <<blk, cpu, pc, ret, req, bp, uerror>>
    PROVE  CallsOK' /\ \A q \in Procs : Held(q)' = Held(q)
<1>1. /\ \A c \in Bufs \ {b} : flags'[c] = flags[c]
      /\ "DONE" \in flags'[b]
  BY FlagsDone DEF StoreInv
<1>2. \A q \in Procs : Held(q)' = Held(q)
  BY DEF Held
<1>3. ASSUME NEW q \in Procs  PROVE CallOK(q)'
  <2>1. CallOK(q)
    BY DEF StoreInv, CallsOK
  <2>2. pc[q] \in {"hold", "iowait"} => bp[q] \in Bufs
    BY DEF StoreInv, IInv, LocalsOK, TypeOK
  <2>3. pc[q] = "hold" /\ req[q].call # "getblk" => "DONE" \in flags'[bp[q]]
    BY <1>1, <2>1, <2>2 DEF CallOK, Has
  <2>4. pc[q] = "iowait" /\ chan'[q] = NoBuf /\ cpu # q => "DONE" \in flags'[bp[q]]
    BY <1>1, <2>1, <2>2, InterruptWakes DEF CallOK, Has
  <2> QED BY <2>1, <2>3, <2>4 DEF CallOK, Seeking, Has
<1> QED BY <1>2, <1>3 DEF CallsOK

LEMMA InterruptKeeps ==
    ASSUME StoreInv, IInv', DiskInterrupt
    PROVE  StoreInv' /\ StoreStep
<1>1. CASE TransferDone
  <2>1. PICK b \in Bufs : b = Head(ioq)
    BY <1>1, AtHead DEF TransferDone, StoreInv
  <2>2. b \in Chain(ioq)
    BY <1>1, <2>1, AtHead DEF TransferDone, StoreInv
  <2>3. PICK f : f = flags[b]
    OBVIOUS
  <2>4. IODone(b, f) /\ UNCHANGED <<blk, cpu, pc, ret, req, bp, uerror>>
    BY <1>1, <2>1, <2>3 DEF TransferDone
  <2>5. CallsOK' /\ \A q \in Procs : Held(q)' = Held(q)
    BY <2>2, <2>3, <2>4, InterruptCalls
  <2>6. BuffersOK' /\ \A k \in Blocks : Content(k)' = Content(k)
    BY <1>1, TransferEnds DEF StoreInv
  <2> QED BY <2>5, <2>6, SameStore DEF StoreInv, Sound
<1>2. CASE TransferFailed
  <2>1. PICK b \in Bufs : b = Head(ioq)
    BY <1>2, AtHead DEF TransferFailed, StoreInv
  <2>2. b \in Chain(ioq)
    BY <1>2, <2>1, AtHead DEF TransferFailed, StoreInv
  <2>3. PICK f : f = flags[b] \cup {"ERROR"}
    OBVIOUS
  <2>4. IODone(b, f) /\ UNCHANGED <<blk, cpu, pc, ret, req, bp, uerror>>
    BY <1>2, <2>1, <2>3 DEF TransferFailed
  <2>5. CallsOK' /\ \A q \in Procs : Held(q)' = Held(q)
    BY <2>2, <2>3, <2>4, InterruptCalls
  <2>6. BuffersOK' /\ \A k \in Sound : Content(k)' = Content(k)
    BY <1>2, TransferGivenUp DEF StoreInv
  <2> QED BY <2>5, <2>6, SameStore DEF StoreInv
<1>3. CASE TransferRetry
  <2>1. UNCHANGED <<flags, blk, data, disk, ioq, cpu, pc, ret, req, bp, chan, uerror>>
    BY <1>3 DEF TransferRetry, cacheVars, procVars
  <2>2. BuffersOK' /\ \A k \in Blocks : Content(k)' = Content(k)
    BY <2>1, Quiet DEF StoreInv, Has
  <2>3. CallsOK' /\ \A q \in Procs : Held(q)' = Held(q)
    BY <2>1 DEF StoreInv, CallsOK, CallOK, Seeking, Has, Held
  <2> QED BY <2>2, <2>3, SameStore DEF StoreInv, Sound
<1> QED BY <1>1, <1>2, <1>3 DEF DiskInterrupt

LEMMA StoreInit ==
    Init => BuffersOK /\ CallsOK /\ Store!StoreInit
<1> SUFFICES ASSUME Init  PROVE BuffersOK /\ CallsOK /\ Store!StoreInit
  OBVIOUS
<1>1. BuffersOK
  BY DEF Init, BuffersOK, Has
<1>2. CallsOK
  BY DEF Init, CallsOK, CallOK, Seeking
<1>3. \A k \in Sound : Content(k) \in Values
  <2> SUFFICES ASSUME NEW k \in Sound  PROVE Content(k) \in Values
    OBVIOUS
  <2>1. k \in Blocks /\ k # NoBlock
    BY CacheAssumption DEF Sound
  <2>2. \A b \in Bufs : blk[b] # k
    BY <2>1 DEF Init
  <2>3. Content(k) = disk[k]
    BY <2>2 DEF Content, InCore
  <2> QED BY <2>1, <2>3 DEF Init
<1>4. \A p \in Procs : pc[p] # "hold"
  BY DEF Init
<1> QED BY <1>1, <1>2, <1>3, <1>4 DEF Store!StoreInit

LEMMA StoreNext == StoreInv /\ [Next]_vars => StoreInv' /\ StoreStep
<1> SUFFICES ASSUME StoreInv, [Next]_vars  PROVE StoreInv' /\ StoreStep
  OBVIOUS
<1>1. IInv'
  BY NextInv DEF StoreInv
<1>2. CASE UNCHANGED vars
  <2>1. UNCHANGED <<flags, blk, data, disk, ioq, cpu, pc, ret, req, bp, chan, uerror>>
    BY <1>2 DEF vars, cacheVars, diskVars, procVars
  <2>2. BuffersOK' /\ \A k \in Blocks : Content(k)' = Content(k)
    BY <1>1, <2>1, Quiet DEF StoreInv, Has
  <2>3. CallsOK' /\ \A q \in Procs : Held(q)' = Held(q)
    BY <2>1 DEF StoreInv, CallsOK, CallOK, Seeking, Has, Held
  <2> QED BY <1>1, <2>2, <2>3, SameStore DEF StoreInv, Sound
<1>3. ASSUME NEW p \in Procs, Resume(p) \/ \E r \in Request : Call(p, r)
      PROVE  StoreInv' /\ StoreStep
  BY <1>1, <1>3, CallKeeps
<1>4. ASSUME NEW p \in Procs, Step(p)
      PROVE  StoreInv' /\ StoreStep
  <2>1. CASE GetBlkBusy(p) \/ GetBlkHit(p) \/ GetBlkNoFree(p) \/ GetBlkSomeFree(p)
    BY <1>1, <2>1, GetBlkKeeps
  <2>2. CASE NotAvail(p) \/ TakeDirty(p) \/ TakeClean(p) \/ Brelse(p) \/ PutFree(p)
    BY <1>1, <2>2, NotAvailKeeps, TakeKeeps, BrelseKeeps, PutFreeKeeps
  <2>3. CASE \/ BreadHit(p) \/ BreadMiss(p) \/ BreadaFirst(p) \/ BreadaStart(p)
             \/ BreadaNext(p) \/ BreadaAheadHit(p) \/ BreadaAheadMiss(p) \/ BreadaFinish(p)
    BY <1>1, <2>3, BreadKeeps, ReadKeeps
  <2>4. CASE IOWaitSleep(p) \/ IOWaitDone(p) \/ Release(p) \/ BflushOne(p) \/ BflushDone(p)
    BY <1>1, <2>4, IOWaitKeeps, ReleaseKeeps, BflushKeeps
  <2>5. ASSUME NEW v \in Values,
               SpoilRelease(p, v) \/ Bdwrite(p, v) \/ Bawrite(p, v) \/ Bwrite(p, v)
        PROVE  StoreInv' /\ StoreStep
    BY <1>1, <2>5, SpoilKeeps, WriteKeeps
  <2> QED BY <1>4, <2>1, <2>2, <2>3, <2>4, <2>5 DEF Step
<1>5. CASE DiskInterrupt
  BY <1>1, <1>5, InterruptKeeps
<1> QED BY <1>2, <1>3, <1>4, <1>5 DEF Next

-----------------------------------------------------------------------------
\* StoreInv holds in every state: to who has which buffer it adds what is in it, after
\* every call of GetBlk, Bread, Breada, Bwrite, Bdwrite, Bawrite and Bflush and every
\* interrupt.
THEOREM StoreInvariance == Spec => []StoreInv
<1>1. Init => StoreInv
  BY InitInv, StoreInit DEF StoreInv
<1>2. StoreInv /\ [Next]_vars => StoreInv'
  BY StoreNext
<1> QED BY <1>1, <1>2, PTL DEF Spec

\* What Bread and Breada hand over is the current contents of the block asked for, and
\* IODone wakes nobody in IOWait before his transfer is over.
THEOREM ReadsCurrentHolds == Spec => []ReadsCurrent
<1>1. StoreInv => ReadsCurrent
  <2> SUFFICES ASSUME StoreInv, NEW p \in Procs
               PROVE  /\ pc[p] = "iowait" /\ chan[p] = NoBuf /\ cpu # p => Has(bp[p], "DONE")
                      /\ Running(p, "hold") /\ req[p].blk \in Sound =>
                            /\ blk[bp[p]] = req[p].blk
                            /\ req[p].call # "getblk" =>
                                  data[bp[p]] = Content(req[p].blk) /\ Has(bp[p], "DONE")
    BY DEF ReadsCurrent
  <2>1. CallOK(p)
    BY DEF StoreInv, CallsOK
  <2>2. pc[p] = "hold" => bp[p] # NoBuf /\ bp[p] \in Bufs
    BY DEF StoreInv, IInv, LocalsOK, TypeOK
  <2>3. ContentFacts
    BY ContentIs DEF StoreInv
  <2> QED BY <2>1, <2>2, <2>3 DEF CallOK, ContentFacts, Running, Valid, Sound
<1> QED BY <1>1, StoreInvariance, PTL

\* The cache implements an array of blocks: caching, delayed writes, reuse of buffers,
\* read-ahead, the request queue and the interrupt handler change the contents of no
\* block but by a process that has the block for itself.
THEOREM ImplementsStoreHolds == Spec => ImplementsStore
<1>1. Init => Store!StoreInit
  BY StoreInit
<1>2. StoreInv /\ [Next]_vars => [Store!StoreNext]_(Store!svars)
  BY StoreNext DEF StoreStep
<1> QED BY <1>1, <1>2, StoreInvariance, PTL DEF Spec, ImplementsStore, Store!StoreSpec


-----------------------------------------------------------------------------
\* When everybody sleeps

LEMMA Least ==
    ASSUME NEW T, T \subseteq Nat, T # {}
    PROVE  \E x \in T : \A y \in T : x <= y
<1> DEFINE R == OpToRel(<, Nat)
<1>1. IsWellFoundedOn(R, Nat)
  BY NatLessThanWellFounded
<1>2. \A y, x \in Nat : <<y, x>> \in R <=> y < x
  BY DEF OpToRel
<1> HIDE DEF R
<1>3. PICK x \in T : \A y \in T : ~(<<y, x>> \in R)
  BY <1>1, WFMin
<1>4. \A y \in T : x <= y
  <2> TAKE y \in T
  <2>1. ~(y < x)
    BY <1>2, <1>3, Zenon
  <2>2. x \in Nat /\ y \in Nat
    OBVIOUS
  <2> QED BY <2>1, <2>2
<1> QED BY <1>4

\* Numbers given to finitely many have a bound: none is the first to break it.
LEMMA Bounded ==
    ASSUME NEW S, IsFiniteSet(S), NEW f \in [S -> Nat]
    PROVE  \E N \in Nat : \A x \in S : f[x] <= N
<1>1. PICK n \in Nat : ExistsBijection(1..n, S)
  BY FS_NatBijection
<1>2. PICK g \in [1..n -> S] : \A x \in S : \E i \in 1..n : g[i] = x
  BY <1>1 DEF ExistsBijection, Bijection, Surjection
<1> DEFINE B(m) == \E N \in Nat : \A i \in 1..m : f[g[i]] <= N
           T    == {m \in 0..n : ~B(m)}
<1>3. T = {}
  <2>1. B(0)
    <3>1. \A i \in 1..0 : f[g[i]] <= 0
      OBVIOUS
    <3> QED BY <3>1
  <2>2. ASSUME NEW k \in 1..n, B(k - 1)
        PROVE  B(k)
    <3>1. PICK N \in Nat : \A i \in 1..(k - 1) : f[g[i]] <= N
      BY <2>2
    <3>2. g[k] \in S /\ f[g[k]] \in Nat /\ N + f[g[k]] \in Nat
      BY <1>2
    <3>3. ASSUME NEW i \in 1..k  PROVE f[g[i]] <= N + f[g[k]]
      <4>1. f[g[i]] \in Nat
        BY <1>2
      <4>2. CASE i = k
        BY <3>2, <4>2
      <4>3. CASE i # k
        <5>1. i \in 1..(k - 1)
          BY <4>3
        <5>2. f[g[i]] <= N
          BY <3>1, <5>1
        <5> QED BY <3>2, <4>1, <5>2
      <4> QED BY <4>2, <4>3
    <3> QED BY <3>2, <3>3
  <2> HIDE DEF B
  <2>3. ASSUME T # {}  PROVE FALSE
    <3>1. PICK m \in T : \A y \in T : m <= y
      <4>1. T \subseteq Nat
        OBVIOUS
      <4> QED BY <2>3, <4>1, Least
    <3>2. m \in 0..n /\ ~B(m)
      OBVIOUS
    <3>3. m # 0
      BY <2>1, <3>2
    <3>4. m \in 1..n /\ m - 1 \in 0..n /\ ~(m <= m - 1)
      BY <1>1, <3>2, <3>3
    <3>5. B(m - 1)
      BY <3>1, <3>4
    <3> QED BY <2>2, <3>2, <3>4, <3>5
  <2> QED BY <2>3
<1>4. B(n)
  <2>1. n \in 0..n
    BY <1>1
  <2> HIDE DEF B
  <2> QED BY <1>3, <2>1
<1> QED BY <1>2, <1>4

\* An order of the processes in which one that looks for a buffer comes before all
\* that have the block it wants: they took it after p had found it nowhere.
Ranked(f) ==
    \A p, q \in Procs :
        LooksAhead(p) /\ bp[q] # NoBuf /\ req[p].ahead = req[q].blk => f[p] < f[q]

OrderInv ==
    /\ \A p \in Procs : chan[p] \in Bufs /\ pc[p] = "getblk" => blk[chan[p]] = Want(p)
    /\ \E f \in [Procs -> Nat] : Ranked(f)

\* What p leaves alone of the others' waiting
OthersWait(p) ==
    /\ \A q \in Procs \ {p} :
           /\ pc'[q] = pc[q] /\ ret'[q] = ret[q] /\ req'[q] = req[q] /\ bp'[q] = bp[q]
           /\ chan'[q] \in {NoBuf, chan[q]}
    /\ \A c \in Bufs : Has(c, "BUSY") => blk'[c] = blk[c]

LEMMA OrderKept ==
    ASSUME IsFiniteSet(Procs), StoreInv, OrderInv, NEW p \in Procs, OthersWait(p),
           chan'[p] \in Bufs /\ pc'[p] = "getblk" => blk'[chan'[p]] = Want(p)',
           \/ ~LooksAhead(p)'
           \/ /\ bp'[p] = bp[p] /\ req'[p] = req[p]
              /\ LooksAhead(p) \/ \A q \in Procs : bp[q] # NoBuf => req[q].blk # req[p].ahead
    PROVE  OrderInv'
<1>1. ASSUME NEW q \in Procs, chan'[q] \in Bufs, pc'[q] = "getblk"
      PROVE  blk'[chan'[q]] = Want(q)'
  <2>1. CASE q = p
    BY <1>1, <2>1
  <2>2. CASE q # p
    <3>1. /\ pc'[q] = pc[q] /\ ret'[q] = ret[q] /\ req'[q] = req[q] /\ chan'[q] = chan[q]
      BY <1>1, <2>2, CacheAssumption DEF OthersWait
    <3>2. blk[chan[q]] = Want(q) /\ Has(chan[q], "BUSY")
      BY <1>1, <3>1 DEF OrderInv, StoreInv, IInv, NoLostWakeup
    <3>3. Want(q)' = Want(q)
      BY <3>1 DEF Want, Ahead
    <3>4. blk'[chan[q]] = blk[chan[q]]
      BY <1>1, <3>1, <3>2 DEF OthersWait
    <3> QED BY <3>1, <3>2, <3>3, <3>4
  <2> QED BY <2>1, <2>2
<1>2. PICK f \in [Procs -> Nat] : Ranked(f)
  BY DEF OrderInv
<1>3. \A q \in Procs \ {p} :
          /\ LooksAhead(q)' <=> LooksAhead(q)
          /\ req'[q] = req[q] /\ bp'[q] = bp[q]
  BY DEF OthersWait, LooksAhead
<1>4. CASE ~LooksAhead(p)'
  <2>1. PICK N \in Nat : \A x \in Procs : f[x] <= N
    BY Bounded
  <2> DEFINE g == [f EXCEPT ![p] = N + 1]
  <2>2. g \in [Procs -> Nat] /\ g[p] = N + 1 /\ \A x \in Procs \ {p} : g[x] = f[x]
    BY <2>1
  <2> HIDE DEF g
  <2>3. ASSUME NEW x \in Procs, NEW y \in Procs, LooksAhead(x)', bp'[y] # NoBuf,
               req'[x].ahead = req'[y].blk
        PROVE  g[x] < g[y]
    <3>1. x # p /\ f[x] \in Nat /\ f[x] <= N /\ g[x] = f[x]
      BY <1>4, <2>1, <2>2, <2>3
    <3>2. CASE y = p
      BY <2>2, <3>1, <3>2
    <3>3. CASE y # p
      BY <1>2, <1>3, <2>2, <2>3, <3>1, <3>3 DEF Ranked
    <3> QED BY <3>2, <3>3
  <2>4. Ranked(g)'
    BY <2>3 DEF Ranked
  <2> QED BY <1>1, <2>2, <2>4 DEF OrderInv
<1>5. CASE /\ bp'[p] = bp[p] /\ req'[p] = req[p]
           /\ LooksAhead(p) \/ \A q \in Procs : bp[q] # NoBuf => req[q].blk # req[p].ahead
  <2>1. \A q \in Procs : bp'[q] = bp[q] /\ req'[q] = req[q]
    BY <1>3, <1>5
  <2>2. ASSUME NEW x \in Procs, NEW y \in Procs, LooksAhead(x)', bp'[y] # NoBuf,
               req'[x].ahead = req'[y].blk
        PROVE  f[x] < f[y]
    <3>1. LooksAhead(x)
      BY <1>3, <1>5, <2>1, <2>2
    <3> QED BY <1>2, <2>1, <2>2, <3>1 DEF Ranked
  <2>3. Ranked(f)'
    BY <2>2 DEF Ranked
  <2> QED BY <1>1, <2>3 DEF OrderInv
<1> QED BY <1>4, <1>5


\* A step that leaves GetBlk's search, or never was in it.
LEMMA StepOrder ==
    ASSUME IsFiniteSet(Procs), StoreInv, OrderInv, NEW p \in Procs, Step(p)
    PROVE  OrderInv'
<1> USE CacheAssumption
<1>1. IInv /\ TypeOK /\ CpuOK /\ RetOK /\ NamesOK
  BY DEF StoreInv, IInv
<1>0. CallsOK
  BY DEF StoreInv
<1>2. cpu = p /\ chan[p] = NoBuf
  BY <1>1 DEF Step, Running, CpuOK, GetBlkBusy, GetBlkHit, NotAvail, GetBlkNoFree,
              GetBlkSomeFree, TakeDirty, TakeClean, Brelse, PutFree, BreadHit, BreadMiss,
              BreadaFirst, BreadaStart, BreadaNext, BreadaAheadHit, BreadaAheadMiss,
              BreadaFinish, IOWaitSleep, IOWaitDone, Release, SpoilRelease, Bdwrite,
              Bawrite, Bwrite, BflushOne, BflushDone
<1>3. ASSUME OthersWait(p), pc'[p] # "getblk"  PROVE OrderInv'
  BY <1>3, OrderKept DEF LooksAhead
<1>4. ASSUME OthersWait(p), chan'[p] = NoBuf, ret'[p] # "raissue"  PROVE OrderInv'
  BY <1>4, OrderKept DEF LooksAhead
<1>5. ASSUME OthersWait(p), chan'[p] \in Bufs => blk'[chan'[p]] = Want(p)',
             bp'[p] = bp[p], req'[p] = req[p],
             \/ pc[p] = "getblk" /\ ret'[p] = ret[p]
             \/ \A q \in Procs : bp[q] # NoBuf => req[q].blk # req[p].ahead
      PROVE  OrderInv'
  <2>1. CASE LooksAhead(p)'
    BY <1>5, <2>1, OrderKept DEF LooksAhead
  <2>2. CASE ~LooksAhead(p)'
    BY <1>5, <2>2, OrderKept
  <2> QED BY <2>1, <2>2
<1>6. ASSUME NEW k \in Blocks, InCore(k) = {}, NEW q \in Procs, bp[q] # NoBuf
      PROVE  req[q].blk # k
  BY <1>1, <1>6, <1>0 DEF CallsOK, CallOK, InCore, TypeOK
<1>10. CASE GetBlkBusy(p)
  <2>1. PICK b \in Bufs : /\ blk[b] = Want(p) /\ chan' = [chan EXCEPT ![p] = b]
                          /\ pc[p] = "getblk" /\ pc' = [pc EXCEPT ![p] = "getblk"]
                          /\ UNCHANGED <<blk, ret, req, bp>>
    BY <1>10 DEF GetBlkBusy, Running, InCore, SleepOn, Goto
  <2>2. OthersWait(p)
    BY <1>1, <2>1 DEF OthersWait, TypeOK
  <2>3. chan'[p] = b /\ Want(p)' = Want(p)
    BY <1>1, <2>1 DEF TypeOK, Want, Ahead
  <2> QED BY <1>5, <2>1, <2>2, <2>3
<1>11. CASE GetBlkNoFree(p)
  <2>1. OthersWait(p)
    BY <1>1, <1>11 DEF OthersWait, TypeOK, GetBlkNoFree, SleepOn, Goto
  <2>2. chan'[p] = FreeList /\ pc[p] = "getblk"
    BY <1>1, <1>11 DEF TypeOK, GetBlkNoFree, SleepOn, Running
  <2>3. UNCHANGED <<bp, req, ret>>
    BY <1>11 DEF GetBlkNoFree
  <2> QED BY <1>5, <2>1, <2>2, <2>3
<1>12. CASE TakeDirty(p)
  <2>1. OthersWait(p) /\ UNCHANGED <<bp, req, ret>> /\ chan' = chan
    BY <1>1, <1>12 DEF OthersWait, TypeOK, TakeDirty, Goto
  <2>2. Want(p) \in Blocks /\ InCore(Want(p)) = {}
    BY <1>1, <1>12 DEF TakeDirty, Running, NamesOK, Seeking
  <2>3. CASE ret[p] = "raissue"
    BY <1>2, <1>5, <1>6, <2>1, <2>2, <2>3 DEF Want, Ahead
  <2>4. CASE ret[p] # "raissue"
    BY <1>2, <1>4, <2>1, <2>4
  <2> QED BY <2>3, <2>4
<1>13. CASE BreadaNext(p)
  <2>1. OthersWait(p) /\ UNCHANGED <<bp, req>> /\ chan' = chan
    BY <1>1, <1>13 DEF OthersWait, TypeOK, BreadaNext, Goto, cacheVars
  <2>2. CASE pc' = [pc EXCEPT ![p] = "rafinish"]
    BY <1>1, <1>3, <2>1, <2>2 DEF TypeOK
  <2>3. CASE req[p].ahead # NoBlock /\ InCore(req[p].ahead) = {}
    <3>1. req[p].ahead \in Blocks
      BY <1>1, <2>3 DEF TypeOK, Request, NoReq
    <3> QED BY <1>2, <1>5, <1>6, <2>1, <2>3, <3>1
  <2> QED BY <1>13, <2>2, <2>3 DEF BreadaNext, Goto
<1>14. CASE BreadaFirst(p)
  <2>1. OthersWait(p) /\ chan' = chan
    BY <1>1, <1>14 DEF OthersWait, TypeOK, BreadaFirst, Goto, cacheVars
  <2>2. ret'[p] # "raissue" \/ pc'[p] # "getblk"
    BY <1>1, <1>14 DEF TypeOK, BreadaFirst, Goto
  <2> QED BY <1>2, <1>3, <1>4, <2>1, <2>2
<1>20. CASE GetBlkHit(p)
  <2>1. OthersWait(p) /\ pc'[p] # "getblk"
    BY <1>1, <1>20 DEF OthersWait, TypeOK, GetBlkHit, SetCur, Goto, cacheVars
  <2> QED BY <1>3, <2>1
<1>21. CASE NotAvail(p)
  <2>1. OthersWait(p) /\ pc'[p] # "getblk"
    BY <1>1, <1>21 DEF OthersWait, TypeOK, NotAvail, Goto, Running, RetOK
  <2> QED BY <1>3, <2>1
<1>22. CASE GetBlkSomeFree(p)
  <2>1. OthersWait(p) /\ pc'[p] # "getblk"
    BY <1>1, <1>22 DEF OthersWait, TypeOK, GetBlkSomeFree, Goto, cacheVars
  <2> QED BY <1>3, <2>1
<1>23. CASE TakeClean(p)
  <2>1. PICK b \in Bufs : b = Head(freeList) /\ ~Has(b, "BUSY")
    <3>1. freeList # <<>> /\ freeList \in Seq(Bufs)
      BY <1>1, <1>23 DEF TypeOK, TakeClean, Running, NamesOK
    <3>2. Head(freeList) \in Chain(freeList) /\ Head(freeList) \in Bufs
      BY <3>1 DEF Chain
    <3> QED BY <1>1, <3>2 DEF IInv, FreeListExact
  <2>2. \A c \in Bufs : Has(c, "BUSY") => blk'[c] = blk[c]
    BY <1>1, <1>23, <2>1 DEF TypeOK, TakeClean
  <2>3. \A q \in Procs \ {p} :
           /\ pc'[q] = pc[q] /\ ret'[q] = ret[q] /\ req'[q] = req[q] /\ bp'[q] = bp[q]
           /\ chan'[q] = chan[q]
    BY <1>1, <1>23 DEF TypeOK, TakeClean, SetCur, Goto
  <2>4. pc'[p] # "getblk"
    BY <1>1, <1>23 DEF TypeOK, TakeClean, Goto, Running, RetOK
  <2> QED BY <1>3, <2>2, <2>3, <2>4 DEF OthersWait
<1>24. CASE Brelse(p)
  <2>1. OthersWait(p) /\ pc'[p] # "getblk"
    BY <1>1, <1>24 DEF OthersWait, TypeOK, Brelse, Goto
  <2> QED BY <1>3, <2>1
<1>25. CASE PutFree(p)
  <2>1. OthersWait(p) /\ pc'[p] # "getblk"
    BY <1>1, <1>25 DEF OthersWait, TypeOK, PutFree, SetCur, Leave, Goto
  <2> QED BY <1>3, <2>1
<1>26. CASE BreadHit(p) \/ BreadMiss(p)
  <2>1. OthersWait(p) /\ pc'[p] # "getblk"
    BY <1>1, <1>26 DEF OthersWait, TypeOK, BreadHit, BreadMiss, Goto, cacheVars
  <2> QED BY <1>3, <2>1
<1>27. CASE BreadaStart(p)
  <2>1. OthersWait(p) /\ pc'[p] # "getblk"
    BY <1>1, <1>27 DEF OthersWait, TypeOK, BreadaStart, Goto, cacheVars
  <2> QED BY <1>3, <2>1
<1>28. CASE BreadaAheadHit(p) \/ BreadaAheadMiss(p)
  <2>1. OthersWait(p) /\ pc'[p] # "getblk"
    BY <1>1, <1>28 DEF OthersWait, TypeOK, BreadaAheadHit, BreadaAheadMiss, Goto, cacheVars
  <2> QED BY <1>3, <2>1
<1>15. CASE BreadaFinish(p)
  <2>1. OthersWait(p) /\ chan' = chan /\ ret'[p] # "raissue"
    BY <1>1, <1>15 DEF OthersWait, TypeOK, BreadaFinish, Goto, cacheVars
  <2> QED BY <1>2, <1>4, <2>1
<1>29. CASE IOWaitSleep(p) \/ IOWaitDone(p)
  <2>1. OthersWait(p) /\ pc'[p] # "getblk"
    BY <1>1, <1>29 DEF OthersWait, TypeOK, IOWaitSleep, IOWaitDone, SleepOn, Goto, cacheVars,
                       Running, RetOK
  <2> QED BY <1>3, <2>1
<1>30. CASE Release(p) \/ \E v \in Values : SpoilRelease(p, v) \/ Bdwrite(p, v)
  <2>1. OthersWait(p) /\ pc'[p] # "getblk"
    BY <1>1, <1>30 DEF OthersWait, TypeOK, Release, SpoilRelease, Bdwrite, Goto, cacheVars
  <2> QED BY <1>3, <2>1
<1>31. CASE \E v \in Values : Bawrite(p, v) \/ Bwrite(p, v)
  <2>1. OthersWait(p) /\ pc'[p] # "getblk"
    BY <1>1, <1>31 DEF OthersWait, TypeOK, Bawrite, Bwrite, Goto, Leave
  <2> QED BY <1>3, <2>1
<1>32. CASE BflushOne(p) \/ BflushDone(p)
  <2>1. OthersWait(p) /\ pc'[p] # "getblk"
    BY <1>1, <1>32 DEF OthersWait, TypeOK, BflushOne, BflushDone, Goto, Leave, cacheVars,
                       procVars, Running
  <2> QED BY <1>3, <2>1
<1> QED BY <1>10, <1>11, <1>12, <1>13, <1>14, <1>15, <1>20, <1>21, <1>22, <1>23, <1>24, <1>25,
           <1>26, <1>27, <1>28, <1>29, <1>30, <1>31, <1>32 DEF Step


\* The interrupt wakes processes and moves none.
LEMMA InterruptOrder ==
    ASSUME StoreInv, OrderInv, UNCHANGED <<blk, pc, ret, req, bp, abp>>,
           \A q \in Procs : chan'[q] \in {NoBuf, chan[q]}
    PROVE  OrderInv'
<1>1. \A q \in Procs : Want(q)' = Want(q) /\ (LooksAhead(q)' <=> LooksAhead(q))
  BY DEF Want, Ahead, LooksAhead
<1>2. \A q \in Procs : chan'[q] \in Bufs /\ pc'[q] = "getblk" => blk'[chan'[q]] = Want(q)'
  BY <1>1, CacheAssumption DEF OrderInv
<1>3. PICK f \in [Procs -> Nat] : Ranked(f)
  BY DEF OrderInv
<1>4. Ranked(f)'
  BY <1>1, <1>3 DEF Ranked
<1> QED BY <1>2, <1>4 DEF OrderInv

LEMMA NextOrder ==
    ASSUME IsFiniteSet(Procs), StoreInv, OrderInv, [Next]_vars
    PROVE  OrderInv'
<1> USE CacheAssumption
<1>1. TypeOK /\ CpuOK
  BY DEF StoreInv, IInv
<1>2. ASSUME NEW p \in Procs, NEW r \in Request, Call(p, r)
      PROVE  OrderInv'
  <2>1. OthersWait(p) /\ ~LooksAhead(p)'
    BY <1>1, <1>2 DEF OthersWait, LooksAhead, TypeOK, Call, Goto, cacheVars
  <2>2. chan'[p] = NoBuf
    BY <1>1, <1>2 DEF TypeOK, CpuOK, Call
  <2> QED BY <2>1, <2>2, OrderKept
<1>3. ASSUME NEW p \in Procs, Resume(p)
      PROVE  OrderInv'
  <2>1. UNCHANGED <<blk, pc, ret, req, bp, abp, chan>>
    BY <1>3 DEF Resume, cacheVars
  <2> QED BY <2>1, InterruptOrder
<1>4. ASSUME NEW p \in Procs, Step(p)
      PROVE  OrderInv'
  BY <1>4, StepOrder
<1>5. CASE DiskInterrupt
  <2>1. UNCHANGED <<blk, pc, ret, req, bp, abp>>
    BY <1>5 DEF DiskInterrupt, TransferDone, TransferRetry, TransferFailed, cacheVars, procVars
  <2>2. \A q \in Procs : chan'[q] \in {NoBuf, chan[q]}
    BY <1>1, <1>5 DEF DiskInterrupt, TransferDone, TransferRetry, TransferFailed, IODone,
                      Woken, procVars, TypeOK
  <2> QED BY <2>1, <2>2, InterruptOrder
<1>6. CASE UNCHANGED vars
  <2>1. UNCHANGED <<blk, pc, ret, req, bp, abp, chan>>
    BY <1>6 DEF vars, cacheVars, procVars
  <2> QED BY <2>1, InterruptOrder
<1> QED BY <1>2, <1>3, <1>4, <1>5, <1>6 DEF Next

\* When all sleep and no transfer is outstanding, nobody waits for a certain buffer
\* without end: the one whose rank is highest waits for nobody's.
LEMMA OnlyOnFree ==
    ASSUME IsFiniteSet(Procs), Procs # {}, StoreInv, OrderInv
    PROVE  NotAllAsleep
<1> USE CacheAssumption
<1> SUFFICES ASSUME active # 1, \A p \in Procs : chan[p] # NoBuf
             PROVE  Exhausted
  BY DEF NotAllAsleep
<1>1. TypeOK /\ CpuOK /\ RetOK /\ LocalsOK /\ OwnersOK /\ FreeListExact /\ NoLostWakeup
  BY DEF StoreInv, IInv
<1>2. ioq = <<>> /\ \A p \in Procs : chan[p] # NoBuf
  BY DEF StoreInv, IInv, QueueExact, TypeOK
<1>3. Chain(ioq) = {}
  BY <1>2 DEF Chain
<1>4. \A p \in Procs : pc[p] = "getblk"
  BY <1>1, <1>2, <1>3 DEF CpuOK, NoLostWakeup
<1>5. ASSUME NEW b \in Bufs, Has(b, "BUSY")
      PROVE  \E q \in Procs : bp[q] = b /\ LooksAhead(q)
  <2>1. PICK q \in Procs : Owns(q, b)
    BY <1>1, <1>3, <1>5 DEF OwnersOK
  <2>2. abp[q] = NoBuf
    BY <1>1, <1>4 DEF LocalsOK
  <2>3. bp[q] = b /\ Ahead(q)
    BY <1>1, <1>4, <2>1, <2>2 DEF Owns, LocalsOK
  <2>4. ret[q] = "raissue"
    BY <1>1, <1>4, <2>3 DEF Ahead, RetOK
  <2> QED BY <1>4, <2>3, <2>4 DEF LooksAhead
<1>6. CASE \E p \in Procs : chan[p] = FreeList
  <2>1. freeList = <<>>
    BY <1>1, <1>6 DEF NoLostWakeup
  <2>2. \A b \in Bufs : Has(b, "BUSY")
    BY <1>1, <2>1 DEF FreeListExact, Chain
  <2> QED BY <1>5, <1>6, <2>2 DEF Exhausted
<1>7. CASE \A p \in Procs : chan[p] # FreeList
  <2>1. ASSUME NEW p \in Procs
        PROVE  \E q \in Procs : /\ LooksAhead(q) /\ bp[q] # NoBuf
                                /\ req[q].blk = Want(p)
    <3>1. chan[p] \in Bufs /\ Has(chan[p], "BUSY") /\ blk[chan[p]] = Want(p)
      BY <1>1, <1>2, <1>4, <1>7 DEF TypeOK, NoLostWakeup, OrderInv
    <3>2. PICK q \in Procs : bp[q] = chan[p] /\ LooksAhead(q)
      BY <1>5, <3>1
    <3>3. blk[bp[q]] = req[q].blk
      BY <3>1, <3>2 DEF StoreInv, CallsOK, CallOK
    <3> QED BY <3>1, <3>2, <3>3
  <2>2. PICK f \in [Procs -> Nat] : Ranked(f)
    BY DEF OrderInv
  <2>3. \A p \in Procs : LooksAhead(p) => \E q \in Procs : LooksAhead(q) /\ f[p] < f[q]
    BY <2>1, <2>2 DEF Ranked, LooksAhead, Want, Ahead
  <2>4. PICK N \in Nat : \A p \in Procs : f[p] <= N
    BY Bounded
  <2>5. PICK h : h = [p \in Procs |-> N - f[p]]
    OBVIOUS
  <2>6. \A p \in Procs : f[p] \in Nat /\ h[p] \in Nat /\ h[p] = N - f[p]
    BY <2>4, <2>5
  <2> DEFINE T == {h[p] : p \in {x \in Procs : LooksAhead(x)}}
  <2>7. T # {} /\ T \subseteq Nat
    BY <2>1, <2>6
  <2>8. PICK m \in T : \A y \in T : m <= y
    BY <2>7, Least
  <2>9. PICK p \in Procs : LooksAhead(p) /\ h[p] = m
    BY <2>8
  <2>10. PICK q \in Procs : LooksAhead(q) /\ f[p] < f[q]
    BY <2>3, <2>9
  <2>11. h[p] <= h[q]
    BY <2>8, <2>9, <2>10
  <2> QED BY <2>6, <2>10, <2>11
<1> QED BY <1>6, <1>7

\* All processes sleep in the buffer layer with the disk idle only if every buffer is
\* held by a process that has the first block of a Breada and waits in GetBlk for a
\* second buffer: a process that waits for the user of a certain block, or for a
\* transfer, is never part of a deadlock.  Nothing is assumed about the number of
\* buffers: the kernel has NPROC = 100 and NBUF = 15.
THEOREM NotAllAsleepHolds ==
    ASSUME IsFiniteSet(Procs), Procs # {}
    PROVE  Spec => []NotAllAsleep
<1>1. Init => OrderInv
  <2> SUFFICES ASSUME Init  PROVE OrderInv
    OBVIOUS
  <2>1. \A p \in Procs : pc[p] = "user"
    BY DEF Init
  <2>2. PICK f \in [Procs -> Nat] : f = [p \in Procs |-> 0]
    OBVIOUS
  <2> QED BY <2>1, <2>2 DEF OrderInv, Ranked, LooksAhead
<1>2. StoreInv /\ OrderInv /\ [Next]_vars => OrderInv'
  BY NextOrder
<1>3. StoreInv /\ OrderInv => NotAllAsleep
  BY OnlyOnFree
<1> QED BY <1>1, <1>2, <1>3, StoreInvariance, PTL DEF Spec

=============================================================================
