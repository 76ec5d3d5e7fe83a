------------------------- MODULE MinidumpFileWriter -------------------------
(***************************************************************************)
(* MinidumpFileWriter: it hands out regions at the end of a file that it     *)
(* grows by whole pages, copies objects, strings and memory into them, and   *)
(* cuts the file to the regions handed out when it closes it.  Any growth or *)
(* write may fail, a write after some of its bytes; an object that was given *)
(* no region is flushed all the same.                                        *)
(*                                                                           *)
(* A byte of the file holds <<object, item>>: which object wrote it, and for *)
(* the text of a string which of its UTF-16 units.                           *)
(***************************************************************************)
EXTENDS Integers, Sequences

CONSTANTS
    PageSize,  \* getpagesize()
    Sizes,     \* sizes of objects and memory regions
    Strings,   \* texts: sequences of <<width in the source, UTF-16 units>>
    MaxObjects, \* bound: objects that asked for a region
    kInvalidMDRVA \* the highest position; bound: a file is shorter than that

ASSUME MinidumpFileWriterAssumption ==
    /\ PageSize \in Nat \ {0} /\ Sizes \subseteq Nat \ {0} /\ MaxObjects \in Nat
    /\ kInvalidMDRVA \in Nat \ {0}
    /\ \A s \in Strings : s \in Seq((Nat \ {0}) \X {1, 2})

VARIABLES
    wraps,    \* the build: size_t and off_t have the 32 bits of a position, not 64
    file_,    \* "none", "open", "closed"
    position, \* position_
    size,     \* size_
    length,   \* the file's length
    filePos,  \* the file's offset: where the last write ended
    bytes,    \* what has been written: offset -> <<object, item>>
    objects,  \* those that asked for a region, in order: position_, size_ and text
    live,     \* objects that are still to be flushed
    told,     \* objects whose location the caller has, every write having succeeded
    spoilt    \* those of them that a write to no position has hit since

writerVars ==
    <<wraps, file_, position, size, length, filePos, bytes, objects, live, told, spoilt>>

WriterInit ==
    /\ wraps \in BOOLEAN
    /\ file_ = "none" /\ position = 0 /\ size = 0 /\ length = 0 /\ filePos = 0
    /\ bytes = <<>> /\ objects = <<>> /\ live = {} /\ told = {} /\ spoilt = {}

Aligned(n) == ((n + 7) \div 8) * 8
Max2(a, b) == IF a > b THEN a ELSE b
HeaderSize == 4  \* sizeof(MDString)
NoText == <<<<0, 0>>>>  \* a text no string has
Span(first, n) == first .. first + n - 1

-----------------------------------------------------------------------------

Open ==
    /\ file_ = "none" /\ file_' = "open"
    /\ UNCHANGED <<wraps, position, size, length, filePos, bytes, objects, live, told, spoilt>>

Grown(n) ==
    IF position + Aligned(n) > size THEN size + Max2(Aligned(n), PageSize) ELSE size

\* BUG (mutant): the position after the region is returned.
AllocateReturnsEnd(n, text) ==
    /\ file_ = "open" /\ Len(objects) < MaxObjects /\ Grown(n) < kInvalidMDRVA
    /\ size' = Grown(n) /\ length' = IF size' = size THEN length ELSE size'
    /\ position' = position + Aligned(n)
    /\ objects' = Append(objects, [pos |-> position', size |-> n, text |-> text])

\* Allocate, the file growing when it has to.
Allocate(n, text) ==
    /\ file_ = "open" /\ Len(objects) < MaxObjects /\ Grown(n) < kInvalidMDRVA
    /\ size' = Grown(n) /\ length' = IF size' = size THEN length ELSE size'
    /\ position' = position + Aligned(n)
    /\ objects' = Append(objects, [pos |-> position, size |-> n, text |-> text])

\* Allocate, when ftruncate fails: the object is left without a position.
AllocateFails(n, text) ==
    /\ file_ = "open" /\ Len(objects) < MaxObjects /\ position + Aligned(n) > size
    /\ objects' = Append(objects, [pos |-> kInvalidMDRVA, size |-> n, text |-> text])
    /\ UNCHANGED <<position, size>>

\* Copy of an item to n bytes from p: what it may leave in the file.
Fits(p, n) == p + n <= size'
Written(b, p, n, item) ==
    [x \in DOMAIN b \cup Span(p, n) |-> IF x \in Span(p, n) THEN item ELSE b[x]]
Region(o) == Span(o.pos, o.size)

\* Copy of object id, n bytes, to its region, as far as the write goes.
CopyTo(id, p, n) ==
    /\ \/ /\ bytes' = Written(bytes, p, n, <<id, 0>>) /\ filePos' = p + n
          /\ told' = told \cup {id}
       \/ /\ bytes' = Written(bytes, p, n \div 2, <<id, 0>>) /\ filePos' = p + n \div 2
          /\ UNCHANGED told
    /\ UNCHANGED spoilt

\* Copy to kInvalidMDRVA.  The sum is over the file's size, and nothing is written; but
\* one of 32 bits wraps, lseek fails with the very -1 that the position is taken for, and
\* the bytes go where the last write ended.
CopyNowhere(id, n) ==
    LET end == IF wraps THEN (n + kInvalidMDRVA) % (kInvalidMDRVA + 1) ELSE n + kInvalidMDRVA
    IN  /\ UNCHANGED told
        /\ \/ end > size /\ UNCHANGED <<length, filePos, bytes, spoilt>>
           \/ /\ end <= size
              /\ \E m \in {n, n \div 2} :
                    /\ bytes' = Written(bytes, filePos, m, <<id, 0>>)
                    /\ filePos' = filePos + m /\ length' = Max2(length, filePos + m)
                    /\ spoilt' = spoilt \cup
                          {i \in told : Region(objects[i]) \cap Span(filePos, m) # {}}

\* An object is allocated now and flushed by its destructor, with others in between,
\* whether it has a position or none.
AllocateObject(n) ==
    /\ \/ Allocate(n, NoText)
       \/ AllocateFails(n, NoText) /\ UNCHANGED length
    /\ live' = live \cup {Len(objects')}
    /\ UNCHANGED <<wraps, file_, filePos, bytes, told, spoilt>>

Flush(id) ==
    /\ file_ = "open" /\ id \in live /\ live' = live \ {id}
    /\ LET o == objects[id] IN
         \/ o.pos # kInvalidMDRVA /\ CopyTo(id, o.pos, o.size) /\ UNCHANGED length
         \/ o.pos = kInvalidMDRVA /\ CopyNowhere(id, o.size)
    /\ UNCHANGED <<wraps, file_, position, size, objects>>

\* A region of memory is copied as it is handed out; one that is not leaves no trace.
WriteMemory(n) ==
    /\ Allocate(n, NoText)
    /\ CopyTo(Len(objects'), objects'[Len(objects')].pos, n)
    /\ UNCHANGED <<wraps, file_, live>>

\* The units before the k-th character of a text, and its length in the source.
Before(text) ==
    LET f[k \in 1..Len(text) + 1] == IF k = 1 THEN 0 ELSE f[k - 1] + text[k - 1][2]
    IN f
Width(text) ==
    LET f[k \in 0..Len(text)] == IF k = 0 THEN 0 ELSE f[k - 1] + text[k][1]
    IN f[Len(text)]

\* CopyIndexAfterObject scales the index with the size of what it copies: the place
\* of the k-th character, and the bytes the first k leave.
Place(text, k) == HeaderSize + Before(text)[k] * 2 * text[k][2]
Characters(b, p, text, id, k) ==
    LET at(x) == {j \in 1..k : x \in Span(p + Place(text, j), 2 * text[j][2])}
        last(x) == CHOOSE j \in at(x) : \A i \in at(x) : i <= j
        unit(x, j) == Before(text)[j] + 1 + ((x - p - Place(text, j)) \div 2)
        touched == {x \in p .. p + HeaderSize + 8 * Before(text)[k + 1] : at(x) # {}}
    IN  [x \in DOMAIN b \cup touched |->
            IF x \in touched THEN <<id, unit(x, last(x))>> ELSE b[x]]

TextSize(text) == HeaderSize + 2 * (Width(text) + 1)

\* The characters one by one, the final NULL, and the header that the destructor
\* flushes whatever came of them.
WriteString(text) ==
    /\ Allocate(TextSize(text), text)
    /\ LET id == Len(objects')
           p == objects'[id].pos
           fit(k) == \A j \in 1..k : Fits(p + Place(text, j), 2 * text[j][2])
           body(k) == Characters(bytes, p, text, id, k)
           null == <<id, Before(text)[Len(text) + 1] + 1>>
           all(b) == Written(b, p + HeaderSize + 2 * Width(text), 2, null)
       IN  \E k \in 0..Len(text), m \in {HeaderSize, HeaderSize \div 2} : fit(k) /\
              \E some \in {body(k)} :
                 /\ filePos' = p + m
                 /\ \/ bytes' = Written(some, p, m, <<id, 0>>) /\ UNCHANGED told
                    \/ /\ k = Len(text) /\ bytes' = Written(all(some), p, m, <<id, 0>>)
                       /\ told' = IF m = HeaderSize THEN told \cup {id} ELSE told
    /\ UNCHANGED <<wraps, file_, live, spoilt>>

\* The destructor flushes the header of a string that was given no region, too.
WriteStringFails(text) ==
    /\ AllocateFails(TextSize(text), text) /\ CopyNowhere(Len(objects'), HeaderSize)
    /\ UNCHANGED <<wraps, file_, live>>

\* The objects are destroyed before their writer is; ftruncate and close may fail,
\* and then the destructor tries again.
Close ==
    /\ file_ = "open" /\ live = {}
    /\ length' = position /\ file_' = "closed"
    /\ UNCHANGED <<wraps, position, size, filePos, bytes, objects, live, told, spoilt>>

WriterNext ==
    \/ Open \/ Close
    \/ \E n \in Sizes : AllocateObject(n) \/ WriteMemory(n)
    \/ \E text \in Strings : WriteString(text) \/ WriteStringFails(text)
    \/ \E id \in live : Flush(id)

WriterSpec == WriterInit /\ [][WriterNext]_writerVars

-----------------------------------------------------------------------------
(* Properties *)

WriterTypeOK ==
    /\ file_ \in {"none", "open", "closed"}
    /\ wraps \in BOOLEAN /\ position \in Nat /\ size \in Nat /\ length \in Nat /\ filePos \in Nat
    /\ objects \in Seq([pos : Nat, size : Nat \ {0}, text : Strings \cup {NoText}])
    /\ live \subseteq DOMAIN objects /\ told \subseteq DOMAIN objects /\ spoilt \subseteq told

\* Text of the basic plane: a character is one unit.
Plain(text) == \A k \in 1..Len(text) : text[k][2] = 1

\* A location the caller was given holds, until the dump is closed and after it,
\* what was written there: no object, string or memory region written later, or
\* flushed late, has touched it, and closing has not cut it off.  (A text with a
\* surrogate pair is excepted: the pair goes to twice its place.)  An object that was
\* given no region, flushed by its destructor, touches no location either, where
\* sizes have 64 bits.  Where they have 32 it may, in spite of the check in Copy that
\* the data "will fit in the allocated space": then just the locations it hits are lost.
LocationsHold ==
    /\ ~wraps => spoilt = {}
    /\ \A id \in told :
        LET o == objects[id] IN
        /\ file_ = "closed" => o.pos + o.size <= length
        /\ id \notin spoilt /\ o.text = NoText =>
               \A x \in Region(o) : x \in DOMAIN bytes /\ bytes[x] = <<id, 0>>
        /\ id \notin spoilt /\ o.text # NoText /\ Plain(o.text) =>
               /\ \A x \in Span(o.pos, HeaderSize) : bytes[x] = <<id, 0>>
               /\ \A k \in 1..Len(o.text), x \in {0, 1} :
                      bytes[o.pos + HeaderSize + 2 * (k - 1) + x] = <<id, k>>
=============================================================================
