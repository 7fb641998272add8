---------------------------- MODULE RpcWireProofs ----------------------------
(***************************************************************************)
(* Proofs about RpcWire: for all paths, lengths, descriptors and sizes, a  *)
(* call that arrives whole is executed as it was meant and answered.       *)
(***************************************************************************)
EXTENDS RpcWire, SequenceTheorems, TLAPS

Byte == Int \X Int

(* The block b lies at offset off of p.                                    *)
At(p, off, b) == off + Len(b) <= Len(p) /\ \A i \in 1..Len(b) : p[off + i] = b[i]

-----------------------------------------------------------------------------
(* Buffers. *)

LEMMA Function ==
    ASSUME NEW S, NEW n \in Nat, NEW f \in [1..n -> S]
    PROVE  f \in Seq(S) /\ Len(f) = n
  OBVIOUS

LEMMA Empty ==
    ASSUME NEW S, NEW f \in [1..0 -> S]
    PROVE  f = <<>>
  <1>1. f \in Seq(S) /\ Len(f) = 0
    BY Function
  <1>. QED  BY <1>1, EmptySeq

LEMMA Encoded ==
    ASSUME NEW v \in Int, NEW n \in Nat
    PROVE  /\ Encode(v, n) \in Seq(Byte) /\ Len(Encode(v, n)) = n
           /\ \A i \in 1..n : Encode(v, n)[i] = <<v, i>>
  <1>1. Encode(v, n) \in [1..n -> Byte]
    BY DEF Encode, Byte
  <1>. QED  BY <1>1, Function DEF Encode

LEMMA Blocks ==
    ASSUME NEW d \in Seq(Int)
    PROVE  /\ Block(d) \in Seq(Byte) /\ Len(Block(d)) = Len(d)
           /\ \A i \in 1..Len(d) : Block(d)[i] = <<d[i], 1>>
  <1>1. Block(d) \in [1..Len(d) -> Byte] /\ Len(d) \in Nat
    BY DEF Block, Byte
  <1>. QED  BY <1>1, Function DEF Block

LEMMA Cut ==
    ASSUME NEW p \in Seq(Byte), NEW off \in Nat, NEW n \in Nat
    PROVE  /\ Bytes(p, off, n) \in Seq(Byte) /\ Len(Bytes(p, off, n)) = n
           /\ \A i \in 1..n : Bytes(p, off, n)[i] =
                                IF off + i \in 1..Len(p) THEN p[off + i] ELSE Uninit
  <1>1. Bytes(p, off, n) \in [1..n -> Byte]
    BY DEF Bytes, Byte, Uninit
  <1>. QED  BY <1>1, Function DEF Bytes

(* A block that lies at an offset is what is copied from there.            *)
LEMMA Copied ==
    ASSUME NEW p \in Seq(Byte), NEW off \in Nat, NEW b \in Seq(Byte), At(p, off, b)
    PROVE  Bytes(p, off, Len(b)) = b
  <1>1. Len(b) \in Nat /\ Len(p) \in Nat
    OBVIOUS
  <1>2. /\ Bytes(p, off, Len(b)) \in Seq(Byte) /\ Len(Bytes(p, off, Len(b))) = Len(b)
        /\ \A i \in 1..Len(b) : Bytes(p, off, Len(b))[i] =
                                 IF off + i \in 1..Len(p) THEN p[off + i] ELSE Uninit
    BY <1>1, Cut
  <1>3. \A i \in 1..Len(b) : off + i \in 1..Len(p) /\ p[off + i] = b[i]
    BY <1>1 DEF At
  <1>4. \A i \in 1..Len(b) : Bytes(p, off, Len(b))[i] = b[i]
    BY <1>2, <1>3
  <1>. QED  BY <1>2, <1>4, SeqEqual

LEMMA Decoded ==
    ASSUME NEW v \in Int, NEW n \in Nat \ {0}
    PROVE  Decode(Encode(v, n)) = v
  <1>. DEFINE b == Encode(v, n)
  <1>1. Len(b) = n /\ \A i \in 1..n : b[i] = <<v, i>>
    BY Encoded
  <1>2. b[1] = <<v, 1>>
    BY <1>1
  <1>. HIDE DEF b
  <1>3. b[1][1] = v
    BY <1>2
  <1>. QED  BY <1>1, <1>3 DEF Decode, b

(* A number is found where it was encoded.                                 *)
LEMMA FieldFound ==
    ASSUME NEW p \in Seq(Byte), NEW off \in Nat, NEW v \in Int, NEW n \in Nat \ {0},
           At(p, off, Encode(v, n))
    PROVE  Field(p, off, n) = v
  BY Encoded, Copied, Decoded DEF Field

(* Data is found where it was copied to.                                   *)
LEMMA DataFound ==
    ASSUME NEW p \in Seq(Byte), NEW off \in Nat, NEW d \in Seq(Int), At(p, off, Block(d))
    PROVE  Chars(Bytes(p, off, Len(d))) = d
  <1>1. Bytes(p, off, Len(d)) = Block(d)
    BY Blocks, Copied
  <1>2. Chars(Block(d)) = [i \in 1..Len(d) |-> d[i]]
    BY Blocks DEF Chars
  <1>. QED  BY <1>1, <1>2

(* strlen() finds the NUL, and so the string is the one copied there.      *)
LEMMA StringFound ==
    ASSUME NEW p \in Seq(Byte), NEW off \in Nat, NEW s \in Seq(Nat \ {0}),
           At(p, off, Block(s) \o <<NUL>>)
    PROVE  StrLen(p, off) = Len(s) /\ CString(p, off) = s
  <1>. DEFINE b == Block(s) \o <<NUL>>
              Ends(n) == /\ Bytes(p, off + n, 1)[1] \in {NUL, Uninit}
                         /\ \A m \in 0..n-1 : Bytes(p, off + m, 1)[1] \notin {NUL, Uninit}
  <1>1. s \in Seq(Int) /\ Len(s) \in Nat /\ Len(p) \in Nat
    OBVIOUS
  <1>2. /\ Len(b) = Len(s) + 1 /\ b \in Seq(Byte) /\ b[Len(s) + 1] = NUL
        /\ \A i \in 1..Len(s) : b[i] = <<s[i], 1>>
    <2>1. <<NUL>> \in Seq(Byte) /\ Len(<<NUL>>) = 1 /\ <<NUL>>[1] = NUL
      BY DEF NUL, Byte
    <2>. QED  BY <1>1, <2>1, Blocks, ConcatProperties
  <1>3. \A i \in 1..Len(s) : b[i] \notin {NUL, Uninit}
    BY <1>1, <1>2 DEF NUL, Uninit
  <1>4. off + Len(s) + 1 <= Len(p) /\ \A i \in 1..Len(s)+1 : p[off + i] = b[i]
    BY <1>1, <1>2 DEF At
  <1>. HIDE DEF b
  <1>5. ASSUME NEW m \in 0..Len(s)
        PROVE  Bytes(p, off + m, 1)[1] = b[m + 1]
    <2>1. off + m \in Nat /\ 1 \in 1..1 /\ 1 \in Nat /\ off + m + 1 \in 1..Len(p)
      BY <1>1, <1>4
    <2>2. Bytes(p, off + m, 1)[1] = p[off + m + 1]
      BY <2>1, Cut
    <2>3. m + 1 \in 1..Len(s)+1 /\ off + (m + 1) = off + m + 1
      BY <1>1
    <2>. QED  BY <1>4, <2>2, <2>3
  <1>6a. Bytes(p, off + Len(s), 1)[1] \in {NUL, Uninit}
    <2>1. Len(s) \in 0..Len(s)
      BY <1>1
    <2>. QED  BY <1>2, <1>5, <2>1
  <1>6b. ASSUME NEW m \in 0..Len(s)-1
         PROVE  Bytes(p, off + m, 1)[1] \notin {NUL, Uninit}
    <2>1. m \in 0..Len(s) /\ m + 1 \in 1..Len(s)
      BY <1>1
    <2>. QED  BY <1>3, <1>5, <2>1
  <1>6. Ends(Len(s))
    BY <1>6a, <1>6b
  <1>7. ASSUME NEW n \in 0..Len(p), Ends(n)
        PROVE  n = Len(s)
    <2>1. CASE n < Len(s)
      BY <1>1, <1>6b, <1>7, <2>1
    <2>2. CASE Len(s) < n
      <3>1. Len(s) \in 0..n-1
        BY <1>1, <2>2
      <3>. QED  BY <1>6a, <1>7, <3>1
    <2>. QED  BY <1>1, <2>1, <2>2
  <1>8. Len(s) \in 0..Len(p)
    BY <1>1, <1>4
  <1>9. StrLen(p, off) = CHOOSE n \in 0..Len(p) : Ends(n)
    BY DEF StrLen
  <1>. HIDE DEF Ends
  <1>10. StrLen(p, off) = Len(s)
    BY <1>6, <1>7, <1>8, <1>9
  <1>11. At(p, off, Block(s))
    BY <1>1, <1>2, <1>4, Blocks DEF At
  <1>. QED  BY <1>1, <1>10, <1>11, DataFound DEF CString

LEMMA Joined ==
    ASSUME NEW x \in Seq(Byte), NEW y \in Seq(Byte)
    PROVE  /\ x \o y \in Seq(Byte) /\ Len(x \o y) = Len(x) + Len(y)
           /\ \A z \in Seq(Byte) : /\ x \o y \o z \in Seq(Byte)
                                  /\ Len(x \o y \o z) = Len(x) + Len(y) + Len(z)
  <1>1. x \o y \in Seq(Byte) /\ Len(x \o y) = Len(x) + Len(y)
    BY ConcatProperties
  <1>2. ASSUME NEW z \in Seq(Byte)
        PROVE  x \o y \o z \in Seq(Byte) /\ Len(x \o y \o z) = Len(x) + Len(y) + Len(z)
    BY <1>1, ConcatProperties
  <1>. QED  BY <1>1, <1>2

LEMMA Beside ==
    ASSUME NEW a \in Seq(Byte), NEW b \in Seq(Byte), NEW x \in Seq(Byte), NEW off \in Nat
    PROVE  /\ At(a, off, x) => At(a \o b, off, x)
           /\ At(b, off, x) => At(a \o b, Len(a) + off, x)
  <1>1. Len(a) \in Nat /\ Len(b) \in Nat /\ Len(x) \in Nat
    OBVIOUS
  <1>2. /\ Len(a \o b) = Len(a) + Len(b)
        /\ \A i \in 1..Len(a) : (a \o b)[i] = a[i]
        /\ \A i \in 1..Len(b) : (a \o b)[Len(a) + i] = b[i]
    BY ConcatProperties
  <1>3. ASSUME At(a, off, x) PROVE At(a \o b, off, x)
    <2>1. \A i \in 1..Len(x) : off + i \in 1..Len(a)
      BY <1>1, <1>3 DEF At
    <2>. QED  BY <1>1, <1>2, <1>3, <2>1 DEF At
  <1>4. ASSUME At(b, off, x) PROVE At(a \o b, Len(a) + off, x)
    <2>1. \A i \in 1..Len(x) : off + i \in 1..Len(b) /\ Len(a) + off + i = Len(a) + (off + i)
      BY <1>1, <1>4 DEF At
    <2>. QED  BY <1>1, <1>2, <1>4, <2>1 DEF At
  <1>. QED  BY <1>3, <1>4

LEMMA Whole ==
    ASSUME NEW x \in Seq(Byte)
    PROVE  At(x, 0, x)
  BY DEF At

(* The offsets of one, two and three fields behind the function code h.    *)
LEMMA Fields1 ==
    ASSUME NEW h \in Seq(Byte), Len(h) = 1, NEW x \in Seq(Byte)
    PROVE  /\ h \o x \in Seq(Byte) /\ Len(h \o x) = 1 + Len(x)
           /\ At(h \o x, 0, h) /\ At(h \o x, 1, x)
  <1>1. At(h \o x, 0, h) /\ At(h \o x, Len(h) + 0, x)
    BY Whole, Beside
  <1>. QED  BY <1>1, ConcatProperties

LEMMA Fields2 ==
    ASSUME NEW h \in Seq(Byte), Len(h) = 1, NEW x \in Seq(Byte), NEW y \in Seq(Byte)
    PROVE  /\ x \o y \in Seq(Byte) /\ Len(x \o y) = Len(x) + Len(y)
           /\ At(h \o (x \o y), 1, x) /\ At(h \o (x \o y), 1 + Len(x), y)
  <1>1. x \o y \in Seq(Byte) /\ Len(x \o y) = Len(x) + Len(y)
    BY ConcatProperties
  <1>2. At(x \o y, 0, x) /\ At(x \o y, Len(x) + 0, y)
    BY Whole, Beside
  <1>3. Len(x) \in Nat /\ Len(x) + 0 = Len(x) /\ 0 \in Nat
    OBVIOUS
  <1>4. At(h \o (x \o y), Len(h) + 0, x)
    BY <1>1, <1>2, Beside
  <1>5. At(h \o (x \o y), Len(h) + Len(x), y)
    BY <1>1, <1>2, <1>3, Beside
  <1>. QED  BY <1>1, <1>4, <1>5

LEMMA Fields3 ==
    ASSUME NEW h \in Seq(Byte), Len(h) = 1, NEW x \in Seq(Byte), NEW y \in Seq(Byte),
           NEW z \in Seq(Byte)
    PROVE  /\ x \o y \o z \in Seq(Byte) /\ Len(x \o y \o z) = Len(x) + Len(y) + Len(z)
           /\ At(h \o (x \o y \o z), 1, x) /\ At(h \o (x \o y \o z), 1 + Len(x), y)
           /\ At(h \o (x \o y \o z), 1 + Len(x) + Len(y), z)
  <1>1. x \o y \in Seq(Byte) /\ Len(x \o y) = Len(x) + Len(y)
    BY ConcatProperties
  <1>2. x \o y \o z \in Seq(Byte) /\ Len(x \o y \o z) = Len(x) + Len(y) + Len(z)
    BY <1>1, ConcatProperties
  <1>3. At(x \o y, 0, x) /\ At(x \o y, Len(x) + 0, y)
    BY Whole, Beside
  <1>4. Len(x) \in Nat /\ Len(y) \in Nat /\ Len(x) + 0 = Len(x)
    OBVIOUS
  <1>5. At(x \o y \o z, 0, x) /\ At(x \o y \o z, Len(x), y)
    BY <1>1, <1>3, <1>4, Beside
  <1>6. At(x \o y \o z, Len(x \o y) + 0, z)
    BY <1>1, Whole, Beside
  <1>. DEFINE w == x \o y \o z
  <1>7. Len(x \o y) + 0 \in Nat /\ Len(x) \in Nat /\ 0 \in Nat /\ w \in Seq(Byte)
    BY <1>1, <1>2, <1>4
  <1>8. At(w, 0, x) /\ At(w, Len(x), y) /\ At(w, Len(x \o y) + 0, z)
    BY <1>5, <1>6
  <1>. HIDE DEF w
  <1>9. At(h \o w, Len(h) + 0, x)
    BY <1>7, <1>8, Beside
  <1>10. At(h \o w, Len(h) + Len(x), y)
    BY <1>7, <1>8, Beside
  <1>11. At(h \o w, Len(h) + (Len(x \o y) + 0), z)
    BY <1>7, <1>8, Beside
  <1>12. Len(h) + 0 = 1 /\ Len(h) + (Len(x \o y) + 0) = 1 + Len(x) + Len(y)
    BY <1>1, <1>4
  <1>. QED  BY <1>2, <1>9, <1>10, <1>11, <1>12 DEF w

-----------------------------------------------------------------------------
(* Paths. *)

LEMMA PathSent ==
    ASSUME NEW path \in Seq(Nat \ {0}), HasPrefix(path)
    PROVE  /\ Strip(path) \in Seq(Nat \ {0})
           /\ PathBytes(path) = Block(Strip(path)) \o <<NUL>>
           /\ PathBytes(path) \in Seq(Byte)
           /\ PathSize(path) \in Nat /\ Len(Strip(path)) + 1 = PathSize(path)
           /\ Len(PathBytes(path)) = PathSize(path)
  <1>1. Len(path) \in Nat /\ Len(path) >= 2
    BY DEF HasPrefix
  <1>2. Strip(path) = SubSeq(path, 3, Len(path))
    BY DEF Strip
  <1>3. Strip(path) \in Seq(Nat \ {0}) /\ Len(Strip(path)) = Len(path) - 2
    <2>1. 3 \in Int /\ Len(path) \in Int /\ \A i \in 3..Len(path) : path[i] \in Nat \ {0}
      BY <1>1
    <2>2. /\ SubSeq(path, 3, Len(path)) \in Seq(Nat \ {0})
          /\ Len(SubSeq(path, 3, Len(path))) =
               IF 3 <= Len(path) THEN Len(path) - 3 + 1 ELSE 0
      BY <2>1, SubSeqProperties
    <2>3. \A n \in Nat : n >= 2 => (IF 3 <= n THEN n - 3 + 1 ELSE 0) = n - 2
      OBVIOUS
    <2>. QED  BY <1>1, <1>2, <2>2, <2>3
  <1>4. Strip(path) \in Seq(Int)
    BY <1>3
  <1>5. <<NUL>> \in Seq(Byte) /\ Len(<<NUL>>) = 1
    BY DEF NUL, Byte
  <1>6. Block(Strip(path)) \in Seq(Byte) /\ Len(Block(Strip(path))) = Len(path) - 2
    BY <1>3, <1>4, Blocks
  <1>7. PathBytes(path) = Block(Strip(path)) \o <<NUL>>
    BY <1>2 DEF PathBytes
  <1>8. PathBytes(path) \in Seq(Byte) /\ Len(PathBytes(path)) = Len(path) - 2 + 1
    BY <1>5, <1>6, <1>7, ConcatProperties
  <1>. QED  BY <1>1, <1>3, <1>7, <1>8 DEF PathSize

LEMMA PathFound ==
    ASSUME NEW path \in Seq(Nat \ {0}), HasPrefix(path), NEW p \in Seq(Byte), NEW off \in Nat,
           At(p, off, PathBytes(path))
    PROVE  /\ CString(p, off) = Strip(path)
           /\ StrLen(p, off) = PathSize(path) - 1
  <1>1. Strip(path) \in Seq(Nat \ {0}) /\ At(p, off, Block(Strip(path)) \o <<NUL>>)
    BY PathSent
  <1>2. StrLen(p, off) = Len(Strip(path)) /\ CString(p, off) = Strip(path)
    BY <1>1, StringFound
  <1>3. Len(Strip(path)) \in Nat /\ Len(Strip(path)) + 1 = PathSize(path)
    BY PathSent
  <1>. QED  BY <1>2, <1>3

-----------------------------------------------------------------------------
(* The calls of a client, and what travels. *)

(***************************************************************************)
(* What the code handles: messages that arrive whole, a mode with O_CREAT  *)
(* alone, and rename() to another remote path.                             *)
(***************************************************************************)
Handled ==
    /\ ShortRecvs = {}
    /\ \A oflag \in OFlags : Creates(oflag) <=> oflag = O_CREAT
    /\ \A path \in Targets : HasPrefix(path)

LEMMA CallFields ==
    ASSUME NEW c \in Calls
    PROVE  /\ c.fn \in PathCalls \cup FdCalls
           /\ c.fn \in PathCalls => c.path \in Paths
           /\ c.fn \in FdCalls => c.fildes \in LocalFds \/ (c.fildes = handle /\ handle # -1)
           /\ c.fn = "OPEN" => c.oflag \in OFlags /\ c.mode \in Modes
           /\ c.fn = "RENAME" => c.new \in Targets
           /\ c.fn \in {"READ", "WRITE"} => c.nbyte \in Lengths
           /\ c.fn = "WRITE" => c.buf = Data(c.nbyte)
           /\ c.fn \in {"LSEEK", "TRUNCATE", "FTRUNCATE"} => c.offset \in Lengths
           /\ c.fn = "LSEEK" => c.whence \in {0, 2}
  <1>. DEFINE fds == LocalFds \cup ({handle} \ {-1})
  <1>1. \A f \in fds : f \in LocalFds \/ (f = handle /\ handle # -1)
    OBVIOUS
  <1>2. \/ c \in [fn : {"OPEN"}, path : Paths, oflag : OFlags, mode : Modes]
        \/ c \in [fn : {"STAT", "UNLINK"}, path : Paths]
        \/ c \in [fn : {"TRUNCATE"}, path : Paths, offset : Lengths]
        \/ c \in [fn : {"RENAME"}, path : Paths, new : Targets]
        \/ c \in [fn : {"CLOSE", "FSTAT", "FSYNC"}, fildes : fds]
        \/ c \in [fn : {"READ"}, fildes : fds, nbyte : Lengths]
        \/ c \in {[fn |-> "WRITE", fildes |-> f, nbyte |-> n, buf |-> Data(n)] :
                    f \in fds, n \in Lengths}
        \/ c \in [fn : {"LSEEK"}, fildes : fds, offset : Lengths, whence : {0, 2}]
        \/ c \in [fn : {"FTRUNCATE"}, fildes : fds, offset : Lengths]
    BY DEF Calls
  <1>. HIDE DEF fds
  <1>3. CASE c \in [fn : {"OPEN"}, path : Paths, oflag : OFlags, mode : Modes]
    BY <1>3 DEF PathCalls, FdCalls
  <1>4. CASE c \in [fn : {"STAT", "UNLINK"}, path : Paths]
    BY <1>4 DEF PathCalls, FdCalls
  <1>5. CASE c \in [fn : {"TRUNCATE"}, path : Paths, offset : Lengths]
    BY <1>5 DEF PathCalls, FdCalls
  <1>6. CASE c \in [fn : {"RENAME"}, path : Paths, new : Targets]
    BY <1>6 DEF PathCalls, FdCalls
  <1>7. CASE c \in [fn : {"CLOSE", "FSTAT", "FSYNC"}, fildes : fds]
    BY <1>1, <1>7 DEF PathCalls, FdCalls
  <1>8. CASE c \in [fn : {"READ"}, fildes : fds, nbyte : Lengths]
    BY <1>1, <1>8 DEF PathCalls, FdCalls
  <1>9. CASE c \in {[fn |-> "WRITE", fildes |-> f, nbyte |-> n, buf |-> Data(n)] :
                      f \in fds, n \in Lengths}
    <2>1. PICK f \in fds, n \in Lengths :
            c = [fn |-> "WRITE", fildes |-> f, nbyte |-> n, buf |-> Data(n)]
      BY <1>9
    <2>2. c.fn = "WRITE" /\ c.fildes = f /\ c.nbyte = n /\ c.buf = Data(n)
      BY <2>1
    <2>. QED  BY <1>1, <2>2 DEF PathCalls, FdCalls
  <1>10. CASE c \in [fn : {"LSEEK"}, fildes : fds, offset : Lengths, whence : {0, 2}]
    BY <1>1, <1>10 DEF PathCalls, FdCalls
  <1>11. CASE c \in [fn : {"FTRUNCATE"}, fildes : fds, offset : Lengths]
    BY <1>1, <1>11 DEF PathCalls, FdCalls
  <1>. QED  BY <1>2, <1>3, <1>4, <1>5, <1>6, <1>7, <1>8, <1>9, <1>10, <1>11

(* What a stub finds in a call that it makes remotely.                     *)
LEMMA CallTypes ==
    ASSUME Handled, handle \in Int, NEW c \in Calls, Remote(c)
    PROVE  /\ c.fn \in PathCalls \cup FdCalls
           /\ c.fn \in PathCalls => c.path \in Seq(Nat \ {0}) /\ HasPrefix(c.path)
           /\ c.fn \in FdCalls => c.fildes = handle
           /\ c.fn = "OPEN" => c.oflag \in OFlags /\ c.oflag \in Nat /\ c.mode \in Nat
           /\ c.fn = "RENAME" => c.new \in Seq(Nat \ {0}) /\ HasPrefix(c.new)
           /\ c.fn \in {"READ", "WRITE"} => c.nbyte \in Nat
           /\ c.fn = "WRITE" => c.buf \in Seq(Int) /\ Len(c.buf) = c.nbyte
           /\ c.fn \in {"LSEEK", "TRUNCATE", "FTRUNCATE"} => c.offset \in Nat
           /\ c.fn = "LSEEK" => c.whence \in Nat
  <1>1. ASSUME NEW n \in Nat PROVE Data(n) \in Seq(Int) /\ Len(Data(n)) = n
    <2>1. Data(n) \in [1..n -> Int]
      BY DEF Data
    <2>. QED  BY <2>1, Function
  <1>2. ASSUME c.fn \in FdCalls PROVE c.fildes = handle
    <2>1. c.fildes > IntMax \div 2
      BY <1>2 DEF Remote, FdCalls, PathCalls
    <2>2. c.fildes \notin LocalFds
      BY <2>1, WireAssumption DEF WireAssumption
    <2>. QED  BY <1>2, <2>2, CallFields
  <1>3. c.fn \in PathCalls => HasPrefix(c.path)
    BY DEF Remote
  <1>4. /\ \A path \in Paths \cup Targets : path \in Seq(Nat \ {0})
        /\ \A n \in OFlags \cup Modes \cup Lengths : n \in Nat
        /\ \A path \in Targets : HasPrefix(path)
    BY WireAssumption DEF WireAssumption, Handled
  <1>5. c.fn = "WRITE" => c.buf \in Seq(Int) /\ Len(c.buf) = c.nbyte
    BY <1>1, <1>4, CallFields
  <1>. QED  BY <1>2, <1>3, <1>4, <1>5, CallFields

(* The payload: the function code and the arguments.                       *)
Payload(c) == Encode(Code[c.fn], 1) \o Stub(c).args

(* The arguments of each stub fill the space it computed for them.         *)
LEMMA Arguments ==
    ASSUME Handled, handle \in Int, NEW c \in Calls, Remote(c)
    PROVE  Stub(c).args \in Seq(Byte) /\ Len(Stub(c).args) = Stub(c).size /\ Stub(c).size \in Nat
  <1>. DEFINE Fills(s) == s.args \in Seq(Byte) /\ Len(s.args) = s.size /\ s.size \in Nat
  <1>1. /\ SizeofInt \in Nat /\ SizeofSize \in Nat /\ SizeofOff \in Nat /\ SizeofMode \in Nat
    BY WireAssumption DEF WireAssumption
  <1>2. \A v \in Int, n \in Nat : Encode(v, n) \in Seq(Byte) /\ Len(Encode(v, n)) = n
    BY Encoded
  <1>3. \A a, b \in Seq(Byte) : a \o b \in Seq(Byte) /\ Len(a \o b) = Len(a) + Len(b)
    BY ConcatProperties
  <1>4. c.fn \in PathCalls => /\ PathBytes(c.path) \in Seq(Byte) /\ PathSize(c.path) \in Nat
                              /\ Len(PathBytes(c.path)) = PathSize(c.path)
    BY CallTypes, PathSent
  <1>5. CASE c.fn = "OPEN"
    <2>1. c.oflag \in Int /\ c.mode \in Int /\ c.fn \in PathCalls
      BY <1>5, CallTypes DEF PathCalls
    <2>. DEFINE a == PathBytes(c.path) \o Encode(c.oflag, SizeofInt)
                b == IF c.oflag = O_CREAT THEN Encode(c.mode, SizeofMode) ELSE <<>>
                m == IF c.oflag = O_CREAT THEN SizeofMode ELSE 0
    <2>2. a \in Seq(Byte) /\ Len(a) = PathSize(c.path) + SizeofInt
      <3>1. Encode(c.oflag, SizeofInt) \in Seq(Byte) /\ Len(Encode(c.oflag, SizeofInt)) = SizeofInt
        BY <1>1, <1>2, <2>1
      <3>. QED  BY <1>4, <2>1, <3>1, ConcatProperties
    <2>3. b \in Seq(Byte) /\ Len(b) = m /\ m \in Nat
      BY <1>1, <1>2, <2>1
    <2>4. Stub(c).args = a \o b /\ Stub(c).size = PathSize(c.path) + SizeofInt + m
      BY <1>5 DEF Stub, open
    <2>. HIDE DEF a, b, m
    <2>. QED  BY <1>1, <1>3, <1>4, <2>1, <2>2, <2>3, <2>4
  <1>6. CASE c.fn \in {"CLOSE", "FSTAT", "FSYNC"}
    <2>1. c.fildes \in Int
      BY <1>6, CallTypes DEF FdCalls
    <2>2. Stub(c).args = Encode(c.fildes, SizeofInt) /\ Stub(c).size = SizeofInt
      BY <1>6 DEF Stub, close, fstat, fsync
    <2>. QED  BY <1>1, <1>2, <2>1, <2>2
  <1>7. CASE c.fn = "READ"
    <2>1. c.fildes \in Int /\ c.nbyte \in Int
      BY <1>7, CallTypes DEF FdCalls
    <2>2. /\ Stub(c).args = Encode(c.fildes, SizeofInt) \o Encode(c.nbyte, SizeofSize)
          /\ Stub(c).size = SizeofInt + SizeofSize
      BY <1>7 DEF Stub, read
    <2>. QED  BY <1>1, <1>2, <1>3, <2>1, <2>2
  <1>8. CASE c.fn = "WRITE"
    <2>1. c.fildes \in Int /\ c.nbyte \in Nat /\ c.buf \in Seq(Int) /\ Len(c.buf) = c.nbyte
      BY <1>8, CallTypes DEF FdCalls
    <2>. DEFINE a == Encode(c.fildes, SizeofInt)
                b == Block(c.buf)
                z == Encode(c.nbyte, SizeofSize)
    <2>2. /\ Stub(c).args = a \o b \o z
          /\ Stub(c).size = SizeofInt + c.nbyte + SizeofSize
      BY <1>8 DEF Stub, write
    <2>3. /\ a \in Seq(Byte) /\ Len(a) = SizeofInt
          /\ b \in Seq(Byte) /\ Len(b) = c.nbyte
          /\ z \in Seq(Byte) /\ Len(z) = SizeofSize
      BY <1>1, <1>2, <2>1, Blocks
    <2>. HIDE DEF a, b, z
    <2>4. a \o b \o z \in Seq(Byte) /\ Len(a \o b \o z) = Len(a) + Len(b) + Len(z)
      BY <2>3, Joined
    <2>. QED  BY <1>1, <2>1, <2>2, <2>3, <2>4
  <1>9. CASE c.fn = "LSEEK"
    <2>1. c.fildes \in Int /\ c.offset \in Int /\ c.whence \in Int
      BY <1>9, CallTypes DEF FdCalls
    <2>. DEFINE a == Encode(c.fildes, SizeofInt)
                b == Encode(c.offset, SizeofOff)
                z == Encode(c.whence, SizeofInt)
    <2>2. /\ Stub(c).args = a \o b \o z
          /\ Stub(c).size = SizeofInt + SizeofOff + SizeofInt
      BY <1>9 DEF Stub, lseek
    <2>3. /\ a \in Seq(Byte) /\ Len(a) = SizeofInt
          /\ b \in Seq(Byte) /\ Len(b) = SizeofOff
          /\ z \in Seq(Byte) /\ Len(z) = SizeofInt
      BY <1>1, <1>2, <2>1
    <2>. HIDE DEF a, b, z
    <2>4. a \o b \o z \in Seq(Byte) /\ Len(a \o b \o z) = Len(a) + Len(b) + Len(z)
      BY <2>3, Joined
    <2>. QED  BY <1>1, <2>1, <2>2, <2>3, <2>4
  <1>10. CASE c.fn = "FTRUNCATE"
    <2>1. c.fildes \in Int /\ c.offset \in Int
      BY <1>10, CallTypes DEF FdCalls
    <2>2. /\ Stub(c).args = Encode(c.fildes, SizeofInt) \o Encode(c.offset, SizeofOff)
          /\ Stub(c).size = SizeofInt + SizeofOff
      BY <1>10 DEF Stub, ftruncate
    <2>. QED  BY <1>1, <1>2, <1>3, <2>1, <2>2
  <1>11. CASE c.fn = "TRUNCATE"
    <2>1. c.fn \in PathCalls /\ c.offset \in Int
      BY <1>11, CallTypes DEF PathCalls
    <2>2. /\ Stub(c).args = PathBytes(c.path) \o Encode(c.offset, SizeofOff)
          /\ Stub(c).size = PathSize(c.path) + SizeofOff
      BY <1>11 DEF Stub, truncate
    <2>3. Encode(c.offset, SizeofOff) \in Seq(Byte) /\ Len(Encode(c.offset, SizeofOff)) = SizeofOff
      BY <1>1, <1>2, <2>1
    <2>4. Stub(c).args \in Seq(Byte) /\ Len(Stub(c).args) = PathSize(c.path) + SizeofOff
      <3>. DEFINE b == Encode(c.offset, SizeofOff)
      <3>1. /\ PathBytes(c.path) \o b \in Seq(Byte)
            /\ Len(PathBytes(c.path) \o b) = Len(PathBytes(c.path)) + Len(b)
        BY <1>4, <2>1, <2>3, Joined
      <3>. QED  BY <1>4, <2>1, <2>2, <2>3, <3>1
    <2>. QED  BY <1>1, <1>4, <2>1, <2>2, <2>4
  <1>12. CASE c.fn \in {"STAT", "UNLINK"}
    <2>1. c.fn \in PathCalls
      BY <1>12 DEF PathCalls
    <2>2. Stub(c).args = PathBytes(c.path) /\ Stub(c).size = PathSize(c.path)
      BY <1>12 DEF Stub, stat, unlink
    <2>. QED  BY <1>4, <2>1, <2>2
  <1>13. CASE c.fn = "RENAME"
    <2>1. c.fn \in PathCalls
      BY <1>13 DEF PathCalls
    <2>2. /\ Stub(c).args = PathBytes(c.path) \o PathBytes(c.new)
          /\ Stub(c).size = PathSize(c.path) + PathSize(c.new)
      BY <1>13 DEF Stub, rename
    <2>3. /\ PathBytes(c.new) \in Seq(Byte) /\ PathSize(c.new) \in Nat
          /\ Len(PathBytes(c.new)) = PathSize(c.new)
      BY <1>13, CallTypes, PathSent
    <2>4. Stub(c).args \in Seq(Byte) /\ Len(Stub(c).args) = PathSize(c.path) + PathSize(c.new)
      <3>. DEFINE b == PathBytes(c.new)
      <3>1. /\ PathBytes(c.path) \o b \in Seq(Byte)
            /\ Len(PathBytes(c.path) \o b) = Len(PathBytes(c.path)) + Len(b)
        BY <1>4, <2>1, <2>3, Joined
      <3>. QED  BY <1>4, <2>1, <2>2, <2>3, <3>1
    <2>. QED  BY <1>4, <2>1, <2>2, <2>3, <2>4
  <1>14. c.fn \in PathCalls \cup FdCalls
    BY CallTypes
  <1>. QED  BY <1>5, <1>6, <1>7, <1>8, <1>9, <1>10, <1>11, <1>12, <1>13, <1>14 DEF PathCalls, FdCalls

LEMMA Codes ==
    ASSUME NEW fn \in PathCalls \cup FdCalls
    PROVE  Code[fn] \in Int /\ Encode(Code[fn], 1) \in Seq(Byte) /\ Len(Encode(Code[fn], 1)) = 1
  <1>1. Code[fn] \in Int
    BY DEF Code, PathCalls, FdCalls
  <1>. QED  BY <1>1, Encoded

(* The request is the size of the payload and the payload, no byte less.   *)
LEMMA Request ==
    ASSUME Handled, handle \in Int, NEW c \in Calls, Remote(c)
    PROVE  /\ Payload(c) \in Seq(Byte) /\ Len(Payload(c)) = PayloadSize(c)
           /\ PayloadSize(c) \in Nat \ {0}
           /\ RequestBuf(c) = Encode(PayloadSize(c), SizeofSize) \o Payload(c)
  <1>. DEFINE s == Encode(PayloadSize(c), SizeofSize)
              h == Encode(Code[c.fn], 1)
              a == Stub(c).args
  <1>1. SizeofSize \in Nat
    BY WireAssumption DEF WireAssumption
  <1>2. a \in Seq(Byte) /\ Len(a) = Stub(c).size /\ Stub(c).size \in Nat
    BY Arguments
  <1>3. PayloadSize(c) \in Nat \ {0} /\ PayloadSize(c) = 1 + Len(a)
    BY <1>2 DEF PayloadSize
  <1>4. h \in Seq(Byte) /\ Len(h) = 1
    BY CallTypes, Codes
  <1>5. s \in Seq(Byte) /\ Len(s) = SizeofSize
    <2>1. PayloadSize(c) \in Int
      BY <1>3
    <2>. QED  BY <1>1, <2>1, Encoded
  <1>6. Payload(c) = h \o a
    BY DEF Payload
  <1>7. RequestBuf(c) = Bytes(s \o h \o a, 0, SizeofSize + PayloadSize(c))
    BY DEF RequestBuf
  <1>. HIDE DEF s, h, a
  <1>8. Payload(c) \in Seq(Byte) /\ Len(Payload(c)) = PayloadSize(c)
    BY <1>2, <1>3, <1>4, <1>6, Joined
  <1>. DEFINE w == s \o h \o a
  <1>9. w \in Seq(Byte) /\ Len(w) = Len(s) + Len(h) + Len(a)
    BY <1>2, <1>4, <1>5, Joined
  <1>10. w = s \o Payload(c)
    BY <1>2, <1>4, <1>5, <1>6, ConcatAssociative
  <1>11. Len(w) = SizeofSize + PayloadSize(c)
    <2>1. Len(w) = SizeofSize + 1 + Len(a) /\ Len(a) \in Nat
      BY <1>2, <1>4, <1>5, <1>9
    <2>. QED  BY <1>1, <1>3, <2>1
  <1>12. RequestBuf(c) = Bytes(w, 0, Len(w))
    BY <1>7, <1>11
  <1>. HIDE DEF w
  <1>13. Bytes(w, 0, Len(w)) = w
    BY <1>9, Whole, Copied
  <1>. QED  BY <1>3, <1>8, <1>10, <1>12, <1>13 DEF s

-----------------------------------------------------------------------------
(* client_handler() finds what the stubs have laid out. *)

LEMMA CodeFound ==
    ASSUME Handled, handle \in Int, NEW c \in Calls, Remote(c)
    PROVE  Field(Payload(c), 0, 1) = Code[c.fn]
  <1>. DEFINE h == Encode(Code[c.fn], 1)
              a == Stub(c).args
  <1>1. h \in Seq(Byte) /\ Len(h) = 1 /\ Code[c.fn] \in Int /\ a \in Seq(Byte)
    BY CallTypes, Codes, Arguments
  <1>2. h \o a \in Seq(Byte) /\ At(h \o a, 0, h)
    BY <1>1, Fields1
  <1>. DEFINE w == h \o a
  <1>3. w \in Seq(Byte) /\ At(w, 0, Encode(Code[c.fn], 1)) /\ w = Payload(c)
    BY <1>2 DEF Payload
  <1>4. 0 \in Nat /\ 1 \in Nat \ {0}
    OBVIOUS
  <1>. HIDE DEF w
  <1>5. Field(w, 0, 1) = Code[c.fn]
    BY <1>1, <1>3, <1>4, FieldFound
  <1>. QED  BY <1>3, <1>5

LEMMA Cases ==
    ASSUME NEW fn \in PathCalls \cup FdCalls, NEW p, NEW n, Field(p, 0, 1) = Code[fn]
    PROVE  /\ fn = "OPEN"      => Switch(p, n) = OPEN(p)
           /\ fn = "CLOSE"     => Switch(p, n) = CLOSE(p)
           /\ fn = "READ"      => Switch(p, n) = READ(p)
           /\ fn = "WRITE"     => Switch(p, n) = WRITE(p, n)
           /\ fn = "LSEEK"     => Switch(p, n) = LSEEK(p)
           /\ fn = "TRUNCATE"  => Switch(p, n) = TRUNCATE(p)
           /\ fn = "FTRUNCATE" => Switch(p, n) = FTRUNCATE(p)
           /\ fn = "STAT"      => Switch(p, n) = STAT(p)
           /\ fn = "FSTAT"     => Switch(p, n) = FSTAT(p)
           /\ fn = "FSYNC"     => Switch(p, n) = FSYNC(p)
           /\ fn = "RENAME"    => Switch(p, n) = RENAME(p)
           /\ fn = "UNLINK"    => Switch(p, n) = UNLINK(p)
  <1>1. /\ Code["OPEN"] = 0 /\ Code["CLOSE"] = 1 /\ Code["READ"] = 2 /\ Code["WRITE"] = 3
        /\ Code["LSEEK"] = 4 /\ Code["TRUNCATE"] = 5 /\ Code["FTRUNCATE"] = 6 /\ Code["STAT"] = 7
        /\ Code["FSTAT"] = 8 /\ Code["FSYNC"] = 9 /\ Code["RENAME"] = 10 /\ Code["UNLINK"] = 11
    BY DEF Code
  <1>. QED  BY <1>1 DEF Switch

(* The descriptor of a call given one.                                     *)
LEMMA FildesFound ==
    ASSUME NEW c, NEW p \in Seq(Byte), c.fildes \in Int, At(p, 1, Encode(c.fildes, SizeofInt)),
           Renumber(c.fildes) = fd
    PROVE  Fildes(p) = fd
  <1>1. SizeofInt \in Nat \ {0}
    BY WireAssumption DEF WireAssumption
  <1>2. Field(p, 1, SizeofInt) = c.fildes
    BY <1>1, FieldFound
  <1>. QED  BY <1>2 DEF Fildes

(***************************************************************************)
(* For each of the twelve functions: the case of the switch makes the call *)
(* meant, and answers in the width the stub expects.                       *)
(***************************************************************************)
LEMMA Served ==
    ASSUME Handled, handle \in Int, NEW c \in Calls, Remote(c),
           c.fn \in FdCalls => Renumber(c.fildes) = fd
    PROVE  Switch(Payload(c), PayloadSize(c)) = [call |-> Meaning(c), width |-> Stub(c).width]
  <1>. DEFINE p == Payload(c)
              n == PayloadSize(c)
              h == Encode(Code[c.fn], 1)
  <1>1. /\ SizeofInt \in Nat \ {0} /\ SizeofSize \in Nat \ {0}
        /\ SizeofOff \in Nat \ {0} /\ SizeofMode \in Nat \ {0}
    BY WireAssumption DEF WireAssumption
  <1>2. p \in Seq(Byte) /\ Len(p) = n /\ n \in Nat /\ Field(p, 0, 1) = Code[c.fn]
    BY Request, CodeFound
  <1>3. h \in Seq(Byte) /\ Len(h) = 1 /\ c.fn \in PathCalls \cup FdCalls
    BY CallTypes, Codes
  <1>4. p = h \o Stub(c).args
    BY DEF Payload
  <1>5. c.fn \in FdCalls => c.fildes \in Int /\ Renumber(c.fildes) = fd
    BY CallTypes
  <1>6. c.fn \in PathCalls => /\ c.path \in Seq(Nat \ {0}) /\ HasPrefix(c.path)
                              /\ PathBytes(c.path) \in Seq(Byte) /\ PathSize(c.path) \in Nat
                              /\ Len(PathBytes(c.path)) = PathSize(c.path)
    BY CallTypes, PathSent
  <1>. HIDE DEF p, n, h
  <1>7. ASSUME c.fn \in PathCalls, At(p, 1, PathBytes(c.path))
        PROVE  CString(p, 1) = Strip(c.path) /\ PastPath(p) = 1 + PathSize(c.path)
    <2>1. CString(p, 1) = Strip(c.path) /\ StrLen(p, 1) = PathSize(c.path) - 1
      BY <1>2, <1>6, <1>7, PathFound
    <2>. QED  BY <1>6, <1>7, <2>1 DEF PastPath
  <1>8. ASSUME c.fn \in FdCalls, At(p, 1, Encode(c.fildes, SizeofInt))
        PROVE  Fildes(p) = fd
    BY <1>2, <1>5, <1>8, FildesFound
  <1>9. CASE c.fn = "OPEN"
    <2>. DEFINE x == PathBytes(c.path)
                y == Encode(c.oflag, SizeofInt)
                z == IF c.oflag = O_CREAT THEN Encode(c.mode, SizeofMode) ELSE <<>>
                e == PastPath(p)
    <2>1. c.fn \in PathCalls /\ c.oflag \in Int /\ c.oflag \in OFlags /\ c.mode \in Int
      BY <1>9, CallTypes DEF PathCalls
    <2>2. Stub(c).args = x \o y \o z /\ Stub(c).width = SizeofInt
      BY <1>9 DEF Stub, open
    <2>3. x \in Seq(Byte) /\ y \in Seq(Byte) /\ z \in Seq(Byte) /\ Len(y) = SizeofInt
      <3>1. Encode(c.mode, SizeofMode) \in Seq(Byte) /\ <<>> \in Seq(Byte)
        BY <1>1, <2>1, Encoded
      <3>2. y \in Seq(Byte) /\ Len(y) = SizeofInt
        BY <1>1, <2>1, Encoded
      <3>. QED  BY <1>6, <2>1, <3>1, <3>2
    <2>. HIDE DEF x, y, z, e
    <2>4. At(p, 1, x) /\ At(p, 1 + Len(x), y) /\ At(p, 1 + Len(x) + Len(y), z)
      <3>1. /\ At(h \o (x \o y \o z), 1, x) /\ At(h \o (x \o y \o z), 1 + Len(x), y)
            /\ At(h \o (x \o y \o z), 1 + Len(x) + Len(y), z)
        BY <1>3, <2>3, Fields3
      <3>. QED  BY <1>4, <2>2, <3>1
    <2>5. e = 1 + Len(x) /\ e \in Nat /\ CString(p, 1) = Strip(c.path)
      BY <1>6, <1>7, <2>1, <2>4 DEF x, e
    <2>6. Field(p, e, SizeofInt) = c.oflag
      BY <1>1, <1>2, <2>1, <2>4, <2>5, FieldFound DEF y
    <2>7. c.oflag = O_CREAT => Field(p, e + SizeofInt, SizeofMode) = c.mode
      <3>1. e + SizeofInt \in Nat /\ e + SizeofInt = 1 + Len(x) + Len(y)
        BY <1>1, <2>3, <2>5
      <3>. QED  BY <1>1, <1>2, <2>1, <2>4, <3>1, FieldFound DEF z
    <2>8. (Creates(c.oflag) <=> c.oflag = O_CREAT)
      BY <2>1 DEF Handled
    <2>9. Switch(p, n) = OPEN(p)
      BY <1>2, <1>3, <1>9, Cases
    <2>10. OPEN(p) = [call |-> <<"OPEN", CString(p, 1), c.oflag,
                                 IF c.oflag = O_CREAT THEN Field(p, e + SizeofInt, SizeofMode)
                                 ELSE NoMode>>,
                      width |-> SizeofInt]
      BY <2>6 DEF OPEN, e
    <2>11. Meaning(c) = <<"OPEN", Strip(c.path), c.oflag, IF c.oflag = O_CREAT THEN c.mode ELSE NoMode>>
      BY <1>9, <2>8 DEF Meaning
    <2>. QED  BY <2>2, <2>5, <2>7, <2>9, <2>10, <2>11 DEF p, n
  <1>10. CASE c.fn = "CLOSE"
    <2>. DEFINE x == Encode(c.fildes, SizeofInt)
    <2>1. c.fn \in FdCalls
      BY <1>10 DEF FdCalls
    <2>2. Stub(c).args = x /\ Stub(c).width = SizeofInt
      BY <1>10 DEF Stub, close
    <2>3. x \in Seq(Byte)
      BY <1>1, <1>5, <2>1, Encoded
    <2>4. At(p, 1, x)
      BY <1>3, <1>4, <2>2, <2>3, Fields1
    <2>5. Fildes(p) = fd
      BY <1>8, <2>1, <2>4
    <2>6. Switch(p, n) = CLOSE(p)
      BY <1>2, <1>3, <1>10, Cases
    <2>7. Meaning(c) = <<"CLOSE", fd>>
      BY <1>10 DEF Meaning
    <2>. QED  BY <2>2, <2>5, <2>6, <2>7 DEF CLOSE, p, n
  <1>11. CASE c.fn = "FSTAT"
    <2>. DEFINE x == Encode(c.fildes, SizeofInt)
    <2>1. c.fn \in FdCalls
      BY <1>11 DEF FdCalls
    <2>2. Stub(c).args = x /\ Stub(c).width = SizeofInt
      BY <1>11 DEF Stub, fstat
    <2>3. x \in Seq(Byte)
      BY <1>1, <1>5, <2>1, Encoded
    <2>4. At(p, 1, x)
      BY <1>3, <1>4, <2>2, <2>3, Fields1
    <2>5. Fildes(p) = fd
      BY <1>8, <2>1, <2>4
    <2>6. Switch(p, n) = FSTAT(p)
      BY <1>2, <1>3, <1>11, Cases
    <2>7. Meaning(c) = <<"FSTAT", fd>>
      BY <1>11 DEF Meaning
    <2>. QED  BY <2>2, <2>5, <2>6, <2>7 DEF FSTAT, p, n
  <1>12. CASE c.fn = "FSYNC"
    <2>. DEFINE x == Encode(c.fildes, SizeofInt)
    <2>1. c.fn \in FdCalls
      BY <1>12 DEF FdCalls
    <2>2. Stub(c).args = x /\ Stub(c).width = SizeofInt
      BY <1>12 DEF Stub, fsync
    <2>3. x \in Seq(Byte)
      BY <1>1, <1>5, <2>1, Encoded
    <2>4. At(p, 1, x)
      BY <1>3, <1>4, <2>2, <2>3, Fields1
    <2>5. Fildes(p) = fd
      BY <1>8, <2>1, <2>4
    <2>6. Switch(p, n) = FSYNC(p)
      BY <1>2, <1>3, <1>12, Cases
    <2>7. Meaning(c) = <<"FSYNC", fd>>
      BY <1>12 DEF Meaning
    <2>. QED  BY <2>2, <2>5, <2>6, <2>7 DEF FSYNC, p, n
  <1>13. CASE c.fn = "READ"
    <2>. DEFINE x == Encode(c.fildes, SizeofInt)
                y == Encode(c.nbyte, SizeofSize)
    <2>1. c.fn \in FdCalls /\ c.nbyte \in Int
      BY <1>13, CallTypes DEF FdCalls
    <2>2. Stub(c).args = x \o y /\ Stub(c).width = SizeofSize
      BY <1>13 DEF Stub, read
    <2>3. x \in Seq(Byte) /\ y \in Seq(Byte) /\ Len(x) = SizeofInt
      BY <1>1, <1>5, <2>1, Encoded
    <2>. HIDE DEF x, y
    <2>4. At(p, 1, x) /\ At(p, 1 + Len(x), y)
      BY <1>3, <1>4, <2>2, <2>3, Fields2
    <2>5. Fildes(p) = fd
      BY <1>8, <2>1, <2>4 DEF x
    <2>6. Field(p, 1 + SizeofInt, SizeofSize) = c.nbyte
      BY <1>1, <1>2, <2>1, <2>3, <2>4, FieldFound DEF y
    <2>7. Switch(p, n) = READ(p)
      BY <1>2, <1>3, <1>13, Cases
    <2>8. Meaning(c) = <<"READ", fd, c.nbyte>>
      BY <1>13 DEF Meaning
    <2>. QED  BY <2>2, <2>5, <2>6, <2>7, <2>8 DEF READ, p, n
  <1>14. CASE c.fn = "FTRUNCATE"
    <2>. DEFINE x == Encode(c.fildes, SizeofInt)
                y == Encode(c.offset, SizeofOff)
    <2>1. c.fn \in FdCalls /\ c.offset \in Int
      BY <1>14, CallTypes DEF FdCalls
    <2>2. Stub(c).args = x \o y /\ Stub(c).width = SizeofInt
      BY <1>14 DEF Stub, ftruncate
    <2>3. x \in Seq(Byte) /\ y \in Seq(Byte) /\ Len(x) = SizeofInt
      BY <1>1, <1>5, <2>1, Encoded
    <2>. HIDE DEF x, y
    <2>4. At(p, 1, x) /\ At(p, 1 + Len(x), y)
      BY <1>3, <1>4, <2>2, <2>3, Fields2
    <2>5. Fildes(p) = fd
      BY <1>8, <2>1, <2>4 DEF x
    <2>6. Field(p, 1 + SizeofInt, SizeofOff) = c.offset
      BY <1>1, <1>2, <2>1, <2>3, <2>4, FieldFound DEF y
    <2>7. Switch(p, n) = FTRUNCATE(p)
      BY <1>2, <1>3, <1>14, Cases
    <2>8. Meaning(c) = <<"FTRUNCATE", fd, c.offset>>
      BY <1>14 DEF Meaning
    <2>. QED  BY <2>2, <2>5, <2>6, <2>7, <2>8 DEF FTRUNCATE, p, n
  <1>15. CASE c.fn = "LSEEK"
    <2>. DEFINE x == Encode(c.fildes, SizeofInt)
                y == Encode(c.offset, SizeofOff)
                z == Encode(c.whence, SizeofInt)
    <2>1. c.fn \in FdCalls /\ c.offset \in Int /\ c.whence \in Int
      BY <1>15, CallTypes DEF FdCalls
    <2>2. Stub(c).args = x \o y \o z /\ Stub(c).width = SizeofOff
      BY <1>15 DEF Stub, lseek
    <2>3. /\ x \in Seq(Byte) /\ y \in Seq(Byte) /\ z \in Seq(Byte)
          /\ Len(x) = SizeofInt /\ Len(y) = SizeofOff
      BY <1>1, <1>5, <2>1, Encoded
    <2>. HIDE DEF x, y, z
    <2>4. At(p, 1, x) /\ At(p, 1 + Len(x), y) /\ At(p, 1 + Len(x) + Len(y), z)
      <3>1. /\ At(h \o (x \o y \o z), 1, x) /\ At(h \o (x \o y \o z), 1 + Len(x), y)
            /\ At(h \o (x \o y \o z), 1 + Len(x) + Len(y), z)
        BY <1>3, <2>3, Fields3
      <3>. QED  BY <1>4, <2>2, <3>1
    <2>5. Fildes(p) = fd
      BY <1>8, <2>1, <2>4 DEF x
    <2>6. Field(p, 1 + SizeofInt, SizeofOff) = c.offset
      BY <1>1, <1>2, <2>1, <2>3, <2>4, FieldFound DEF y
    <2>7. Field(p, 1 + SizeofInt + SizeofOff, SizeofInt) = c.whence
      BY <1>1, <1>2, <2>1, <2>3, <2>4, FieldFound DEF z
    <2>8. Switch(p, n) = LSEEK(p)
      BY <1>2, <1>3, <1>15, Cases
    <2>9. Meaning(c) = <<"LSEEK", fd, c.offset, c.whence>>
      BY <1>15 DEF Meaning
    <2>. QED  BY <2>2, <2>5, <2>6, <2>7, <2>8, <2>9 DEF LSEEK, p, n
  <1>16. CASE c.fn = "WRITE"
    <2>. DEFINE x == Encode(c.fildes, SizeofInt)
                y == Block(c.buf)
                z == Encode(c.nbyte, SizeofSize)
    <2>1. /\ c.fn \in FdCalls /\ c.nbyte \in Nat /\ c.nbyte \in Int
          /\ c.buf \in Seq(Int) /\ Len(c.buf) = c.nbyte
      BY <1>16, CallTypes DEF FdCalls
    <2>2. Stub(c).args = x \o y \o z /\ Stub(c).width = SizeofSize
      BY <1>16 DEF Stub, write
    <2>3. /\ x \in Seq(Byte) /\ Len(x) = SizeofInt
          /\ z \in Seq(Byte) /\ Len(z) = SizeofSize
      BY <1>1, <1>5, <2>1, Encoded
    <2>4. y \in Seq(Byte) /\ Len(y) = c.nbyte
      BY <2>1, Blocks
    <2>. HIDE DEF x, y, z
    <2>5. At(p, 1, x) /\ At(p, 1 + Len(x), y) /\ At(p, 1 + Len(x) + Len(y), z)
      <3>1. /\ At(h \o (x \o y \o z), 1, x) /\ At(h \o (x \o y \o z), 1 + Len(x), y)
            /\ At(h \o (x \o y \o z), 1 + Len(x) + Len(y), z)
        BY <1>3, <2>3, <2>4, Fields3
      <3>. QED  BY <1>4, <2>2, <3>1
    <2>6. Fildes(p) = fd
      BY <1>8, <2>1, <2>5 DEF x
    <2>7. n - SizeofSize = 1 + SizeofInt + c.nbyte
      <3>1. Stub(c).size = SizeofInt + c.nbyte + SizeofSize
        BY <1>16 DEF Stub, write
      <3>2. n = 1 + (SizeofInt + c.nbyte + SizeofSize)
        BY <3>1 DEF n, PayloadSize
      <3>3. n \in Int /\ SizeofInt \in Int /\ SizeofSize \in Int /\ c.nbyte \in Int
        BY <1>1, <1>2, <2>1
      <3>. QED  BY <3>2, <3>3
    <2>8. Field(p, n - SizeofSize, SizeofSize) = c.nbyte
      <3>1. At(p, 1 + SizeofInt + c.nbyte, z) /\ 1 + SizeofInt + c.nbyte \in Nat
        BY <1>1, <2>1, <2>3, <2>4, <2>5
      <3>. QED  BY <1>1, <1>2, <2>1, <2>7, <3>1, FieldFound DEF z
    <2>9. Chars(Bytes(p, 1 + SizeofInt, c.nbyte)) = c.buf
      <3>1. At(p, 1 + SizeofInt, y) /\ 1 + SizeofInt \in Nat
        BY <1>1, <2>3, <2>5
      <3>. QED  BY <1>2, <2>1, <3>1, DataFound DEF y
    <2>10. Switch(p, n) = WRITE(p, n)
      BY <1>2, <1>3, <1>16, Cases
    <2>11. WRITE(p, n) = [call |-> <<"WRITE", fd, c.nbyte, c.buf>>, width |-> SizeofSize]
      BY <2>1, <2>6, <2>8, <2>9 DEF WRITE
    <2>12. Meaning(c) = <<"WRITE", fd, c.nbyte, c.buf>>
      BY <1>16 DEF Meaning
    <2>. QED  BY <2>2, <2>10, <2>11, <2>12 DEF p, n
  <1>17. CASE c.fn = "TRUNCATE"
    <2>. DEFINE x == PathBytes(c.path)
                y == Encode(c.offset, SizeofOff)
    <2>1. c.fn \in PathCalls /\ c.offset \in Int
      BY <1>17, CallTypes DEF PathCalls
    <2>2. Stub(c).args = x \o y /\ Stub(c).width = SizeofInt
      BY <1>17 DEF Stub, truncate
    <2>3. x \in Seq(Byte) /\ y \in Seq(Byte)
      BY <1>1, <1>6, <2>1, Encoded
    <2>. HIDE DEF x, y
    <2>4. At(p, 1, x) /\ At(p, 1 + Len(x), y)
      BY <1>3, <1>4, <2>2, <2>3, Fields2
    <2>5. PastPath(p) = 1 + Len(x) /\ PastPath(p) \in Nat /\ CString(p, 1) = Strip(c.path)
      BY <1>6, <1>7, <2>1, <2>4 DEF x
    <2>6. Field(p, PastPath(p), SizeofOff) = c.offset
      BY <1>1, <1>2, <2>1, <2>4, <2>5, FieldFound DEF y
    <2>7. Switch(p, n) = TRUNCATE(p)
      BY <1>2, <1>3, <1>17, Cases
    <2>8. Meaning(c) = <<"TRUNCATE", Strip(c.path), c.offset>>
      BY <1>17 DEF Meaning
    <2>. QED  BY <2>2, <2>5, <2>6, <2>7, <2>8 DEF TRUNCATE, p, n
  <1>18. CASE c.fn = "RENAME"
    <2>. DEFINE x == PathBytes(c.path)
                y == PathBytes(c.new)
    <2>1. c.fn \in PathCalls /\ c.new \in Seq(Nat \ {0}) /\ HasPrefix(c.new)
      BY <1>18, CallTypes DEF PathCalls
    <2>2. Stub(c).args = x \o y /\ Stub(c).width = SizeofInt
      BY <1>18 DEF Stub, rename
    <2>3. x \in Seq(Byte) /\ y \in Seq(Byte)
      BY <1>6, <2>1, PathSent
    <2>. HIDE DEF x, y
    <2>4. At(p, 1, x) /\ At(p, 1 + Len(x), y)
      BY <1>3, <1>4, <2>2, <2>3, Fields2
    <2>5. PastPath(p) = 1 + Len(x) /\ PastPath(p) \in Nat /\ CString(p, 1) = Strip(c.path)
      BY <1>6, <1>7, <2>1, <2>4 DEF x
    <2>6. CString(p, PastPath(p)) = Strip(c.new)
      BY <1>2, <2>1, <2>4, <2>5, PathFound DEF y
    <2>7. Switch(p, n) = RENAME(p)
      BY <1>2, <1>3, <1>18, Cases
    <2>8. Meaning(c) = <<"RENAME", Strip(c.path), Strip(c.new)>>
      BY <1>18 DEF Meaning
    <2>. QED  BY <2>2, <2>5, <2>6, <2>7, <2>8 DEF RENAME, p, n
  <1>19. CASE c.fn = "STAT"
    <2>. DEFINE x == PathBytes(c.path)
    <2>1. c.fn \in PathCalls
      BY <1>19 DEF PathCalls
    <2>2. Stub(c).args = x /\ Stub(c).width = SizeofInt
      BY <1>19 DEF Stub, stat
    <2>3. At(p, 1, x)
      BY <1>3, <1>4, <1>6, <2>1, <2>2, Fields1
    <2>4. CString(p, 1) = Strip(c.path)
      BY <1>7, <2>1, <2>3
    <2>5. Switch(p, n) = STAT(p)
      BY <1>2, <1>3, <1>19, Cases
    <2>6. Meaning(c) = <<"STAT", Strip(c.path)>>
      BY <1>19 DEF Meaning
    <2>. QED  BY <2>2, <2>4, <2>5, <2>6 DEF STAT, p, n
  <1>20. CASE c.fn = "UNLINK"
    <2>. DEFINE x == PathBytes(c.path)
    <2>1. c.fn \in PathCalls
      BY <1>20 DEF PathCalls
    <2>2. Stub(c).args = x /\ Stub(c).width = SizeofInt
      BY <1>20 DEF Stub, unlink
    <2>3. At(p, 1, x)
      BY <1>3, <1>4, <1>6, <2>1, <2>2, Fields1
    <2>4. CString(p, 1) = Strip(c.path)
      BY <1>7, <2>1, <2>3
    <2>5. Switch(p, n) = UNLINK(p)
      BY <1>2, <1>3, <1>20, Cases
    <2>6. Meaning(c) = <<"UNLINK", Strip(c.path)>>
      BY <1>20 DEF Meaning
    <2>. QED  BY <2>2, <2>4, <2>5, <2>6 DEF UNLINK, p, n
  <1>. QED  BY <1>3, <1>9, <1>10, <1>11, <1>12, <1>13, <1>14, <1>15, <1>16, <1>17, <1>18, <1>19, <1>20
            DEF PathCalls, FdCalls

-----------------------------------------------------------------------------
(* Responses. *)

(* The value the client is given: descriptors are renumbered.              *)
Given(c, a) == IF c.fn = "OPEN" /\ a.value >= 0 THEN Renumber(a.value) ELSE a.value

LEMMA MeaningFields ==
    ASSUME NEW c \in Calls
    PROVE  /\ Meaning(c)[1] = c.fn
           /\ c.fn \in {"READ", "WRITE"} => Meaning(c)[3] = c.nbyte
           /\ c.fn = "LSEEK" => Meaning(c)[3] = c.offset
  <1>1. c.fn \in PathCalls \cup FdCalls
    BY CallFields
  <1>. QED  BY <1>1 DEF Meaning, PathCalls, FdCalls

(* What the system calls return, and how much data.                        *)
LEMMA AnswerTypes ==
    ASSUME Handled, handle \in Int, NEW c \in Calls, Remote(c), NEW a \in Answers(Meaning(c))
    PROVE  /\ a = [value |-> a.value, data |-> a.data]
           /\ a.value \in Int
           /\ c.fn = "OPEN" => a.value \in ServerFds \cup {-1}
           /\ a.data \in Seq(Int) /\ Len(a.data) = Stub(c).data /\ Stub(c).data \in Nat
           /\ Stub(c).width \in Nat \ {0}
  <1>. DEFINE e == Meaning(c)
  <1>1. /\ SizeofInt \in Nat \ {0} /\ SizeofSize \in Nat \ {0} /\ SizeofOff \in Nat \ {0}
        /\ SizeofStat \in Nat /\ \A f \in ServerFds : f \in Int
    BY WireAssumption DEF WireAssumption
  <1>2. c.fn \in PathCalls \cup FdCalls /\ e[1] = c.fn
    BY CallTypes, MeaningFields
  <1>3. <<>> \in Seq(Int) /\ Len(<<>>) = 0
    OBVIOUS
  <1>. HIDE DEF e
  <1>4. CASE c.fn = "OPEN"
    <2>1. Answers(e) = [value : ServerFds \cup {-1}, data : {<<>>}]
      BY <1>2, <1>4 DEF Answers
    <2>2. a.value \in ServerFds \cup {-1} /\ a.data = <<>> /\ a = [value |-> a.value, data |-> a.data]
      BY <2>1 DEF e
    <2>3. Stub(c).width = SizeofInt /\ Stub(c).data = 0
      BY <1>4 DEF Stub, open
    <2>. QED  BY <1>1, <1>3, <2>2, <2>3
  <1>5. CASE c.fn = "READ"
    <2>1. e[3] = c.nbyte /\ c.nbyte \in Nat
      BY <1>5, MeaningFields, CallTypes DEF e
    <2>2. Answers(e) = {[value |-> v, data |-> [i \in 1..e[3] |-> IF i <= v THEN 8 ELSE Unset]] :
                          v \in {-1} \cup 0..e[3]}
      BY <1>2, <1>5 DEF Answers
    <2>3. PICK v \in {-1} \cup 0..c.nbyte :
            a = [value |-> v, data |-> [i \in 1..c.nbyte |-> IF i <= v THEN 8 ELSE Unset]]
      BY <2>1, <2>2 DEF e
    <2>4. a.value = v /\ a.data = [i \in 1..c.nbyte |-> IF i <= v THEN 8 ELSE Unset]
      BY <2>3
    <2>5. a.data \in [1..c.nbyte -> Int]
      BY <2>4 DEF Unset
    <2>6. a.data \in Seq(Int) /\ Len(a.data) = c.nbyte
      BY <2>1, <2>5, Function
    <2>7. Stub(c).width = SizeofSize /\ Stub(c).data = c.nbyte
      BY <1>5 DEF Stub, read
    <2>8. a = [value |-> a.value, data |-> a.data]
      BY <2>3, <2>4
    <2>. QED  BY <1>1, <1>5, <2>1, <2>4, <2>6, <2>7, <2>8
  <1>6. CASE c.fn \in {"STAT", "FSTAT"}
    <2>1. Answers(e) = [value : {0}, data : {[i \in 1..SizeofStat |-> 9]}]
                         \cup [value : {-1}, data : {[i \in 1..SizeofStat |-> Unset]}]
      BY <1>2, <1>6 DEF Answers
    <2>2. /\ a.value \in {0, -1} /\ a = [value |-> a.value, data |-> a.data]
          /\ a.data \in {[i \in 1..SizeofStat |-> 9], [i \in 1..SizeofStat |-> Unset]}
      BY <2>1 DEF e
    <2>3. a.data \in [1..SizeofStat -> Int]
      BY <2>2 DEF Unset
    <2>4. a.data \in Seq(Int) /\ Len(a.data) = SizeofStat
      BY <1>1, <2>3, Function
    <2>5. Stub(c).width = SizeofInt /\ Stub(c).data = SizeofStat
      BY <1>6 DEF Stub, stat, fstat
    <2>. QED  BY <1>1, <1>6, <2>2, <2>4, <2>5
  <1>7. CASE c.fn \in {"WRITE", "LSEEK"}
    <2>1. e[3] \in Int
      BY <1>7, MeaningFields, CallTypes DEF e
    <2>2. Answers(e) = [value : {-1} \cup 0..e[3], data : {<<>>}]
      BY <1>2, <1>7 DEF Answers
    <2>3. a.value \in Int /\ a.data = <<>> /\ a = [value |-> a.value, data |-> a.data]
      BY <2>1, <2>2 DEF e
    <2>4. Stub(c).width \in {SizeofSize, SizeofOff} /\ Stub(c).data = 0
      BY <1>7 DEF Stub, write, lseek
    <2>. QED  BY <1>1, <1>3, <1>7, <2>3, <2>4
  <1>8. CASE c.fn \in {"CLOSE", "FSYNC", "TRUNCATE", "FTRUNCATE", "RENAME", "UNLINK"}
    <2>1. Answers(e) = [value : {-1, 0}, data : {<<>>}]
      BY <1>2, <1>8 DEF Answers
    <2>2. a.value \in Int /\ a.data = <<>> /\ a = [value |-> a.value, data |-> a.data]
      BY <2>1 DEF e
    <2>3. Stub(c).width = SizeofInt /\ Stub(c).data = 0
      BY <1>8 DEF Stub, close, fsync, truncate, ftruncate, rename, unlink
    <2>. QED  BY <1>1, <1>3, <1>8, <2>2, <2>3
  <1>. QED  BY <1>2, <1>4, <1>5, <1>6, <1>7, <1>8 DEF PathCalls, FdCalls

(* The stub finds the value and the data in the response.                  *)
LEMMA Answered ==
    ASSUME Handled, handle \in Int, NEW c \in Calls, Remote(c), NEW a \in Answers(Meaning(c))
    PROVE  LET r == Response(Meaning(c), Stub(c).width, a)
           IN /\ r \in Seq(Byte) /\ Len(r) = ResponseSize(c) /\ ResponseSize(c) \in Nat
              /\ Extract(c, r) = [value |-> Given(c, a), data |-> a.data]
  <1>. DEFINE w == Stub(c).width
              x == Encode(Given(c, a), w)
              y == Block(a.data)
              r == x \o y
  <1>1. /\ a.value \in Int /\ a.data \in Seq(Int) /\ Len(a.data) = Stub(c).data
        /\ Stub(c).data \in Nat /\ w \in Nat \ {0}
    BY AnswerTypes
  <1>2. Given(c, a) \in Int
    BY <1>1, WireAssumption DEF WireAssumption, Given, Renumber
  <1>3. Response(Meaning(c), w, a) = r
    BY MeaningFields DEF Response, Given
  <1>4. x \in Seq(Byte) /\ Len(x) = w
    BY <1>1, <1>2, Encoded
  <1>5. y \in Seq(Byte) /\ Len(y) = Stub(c).data
    BY <1>1, Blocks
  <1>. HIDE DEF x, y, w
  <1>6. r \in Seq(Byte) /\ Len(r) = w + Stub(c).data
    BY <1>4, <1>5, Joined
  <1>7. At(r, 0, x) /\ At(r, Len(x) + 0, y)
    BY <1>4, <1>5, Whole, Beside
  <1>. HIDE DEF r
  <1>8. Field(r, 0, w) = Given(c, a)
    BY <1>1, <1>2, <1>6, <1>7, FieldFound DEF x
  <1>9. Chars(Bytes(r, w, Stub(c).data)) = a.data
    <2>1. At(r, w, y) /\ w \in Nat
      BY <1>1, <1>4, <1>7
    <2>. QED  BY <1>1, <1>6, <2>1, DataFound DEF y
  <1>. QED  BY <1>1, <1>3, <1>6, <1>8, <1>9 DEF Extract, ResponseSize, w

-----------------------------------------------------------------------------
(* The invariant. *)

Linked == \/ fd = -1 /\ handle = -1
          \/ fd \in ServerFds /\ handle = Renumber(fd)

(***************************************************************************)
(* While a call is remote, the buffers hold what the stub laid out or the  *)
(* server answered, and the client's descriptor is the renumbered one of   *)
(* the server, but for an open() whose result is on its way.               *)
(***************************************************************************)
WireInv ==
    /\ pc \in {"idle", "local", "size", "payload", "execute", "reply", "returned"}
    /\ IF pc \in {"reply", "returned"} /\ call.fn = "OPEN" /\ handle = -1
       THEN fd = answer.value ELSE Linked
    /\ pc # "idle" => call \in Calls /\ (Remote(call) <=> pc # "local")
    /\ pc = "size" => stream = RequestBuf(call)
    /\ pc = "payload" => stream = Payload(call) /\ size = PayloadSize(call)
    /\ pc = "execute" => payload = Payload(call) /\ size = PayloadSize(call)
    /\ pc \in {"reply", "returned"} => executed = Meaning(call) /\ answer \in Answers(executed)
    /\ pc = "reply" => stream = Response(executed, Stub(call).width, answer)
    /\ pc = "returned" => result = [value |-> Given(call, answer), data |-> answer.data]

(* A descriptor of the server's is given out in the upper half.            *)
LEMMA Upper ==
    ASSUME NEW f \in ServerFds
    PROVE  /\ f \in Nat /\ Renumber(f) \in Int /\ Renumber(f) > IntMax \div 2 /\ Renumber(f) # -1
           /\ Renumber(Renumber(f)) = f
  <1>1. f \in 0..(IntMax \div 2) /\ IntMax \in Nat /\ IntMax % 2 = 1
    BY WireAssumption DEF WireAssumption
  <1>2. \A k \in Nat : k % 2 = 1 => k - (k \div 2) = k \div 2 + 1 /\ k \div 2 \in Nat
    OBVIOUS
  <1>. QED  BY <1>1, <1>2 DEF Renumber

LEMMA HandleInt ==
    ASSUME WireInv
    PROVE  /\ handle \in Int
           /\ handle = -1 \/ (fd \in ServerFds /\ handle = Renumber(fd))
  BY Upper DEF WireInv, Linked

LEMMA Initially ==
    Init => WireInv
  BY DEF Init, WireInv, Linked

(* recv() of all that was sent, when as much is asked for.                 *)
LEMMA ReceivedWhole ==
    ASSUME Handled, NEW b \in Seq(Byte), NEW rest \in Seq(Byte), stream = b \o rest,
           NEW k \in Arrivals(Len(b)), Recv(k)
    PROVE  k = Len(b) /\ stream' = rest /\ Filled(Len(b), k) = b
  <1>1. Len(b) \in Nat /\ Len(rest) \in Nat
    OBVIOUS
  <1>2. stream \in Seq(Byte) /\ Len(stream) = Len(b) + Len(rest)
    BY Joined
  <1>3. Most(Len(b)) = Len(b)
    BY <1>1, <1>2 DEF Most
  <1>4. k = Len(b)
    BY <1>3 DEF Arrivals, Handled
  <1>5. /\ \A i \in 1..Len(b) : stream[i] = b[i]
        /\ \A i \in 1..Len(rest) : stream[Len(b) + i] = rest[i]
    BY ConcatProperties
  <1>6. SubSeq(stream, 1, Len(b)) = b
    <2>1. 1 \in Int /\ Len(b) \in Int /\ \A i \in 1..Len(b) : stream[i] \in Byte
      BY <1>1, <1>5
    <2>2. /\ SubSeq(stream, 1, Len(b)) \in Seq(Byte)
          /\ Len(SubSeq(stream, 1, Len(b))) = IF 1 <= Len(b) THEN Len(b) - 1 + 1 ELSE 0
          /\ \A i \in 1..Len(b) - 1 + 1 : SubSeq(stream, 1, Len(b))[i] = stream[1 + i - 1]
      BY <2>1, SubSeqProperties
    <2>3. Len(SubSeq(stream, 1, Len(b))) = Len(b)
      BY <1>1, <2>2
    <2>4. \A i \in 1..Len(b) : SubSeq(stream, 1, Len(b))[i] = b[i]
      BY <1>1, <1>5, <2>2
    <2>. QED  BY <2>2, <2>3, <2>4, SeqEqual
  <1>7. SubSeq(stream, Len(b) + 1, Len(stream)) = rest
    <2>. DEFINE m == Len(b) + 1
                q == SubSeq(stream, m, Len(stream))
    <2>1. m \in Int /\ Len(stream) \in Int /\ \A i \in m..Len(stream) : stream[i] \in Byte
      BY <1>1, <1>2
    <2>2. /\ q \in Seq(Byte)
          /\ Len(q) = IF m <= Len(stream) THEN Len(stream) - m + 1 ELSE 0
          /\ \A i \in 1..Len(stream) - m + 1 : q[i] = stream[m + i - 1]
      BY <2>1, SubSeqProperties
    <2>. HIDE DEF q
    <2>3. Len(q) = Len(rest)
      BY <1>1, <1>2, <2>2
    <2>4. \A i \in 1..Len(rest) : q[i] = rest[i]
      BY <1>1, <1>2, <1>5, <2>2
    <2>. QED  BY <2>2, <2>3, <2>4, SeqEqual DEF q
  <1>8. [i \in 1..Len(b)-k |-> Uninit] = <<>>
    <2>1. [i \in 1..0 |-> Uninit] \in [1..0 -> Byte]
      OBVIOUS
    <2>2. [i \in 1..0 |-> Uninit] = <<>>
      BY <2>1, Empty
    <2>3. Len(b) - k = 0
      BY <1>1, <1>4
    <2>. QED  BY <2>2, <2>3
  <1>9. Filled(Len(b), k) = b \o <<>>
    BY <1>4, <1>6, <1>8 DEF Filled
  <1>10. b \o <<>> = b
    BY ConcatEmptySeq
  <1>. QED  BY <1>4, <1>7, <1>9, <1>10 DEF Recv

(* What does not depend on the server's descriptor keeps its meaning.      *)
LEMMA SameCalls ==
    ASSUME UNCHANGED handle
    PROVE  Calls' = Calls
  BY DEF Calls

LEMMA SameMeaning ==
    ASSUME NEW c \in Calls, c.fn = "OPEN" \/ UNCHANGED fd
    PROVE  Meaning(c)' = Meaning(c)
  <1>1. CASE c.fn = "OPEN"
    BY <1>1 DEF Meaning
  <1>2. CASE UNCHANGED fd
    BY <1>2 DEF Meaning
  <1>. QED  BY <1>1, <1>2

LEMMA Calling ==
    ASSUME WireInv, NEW c \in Calls, Marshal(c) \/ CallLocally(c)
    PROVE  WireInv'
  <1>1. Calls' = Calls
    BY SameCalls DEF Marshal, CallLocally
  <1>2. Linked /\ UNCHANGED <<fd, handle>> /\ call' = c
    BY DEF WireInv, Marshal, CallLocally
  <1>3. Linked'
    BY <1>2 DEF Linked
  <1>4. CASE Marshal(c)
    BY <1>1, <1>2, <1>3, <1>4 DEF Marshal, WireInv
  <1>5. CASE CallLocally(c)
    BY <1>1, <1>2, <1>3, <1>5 DEF CallLocally, WireInv
  <1>. QED  BY <1>4, <1>5

LEMMA ReceivingSize ==
    ASSUME Handled, WireInv, RecvSize
    PROVE  WireInv'
  <1>1. /\ call \in Calls /\ Remote(call) /\ handle \in Int /\ Linked
        /\ pc = "size" /\ stream = RequestBuf(call)
    BY HandleInt DEF WireInv, RecvSize
  <1>. DEFINE b == Encode(PayloadSize(call), SizeofSize)
  <1>2. /\ Payload(call) \in Seq(Byte) /\ PayloadSize(call) \in Nat \ {0}
        /\ stream = b \o Payload(call)
    BY <1>1, Request
  <1>3. SizeofSize \in Nat \ {0} /\ PayloadSize(call) \in Int
    BY <1>2, WireAssumption DEF WireAssumption
  <1>4. b \in Seq(Byte) /\ Len(b) = SizeofSize /\ Decode(b) = PayloadSize(call)
    BY <1>3, Encoded, Decoded
  <1>. HIDE DEF b
  <1>5. PICK k \in Arrivals(SizeofSize) :
          /\ Recv(k)
          /\ size' \in IF k = SizeofSize THEN {Decode(Filled(SizeofSize, k))}
                       ELSE 1..PayloadSize(call)
    BY DEF RecvSize
  <1>6. k = SizeofSize /\ stream' = Payload(call) /\ Filled(SizeofSize, k) = b
    BY <1>2, <1>4, <1>5, ReceivedWhole
  <1>7. size' = PayloadSize(call)
    BY <1>4, <1>5, <1>6
  <1>8. pc' = "payload" /\ UNCHANGED <<call, fd, handle>> /\ Calls' = Calls
    BY SameCalls DEF RecvSize
  <1>9. /\ Linked' /\ Payload(call)' = Payload(call)
        /\ PayloadSize(call)' = PayloadSize(call) /\ (Remote(call)' <=> Remote(call))
    BY <1>1, <1>8 DEF Linked, Payload, PayloadSize, Remote
  <1>. QED  BY <1>1, <1>6, <1>7, <1>8, <1>9 DEF WireInv

LEMMA ReceivingPayload ==
    ASSUME Handled, WireInv, RecvPayload
    PROVE  WireInv'
  <1>1. /\ call \in Calls /\ Remote(call) /\ handle \in Int /\ Linked /\ pc = "payload"
        /\ stream = Payload(call) /\ size = PayloadSize(call)
    BY HandleInt DEF WireInv, RecvPayload
  <1>. DEFINE b == Payload(call)
  <1>2. b \in Seq(Byte) /\ Len(b) = size
    BY <1>1, Request
  <1>3. stream = b \o <<>> /\ <<>> \in Seq(Byte)
    BY <1>1, <1>2, ConcatEmptySeq
  <1>. HIDE DEF b
  <1>4. PICK k \in Arrivals(size) : Recv(k) /\ payload' = Filled(size, k)
    BY DEF RecvPayload
  <1>5. payload' = b
    BY <1>2, <1>3, <1>4, ReceivedWhole
  <1>6. pc' = "execute" /\ UNCHANGED <<call, size, fd, handle>> /\ Calls' = Calls
    BY SameCalls DEF RecvPayload
  <1>7. /\ Linked' /\ Payload(call)' = Payload(call)
        /\ PayloadSize(call)' = PayloadSize(call) /\ (Remote(call)' <=> Remote(call))
    BY <1>1, <1>6 DEF Linked, Payload, PayloadSize, Remote
  <1>. QED  BY <1>1, <1>5, <1>6, <1>7 DEF WireInv, b

LEMMA Executing ==
    ASSUME Handled, WireInv, Execute
    PROVE  WireInv'
  <1>1. /\ call \in Calls /\ Remote(call) /\ handle \in Int /\ Linked /\ pc = "execute"
        /\ payload = Payload(call) /\ size = PayloadSize(call)
    BY HandleInt DEF WireInv, Execute
  <1>2. call.fn \in FdCalls => Renumber(call.fildes) = fd
    <2>. SUFFICES ASSUME call.fn \in FdCalls PROVE Renumber(call.fildes) = fd
      OBVIOUS
    <2>1. call.fildes = handle
      BY <1>1, CallTypes
    <2>2. handle # -1
      BY <1>1, <2>1, WireAssumption DEF WireAssumption, Remote, FdCalls, PathCalls
    <2>. QED  BY <1>1, <2>1, <2>2, Upper DEF Linked
  <1>3. Switch(payload, size) = [call |-> Meaning(call), width |-> Stub(call).width]
    BY <1>1, <1>2, Served
  <1>4. Switch(payload, size).call = Meaning(call) /\ Switch(payload, size).width = Stub(call).width
    BY <1>3
  <1>5. PICK a \in Answers(Meaning(call)) :
          /\ executed' = Meaning(call) /\ answer' = a
          /\ stream' = Response(Meaning(call), Stub(call).width, a)
          /\ fd' = IF Meaning(call)[1] = "OPEN" /\ fd = -1 THEN a.value ELSE fd
    BY <1>4 DEF Execute
  <1>6. Meaning(call)[1] = call.fn
    BY <1>1, MeaningFields
  <1>7. pc' = "reply" /\ UNCHANGED <<call, handle>> /\ Calls' = Calls
    BY SameCalls DEF Execute
  <1>8. IF call.fn = "OPEN" /\ handle = -1 THEN fd' = a.value ELSE Linked'
    <2>1. handle = -1 <=> fd = -1
      BY <1>1, Upper DEF Linked
    <2>. QED  BY <1>1, <1>5, <1>6, <1>7, <2>1 DEF Linked
  <1>9. Meaning(call)' = Meaning(call)
    <2>1. PICK c \in Calls : c = call
      BY <1>1
    <2>2. Meaning(c)' = Meaning(c)
      BY <1>5, <1>6, <2>1, SameMeaning
    <2>. QED  BY <1>7, <2>1, <2>2
  <1>. QED  BY <1>1, <1>5, <1>7, <1>8, <1>9 DEF WireInv

LEMMA ReceivingReply ==
    ASSUME Handled, WireInv, RecvReply
    PROVE  WireInv'
  <1>1. /\ call \in Calls /\ Remote(call) /\ handle \in Int /\ pc = "reply"
        /\ executed = Meaning(call) /\ answer \in Answers(Meaning(call))
        /\ stream = Response(Meaning(call), Stub(call).width, answer)
        /\ IF call.fn = "OPEN" /\ handle = -1 THEN fd = answer.value ELSE Linked
    BY HandleInt DEF WireInv, RecvReply
  <1>2. /\ stream \in Seq(Byte) /\ Len(stream) = ResponseSize(call)
        /\ Extract(call, stream) = [value |-> Given(call, answer), data |-> answer.data]
    BY <1>1, Answered
  <1>3. PICK k \in Arrivals(ResponseSize(call)) :
          Recv(k) /\ result' = Extract(call, Filled(ResponseSize(call), k))
    BY DEF RecvReply
  <1>4. stream = stream \o <<>> /\ <<>> \in Seq(Byte)
    BY <1>2, ConcatEmptySeq
  <1>5. Filled(ResponseSize(call), k) = stream
    BY <1>2, <1>3, <1>4, ReceivedWhole
  <1>6. result' = [value |-> Given(call, answer), data |-> answer.data]
    BY <1>2, <1>3, <1>5
  <1>7. pc' = "returned" /\ UNCHANGED <<call, executed, answer, fd, handle>> /\ Calls' = Calls
    BY SameCalls DEF RecvReply
  <1>8. Meaning(call)' = Meaning(call) /\ (Linked' <=> Linked)
    BY <1>7 DEF Meaning, Linked
  <1>. QED  BY <1>1, <1>6, <1>7, <1>8 DEF WireInv

LEMMA Returning ==
    ASSUME Handled, WireInv, Return
    PROVE  WireInv'
  <1>1. Linked'
    <2>1. CASE pc = "returned" /\ call.fn = "OPEN" /\ handle = -1
      <3>1. /\ fd = answer.value /\ result.value = Given(call, answer)
            /\ call \in Calls /\ Remote(call) /\ handle \in Int /\ answer \in Answers(Meaning(call))
        BY <2>1, HandleInt DEF WireInv
      <3>2. fd \in ServerFds \cup {-1}
        BY <2>1, <3>1, AnswerTypes
      <3>3. handle' = result.value /\ fd' = fd
        BY <2>1 DEF Return
      <3>4. fd \in ServerFds => result.value = Renumber(fd)
        BY <2>1, <3>1, Upper DEF Given
      <3>5. fd = -1 => result.value = -1
        BY <2>1, <3>1 DEF Given
      <3>. QED  BY <3>2, <3>3, <3>4, <3>5 DEF Linked
    <2>2. CASE pc = "returned" /\ call.fn = "CLOSE"
      BY <2>2 DEF Return, Linked
    <2>3. CASE ~(pc = "returned" /\ (call.fn = "CLOSE" \/ (call.fn = "OPEN" /\ handle = -1)))
      <3>1. Linked
        BY <2>3 DEF WireInv, Return
      <3>2. handle' = handle /\ fd' = fd
        BY <2>3 DEF Return
      <3>. QED  BY <3>1, <3>2 DEF Linked
    <2>. QED  BY <2>1, <2>2, <2>3
  <1>2. pc' = "idle"
    BY DEF Return
  <1>. QED  BY <1>1, <1>2 DEF WireInv

-----------------------------------------------------------------------------
(***************************************************************************)
(* The invariant holds in every reachable state, whatever the paths,       *)
(* lengths, descriptors and sizes of types, as long as the code handles    *)
(* the call.                                                               *)
(***************************************************************************)
THEOREM Wire ==
    ASSUME Handled
    PROVE  Spec => []WireInv
  <1>1. ASSUME WireInv, [Next]_vars PROVE WireInv'
    <2>1. CASE UNCHANGED vars
      <3>1. Calls' = Calls /\ (Linked' <=> Linked) /\ Meaning(call)' = Meaning(call)
        BY <2>1 DEF vars, Calls, Linked, Meaning
      <3>. QED  BY <1>1, <2>1, <3>1 DEF WireInv, vars
    <2>. QED  BY <1>1, <2>1, Calling, ReceivingSize, ReceivingPayload, Executing, ReceivingReply,
                 Returning DEF Next
  <1>. QED  BY Initially, <1>1, PTL DEF Spec

(***************************************************************************)
(* For each of the twelve functions, the call client_handler() makes is    *)
(* the one the program meant, with all its arguments.                      *)
(***************************************************************************)
THEOREM Arguing ==
    ASSUME Handled
    PROVE  Spec => []ArgumentsIntact
  <1>1. WireInv => ArgumentsIntact
    BY DEF WireInv, ArgumentsIntact
  <1>. QED  BY <1>1, Wire, PTL

(***************************************************************************)
(* The stub returns what the server's call returned, with its data; the    *)
(* renumbering of descriptors keeps an error an error.                     *)
(***************************************************************************)
THEOREM Resulting ==
    ASSUME Handled
    PROVE  Spec => []ResultsIntact
  <1>1. ASSUME WireInv PROVE ResultsIntact
    <2>. SUFFICES ASSUME pc = "returned"
                  PROVE  IF call.fn = "OPEN" THEN result.value = -1 <=> answer.value = -1
                         ELSE result = answer
      BY DEF ResultsIntact
    <2>1. /\ call \in Calls /\ Remote(call) /\ handle \in Int /\ answer \in Answers(Meaning(call))
          /\ result = [value |-> Given(call, answer), data |-> answer.data]
      BY <1>1, HandleInt DEF WireInv
    <2>2. /\ answer = [value |-> answer.value, data |-> answer.data]
          /\ call.fn = "OPEN" => answer.value \in ServerFds \cup {-1}
      BY <2>1, AnswerTypes
    <2>3. CASE call.fn = "OPEN"
      <3>1. result.value = Given(call, answer)
        BY <2>1
      <3>. QED  BY <2>2, <2>3, <3>1, Upper DEF Given
    <2>4. CASE call.fn # "OPEN"
      BY <2>1, <2>2, <2>4 DEF Given
    <2>. QED  BY <2>3, <2>4
  <1>. QED  BY <1>1, Wire, PTL

(***************************************************************************)
(* The stubs' tests: a descriptor is sent to the server exactly if open()  *)
(* got it from there, a path exactly if it has the prefix.                 *)
(***************************************************************************)
THEOREM Dispatching ==
    ASSUME Handled
    PROVE  Spec => []DispatchIsRight
  <1>1. ASSUME WireInv PROVE DispatchIsRight
    <2>. SUFFICES ASSUME pc # "idle"
                  PROVE  ~Remote(call) <=> \/ call.fn \in FdCalls /\ call.fildes # handle
                                           \/ call.fn \in PathCalls /\ Strip(call.path) = call.path
      BY <1>1 DEF WireInv, DispatchIsRight
    <2>1. call \in Calls /\ call.fn \in PathCalls \cup FdCalls
      BY <1>1, CallFields DEF WireInv
    <2>2. CASE call.fn \in FdCalls
      <3>1. call.fn \notin PathCalls /\ (Remote(call) <=> call.fildes > IntMax \div 2)
        BY <2>2 DEF FdCalls, PathCalls, Remote
      <3>2. handle = -1 \/ (handle \in Int /\ handle > IntMax \div 2)
        BY <1>1, HandleInt, Upper
      <3>3. \/ call.fildes \in 0..(IntMax \div 2)
            \/ call.fildes = handle /\ handle # -1
        BY <2>1, <2>2, CallFields, WireAssumption DEF WireAssumption
      <3>4. IntMax \div 2 \in Int
        BY WireAssumption DEF WireAssumption
      <3>. QED  BY <2>2, <3>1, <3>2, <3>3, <3>4
    <2>3. CASE call.fn \in PathCalls
      <3>1. call.fn \notin FdCalls /\ (Remote(call) <=> HasPrefix(call.path))
        BY <2>3 DEF FdCalls, PathCalls, Remote
      <3>2. call.path \in Seq(Nat \ {0})
        BY <2>1, <2>3, CallFields, WireAssumption DEF WireAssumption
      <3>3. HasPrefix(call.path) => Strip(call.path) # call.path
        <4>1. HasPrefix(call.path) => Len(Strip(call.path)) + 1 = Len(call.path) - 1
          BY <3>2, PathSent DEF PathSize
        <4>2. HasPrefix(call.path) => Strip(call.path) \in Seq(Nat \ {0})
          BY <3>2, PathSent
        <4>. QED  BY <3>2, <4>1, <4>2
      <3>4. ~HasPrefix(call.path) => Strip(call.path) = call.path
        BY DEF Strip
      <3>. QED  BY <2>3, <3>1, <3>3, <3>4
    <2>. QED  BY <2>1, <2>2, <2>3
  <1>. QED  BY <1>1, Wire, PTL
=============================================================================
