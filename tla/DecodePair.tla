----------------------------- MODULE DecodePair -----------------------------
(***************************************************************************)
(* Two decodes of the same bytes into the same type, one after the other:  *)
(* the first in safe mode on the whole buffer, the second, in the mode     *)
(* Init picks, on a prefix of it.  What the first makes of the buffer says *)
(* what the second may make of the prefix.                                 *)
(***************************************************************************)
EXTENDS Integers, Sequences

CONSTANTS Type, Schema, Roots, Input, MaxInt, ReadUvarint(_)

VARIABLES
  root, in, base, off, todo, callers, phase, err, made, raised,
  fast,  \* the second decode is in fast mode
  cut, base2, off2, todo2, callers2, phase2, err2, made2, raised2

first  == <<root, in, base, off, todo, callers, phase, err, made, raised>>
second == <<fast, cut, base2, off2, todo2, callers2, phase2, err2, made2, raised2>>
vars   == <<first, second>>

First == INSTANCE Decoder WITH Safe <- TRUE

\* As in Decoder.
ASSUME DecoderAssumption ==
  /\ First!MaxIntAssumption
  /\ First!SchemaAssumption
  /\ First!RootsAssumption
  /\ First!InputAssumption
  /\ First!UvarintAssumption

\* A prefix of a buffer is a buffer.
ASSUME PrefixAssumption ==
  \A x \in Input : \A n \in 0 .. x.len : [x EXCEPT !.len = n] \in Input

\* A varint reads the same from every slice that has all of its bytes, and not
\* at all from a shorter one.
ASSUME VarintAssumption ==
  \A x \in Input : \A o \in 0 .. x.len : \A n \in o .. x.len :
    LET whole == ReadUvarint(SubSeq(x.data, o + 1, x.len))
        part == ReadUvarint(SubSeq(x.data, o + 1, n))
    IN  whole.c > 0 => IF whole.c <= n - o THEN part = whole ELSE part.c <= 0

SecondSafe == INSTANCE Decoder WITH
  Safe <- TRUE, in <- cut, base <- base2, off <- off2, todo <- todo2,
  callers <- callers2, phase <- phase2, err <- err2, made <- made2,
  raised <- raised2

SecondFast == INSTANCE Decoder WITH
  Safe <- FALSE, in <- cut, base <- base2, off <- off2, todo <- todo2,
  callers <- callers2, phase <- phase2, err <- err2, made <- made2,
  raised <- raised2

Over(p) == p \in { "done", "panic" }

Init ==
  /\ First!Init
  /\ fast \in BOOLEAN
  /\ cut \in { [in EXCEPT !.len = n] : n \in 0 .. in.len }
  /\ base2 = 0 /\ off2 = 0
  /\ todo2 = <<root>>
  /\ callers2 = <<>>
  /\ phase2 = "run"
  /\ err2 = First!NoErr
  /\ made2 = 0
  /\ raised2 = First!NoErr

Next ==
  \/ First!Next /\ UNCHANGED second
  \/ Over(phase) /\ ~fast /\ SecondSafe!Next /\ UNCHANGED <<first, fast>>
  \/ Over(phase) /\ fast /\ SecondFast!Next /\ UNCHANGED <<first, fast>>

Spec == Init /\ [][Next]_vars

-----------------------------------------------------------------------------
\* The values decoded are of types in R, with generated codecs.
Generated(R) ==
  /\ Roots \subseteq R
  /\ \A t \in R :
       /\ Schema[t].kind # "owned"
       /\ \A k \in DOMAIN Schema[t].elems : Schema[t].elems[k] \in R

\* A value of a type in W takes a byte at least.
TakesByte(W) ==
  \A t \in W :
    /\ Schema[t].kind = "block" => Schema[t].size > 0
    /\ Schema[t].kind = "array" => Schema[t].size > 0 /\ Schema[t].elems[1] \in W
    /\ Schema[t].kind = "struct" =>
         \E k \in DOMAIN Schema[t].elems : Schema[t].elems[k] \in W

\* And so does an element of a slice, and a key of a map.
ElementsTakeBytes(R, W) ==
  /\ TakesByte(W)
  /\ \A t \in R : Schema[t].kind \in { "slice", "map" } => Schema[t].elems[1] \in W

-----------------------------------------------------------------------------
Accepted == phase = "done" /\ err = First!NoErr

\* The bytes behind an encoded value do not matter: a buffer that holds all
\* the bytes the first decode consumed decodes to the same count, and is never
\* taken for a truncated one.
PrefixStable ==
  Accepted /\ ~fast /\ cut.len >= off =>
    /\ phase2 # "panic"
    /\ phase2 = "done" => err2 = First!NoErr /\ off2 = off

\* An encoding cut anywhere is answered with ErrShortBuffer: it is neither
\* accepted as a shorter value nor taken for an unknown union tag, and it does
\* not panic.
TruncatedIsShort ==
  Accepted /\ ~fast /\ cut.len < off =>
    /\ phase2 # "panic"
    /\ phase2 = "done" => err2 = First!ErrShortBuffer

\* On bytes that safe mode accepts, the unchecked fast-mode codec neither
\* panics nor reads past the value, and it consumes as many bytes, provided
\* that the structs it copies have no padding.
FastAgrees ==
  Accepted /\ fast /\ cut.len >= off =>
    /\ phase2 # "panic"
    /\ phase2 = "done" => err2 = First!NoErr /\ off2 = off
=============================================================================
