----------------------------- MODULE MCPackage -----------------------------
(***************************************************************************)
(* A small package for the models of the codec: one struct for each branch *)
(* of the emitters, after the types of test/data/safeshapes, classified by *)
(* TypeClass; and every buffer of DataLen bytes over Bytes with every      *)
(* length up to it.  Varints are Varint's with 2 payload bits per byte and *)
(* a word of 0 .. 31.                                                      *)
(***************************************************************************)
EXTENDS Integers, Sequences

CONSTANTS
  DataLen,  \* bytes of the backing array
  Bytes     \* the values they take

V == INSTANCE Varint WITH Cont <- 4, LastIdx <- 2, LastMax <- 1

MCUvarint(s) == V!Uvarint(s)

MCMaxInt == 15

MCInput == [data : [1 .. DataLen -> Bytes], len : 0 .. DataLen]

-----------------------------------------------------------------------------
(***************************************************************************)
(* Declarations.                                                           *)
(***************************************************************************)
Decl(k, n, es) ==
  [of |-> k, width |-> n, memory |-> n, word |-> FALSE, byte |-> FALSE,
   len |-> n, elems |-> es, skip |-> {}]

BasicOf(n) == Decl("basic", n, << >>)
WordOf(n) == [BasicOf(n) EXCEPT !.memory = 1, !.word = TRUE]
SliceOf(t) == Decl("slice", 0, <<t>>)
ArrayOf(n, t) == Decl("array", n, <<t>>)
PointerTo(t) == Decl("pointer", 0, <<t>>)
MapOf(k, v) == Decl("map", 0, <<k, v>>)
UnionOf(ts) == Decl("interface", 0, ts)
StructOf(fs) == Decl("struct", 0, fs)

\* The last field is unexported or tagged goserde:"-".
StructSkipping(fs) == [StructOf(fs) EXCEPT !.skip = { Len(fs) }]

\* A wire width of 2 stands for 2 and for 4 bytes, 3 for 8 bytes.
Decls ==
  [ u8      |-> BasicOf(1),
    u16     |-> BasicOf(2),
    u64     |-> BasicOf(3),
    int     |-> WordOf(2),
    byte    |-> [BasicOf(1) EXCEPT !.byte = TRUE],
    time    |-> Decl("time", 3, << >>),
    hash    |-> ArrayOf(2, "byte"),
    str     |-> Decl("string", 0, << >>),
    blob    |-> SliceOf("byte"),
    strs    |-> SliceOf("str"),
    nums    |-> SliceOf("u16"),
    ints    |-> SliceOf("int"),
    pings   |-> SliceOf("Ping"),
    quad    |-> ArrayOf(2, "u8"),
    grid    |-> ArrayOf(2, "quad"),
    pair    |-> ArrayOf(2, "str"),
    none    |-> ArrayOf(0, "str"),
    scores  |-> MapOf("str", "u8"),
    pu8     |-> PointerTo("u8"),
    pInner  |-> PointerTo("Inner"),
    pNode   |-> PointerTo("Node"),
    signal  |-> UnionOf(<<"Ping", "Pong">>),
    wide    |-> UnionOf(<<"Ping", "Pong", "Inner", "Empty">>),
    wides   |-> SliceOf("Wide"),
    ping2   |-> ArrayOf(2, "Ping"),
    empties |-> SliceOf("Empty"),
    items   |-> SliceOf("Item"),
    shelf   |-> MapOf("str", "blob"),
    index   |-> MapOf("str", "strs"),
    blobs   |-> SliceOf("blob"),
    pus     |-> ArrayOf(2, "pu8"),
    cells   |-> SliceOf("Cell"),
    pixels  |-> SliceOf("Pixel"),
    grids   |-> SliceOf("grid"),
    owned   |-> StructOf(<<"u8">>),
    Inner   |-> StructOf(<<"u8", "str">>),
    Ping    |-> StructOf(<<"u8">>),
    Pong    |-> StructOf(<<"str">>),
    Empty   |-> StructOf(<< >>),
    Fixed   |-> StructSkipping(<<"hash", "u16", "u8">>),
    Text    |-> StructSkipping(<<"blob", "str", "Inner", "str">>),
    Lists   |-> StructOf(<<"strs", "nums">>),
    Counts  |-> StructOf(<<"ints", "time">>),
    Blits   |-> StructOf(<<"pings", "quad">>),
    Arrays  |-> StructOf(<<"pair", "none", "u8">>),
    Grids   |-> StructOf(<<"grid", "str">>),
    Scores  |-> StructOf(<<"scores">>),
    Ptrs    |-> StructOf(<<"pu8", "pInner">>),
    Frame   |-> StructOf(<<"u8", "signal">>),
    Holder  |-> StructOf(<<"Frame", "u8">>),
    Node    |-> StructOf(<<"pNode", "u8">>),
    Wide    |-> StructOf(<<"u8", "wide">>),
    Structs |-> StructOf(<<"wides", "ping2">>),
    Bare    |-> StructOf(<<"Empty", "u8", "empties">>),
    Mixed   |-> StructOf(<<"Ping", "owned", "str">>),
    Item    |-> StructSkipping(<<"pu8", "str", "u8">>),
    Cart    |-> StructOf(<<"items", "blob">>),
    Cell    |-> StructSkipping(<<"u8", "u8">>),
    Cells   |-> StructOf(<<"cells">>),
    Shelf   |-> StructOf(<<"shelf">>),
    Index   |-> StructOf(<<"index">>),
    Pages   |-> StructOf(<<"blobs", "str">>),
    Pixel   |-> StructOf(<<"quad", "u8">>),
    Plot    |-> StructOf(<<"pixels", "grids", "Pixel">>),
    Handles |-> StructOf(<<"pus">>),
    Record  |-> StructOf(<<"u64", "u64", "u8", "str", "nums", "blob">>) ]

MCType == DOMAIN Decls

Structs == { t \in MCType : Decls[t].of = "struct" }

Class == INSTANCE TypeClass WITH Go <- Decls, Marked <- Structs, UserOwned <- { "owned" }

Shapes == [t \in MCType |-> Class!ShapeOf(t)]

\* The structs with a field that is not serialized.
MCExcluded == { t \in Structs : Decls[t].skip # {} }
=============================================================================
