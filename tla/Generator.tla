------------------------------ MODULE Generator ------------------------------
(***************************************************************************)
(* goserdegen as a step in the life of a package: the user marks structs,  *)
(* writes codec methods by hand or moves them out of a generated file, and *)
(* calls codecs from other code, and runs the generator under one output   *)
(* name or another.  A run reads every file but its own output,            *)
(* type-checks them, decides which codecs are user-owned and writes the    *)
(* rest.                                                                   *)
(*                                                                         *)
(* Of a file only the codecs it declares are kept, of a codec the methods  *)
(* it has and the codecs it calls.                                         *)
(***************************************************************************)
CONSTANTS
  Type,      \* the structs of the package
  Fields,    \* for each struct the structs its fields hold, however wrapped
  HasUnion,  \* the structs with a field of the package's tagged union
  Members,   \* the members of that union
  Method,    \* codecMethodNames
  Out,       \* names -out may take
  BadOut     \* those validateOut rejects

ASSUME GeneratorAssumption ==
  /\ Fields \in [Type -> SUBSET Type]
  /\ HasUnion \subseteq Type /\ Members \subseteq Type
  /\ BadOut \subseteq Out
  /\ Method # {}

VARIABLES
  marked,  \* structs with the goserde:generate directive
  hand,    \* for each struct the codec methods the user's files declare
  pasted,  \* those of them that are moved generated code
  used,    \* structs whose codec other code of the user calls
  file,    \* the generated files
  result,  \* of the last run, "none" after an edit
  ran,     \* history: the output name of the last run that succeeded
  since    \* history: what happened after it

vars == <<marked, hand, pasted, used, file, result, ran, since>>

NoFile == [state |-> "absent", codecs |-> {}]
Broken == [state |-> "broken", codecs |-> {}]
Code(ts) == [state |-> "code", codecs |-> ts]

-----------------------------------------------------------------------------
(***************************************************************************)
(* What type-checking the user's files with the generated files os finds.  *)
(***************************************************************************)
Present == { o \in Out : file[o].state # "absent" }

\* Mutant: the output of the last run is read like any other file.
OthersAll(out) == Present

Others(out) == Present \ { out }

GeneratedMethods(os, t) == IF \E o \in os : t \in file[o].codecs THEN Method ELSE {}

Methods(os, t) == hand[t] \cup GeneratedMethods(os, t)

Unparsable(os) == \E o \in os : file[o].state = "broken"

Redeclared(os) ==
  \E t \in Type :
    \/ hand[t] # {} /\ GeneratedMethods(os, t) # {}
    \/ \E o, p \in os : o # p /\ t \in file[o].codecs \cap file[p].codecs

\* A generated method calls the method of the same name of each nested struct
\* and union member.
Calls(t) == Fields[t] \cup (IF t \in HasUnion THEN Members ELSE {})

Unresolved(os) ==
  \/ \E t \in used : Methods(os, t) # Method
  \/ \E t \in Type : \E d \in Calls(t) :
       ~(pasted[t] \cup GeneratedMethods(os, t) \subseteq Methods(os, d))

-----------------------------------------------------------------------------
(***************************************************************************)
(* A run.                                                                  *)
(***************************************************************************)
\* Mutant: the methods a target declares are not looked at.
OwnedNever(os) == {}

Owned(os) == { t \in marked : Methods(os, t) = Method }

Partial(os) == \E t \in marked : Methods(os, t) \notin { {}, Method }

Loads(os) ==
  /\ ~Unparsable(os) /\ ~Redeclared(os) /\ ~Unresolved(os)
  /\ marked # {}
  /\ Members \subseteq marked
  /\ ~Partial(os)

\* fieldsOf, which does not inspect the fields of a user-owned struct
FieldsSupported(os) == \A t \in marked \ Owned(os) : Fields[t] \subseteq marked

Succeeds(out) ==
  /\ out \notin BadOut
  /\ Loads(Others(out))
  /\ FieldsSupported(Others(out))

Run(out) ==
  /\ Succeeds(out)
  /\ file' = [file EXCEPT ![out] = Code(marked \ Owned(Others(out)))]
  /\ result' = "ok"
  /\ ran' = out
  /\ since' = "nothing"
  /\ UNCHANGED <<marked, hand, pasted, used>>

RunFails(out) ==
  /\ ~Succeeds(out)
  /\ result' = "error"
  /\ UNCHANGED <<marked, hand, pasted, used, file, ran, since>>

\* What an event that harms only the output ran makes of since.
Harms(out) ==
  IF out = ran /\ since \in { "nothing", "output" } THEN "output" ELSE "edited"

\* os.WriteFile truncates and then writes; it may be cut short.
RunCutShort(out) ==
  /\ Succeeds(out)
  /\ file' = [file EXCEPT ![out] = Broken]
  /\ result' = "error"
  /\ since' = Harms(out)
  /\ UNCHANGED <<marked, hand, pasted, used, ran>>

-----------------------------------------------------------------------------
(***************************************************************************)
(* The user.                                                               *)
(***************************************************************************)
Edited == result' = "none" /\ since' = "edited" /\ UNCHANGED ran

Mark(t) ==
  /\ marked' \in { marked \cup { t }, marked \ { t } }
  /\ Edited
  /\ UNCHANGED <<hand, pasted, used, file>>

Use(t) ==
  /\ used' \in { used \cup { t }, used \ { t } }
  /\ Edited
  /\ UNCHANGED <<marked, hand, pasted, file>>

WriteMethod(t, m) ==
  /\ m \notin hand[t]
  /\ hand' = [hand EXCEPT ![t] = @ \cup { m }]
  /\ Edited
  /\ UNCHANGED <<marked, pasted, used, file>>

RemoveMethods(t) ==
  /\ hand[t] # {}
  /\ hand' = [hand EXCEPT ![t] = {}]
  /\ pasted' = [pasted EXCEPT ![t] = {}]
  /\ Edited
  /\ UNCHANGED <<marked, used, file>>

\* Cut the methods of t out of a generated file, paste them into one's own.
Adopt(t, out) ==
  /\ t \in file[out].codecs /\ hand[t] = {}
  /\ hand' = [hand EXCEPT ![t] = Method]
  /\ pasted' = [pasted EXCEPT ![t] = Method]
  /\ file' = [file EXCEPT ![out].codecs = @ \ { t }]
  /\ result' = "none"
  /\ since' = IF out = ran /\ since \in { "nothing", "adopted" } THEN "adopted" ELSE "edited"
  /\ UNCHANGED <<marked, used, ran>>

\* A generated file is removed, or a merge leaves it unparsable.
Spoil(out) ==
  /\ file[out].state = "code"
  /\ file' \in { [file EXCEPT ![out] = f] : f \in { NoFile, Broken } }
  /\ result' = "none"
  /\ since' = Harms(out)
  /\ UNCHANGED <<marked, hand, pasted, used, ran>>

-----------------------------------------------------------------------------
Init ==
  /\ marked = {}
  /\ hand = [t \in Type |-> {}]
  /\ pasted = [t \in Type |-> {}]
  /\ used = {}
  /\ file = [o \in Out |-> NoFile]
  /\ result = "none"
  /\ ran \in Out \ BadOut
  /\ since = "edited"

Next ==
  \/ \E out \in Out : Run(out)
  \/ \E out \in Out : RunFails(out)
  \/ \E out \in Out : RunCutShort(out)
  \/ \E t \in Type : Mark(t)
  \/ \E t \in Type : Use(t)
  \/ \E t \in Type, m \in Method : WriteMethod(t, m)
  \/ \E t \in Type : RemoveMethods(t)
  \/ \E t \in Type, out \in Out : Adopt(t, out)
  \/ \E out \in Out : Spoil(out)

Spec == Init /\ [][Next]_vars

-----------------------------------------------------------------------------
(***************************************************************************)
(* Properties.                                                             *)
(***************************************************************************)
\* After a successful run the package compiles, and every marked struct has
\* its whole codec exactly once, whoever owns it and under whatever names the
\* generator has run before.
OneCodecEach ==
  result = "ok" =>
    /\ ~Unparsable(Present) /\ ~Redeclared(Present) /\ ~Unresolved(Present)
    /\ \A t \in marked : Methods(Present, t) = Method

\* A stale, broken or missing output cannot break regeneration: after a run
\* that succeeded the same command succeeds again, whatever became of the file
\* it wrote.
Regenerates == since \in { "nothing", "output" } => Succeeds(ran)

\* A codec may be moved out of the generated file into the user's own, and the
\* next run goes on without it.
AdoptionRegenerates == since = "adopted" => Succeeds(ran)
=============================================================================
