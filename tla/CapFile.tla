------------------------------- MODULE CapFile -------------------------------
(***************************************************************************)
(* cap::parse: a CAP file is a ZIP.  Its directory is walked for the       *)
(* components of the load file, which is their concatenation in the order  *)
(* of GPCS C.2 whatever the ZIP's own; three of them are read for what     *)
(* they tell of the package.                                               *)
(***************************************************************************)
EXTENDS Naturals, Sequences, FiniteSets, SequencesExt

CONSTANTS
  Zips,           \* the files a caller may hand in
  Window,         \* INFLATE_WINDOW
  MaxCapImports,  \* MAX_CAP_IMPORTS
  MaxCapApplets   \* MAX_CAP_APPLETS

COMPONENT_NAMES ==
  <<"Header", "Directory", "Import", "Applet", "Class", "Method", "StaticField",
    "Export", "ConstantPool", "RefLocation", "Descriptor">>
IDX_HEADER == 1
IDX_IMPORT == 3
IDX_APPLET == 4

(***************************************************************************)
(* A component as the ZIP's directory declares it, and as it is: `declared'*)
(* is the uncompressed size it announces, `own' the bytes it really has    *)
(* and, of those, `sound' can be inflated; a stored component can be read  *)
(* on into whatever follows it, up to `left' bytes.                        *)
(***************************************************************************)
Component == [method : {"stored", "deflate", "other"},
              declared : Nat, own : Nat, sound : Nat, left : Nat]

(***************************************************************************)
(* An entry of the directory: its path, whether its own record and the     *)
(* local header it points to can be read, and what it is of.  `legible' is *)
(* whether the fields of a metadata component are what they should be, and *)
(* `aids' how many AIDs it lists.                                          *)
(***************************************************************************)
Entry == [path : Seq(STRING), cdh : BOOLEAN, lfh : BOOLEAN, file : Component,
          legible : BOOLEAN, aids : Nat]
Archive == [eocd : BOOLEAN, entries : Seq(Entry)]

ASSUME ZipsAssumption == Zips \subseteq Archive
ASSUME CapLimitsAssumption ==
  Window \in Nat \ {0} /\ MaxCapImports \in Nat /\ MaxCapApplets \in Nat

\* By its last name, whatever directory it is in; 0 if it is no component.
Index == [name \in Range(COMPONENT_NAMES) |->
            CHOOSE r \in DOMAIN COMPONENT_NAMES : COMPONENT_NAMES[r] = name]
component_index(path) == IF Last(path) \in DOMAIN Index THEN Index[Last(path)] ELSE 0

Named(zip, r) == {k \in DOMAIN zip.entries : component_index(zip.entries[k].path) = r}

\* An entry of the same name later in the directory is passed over.
FirstNamed(zip, r) == Min(Named(zip, r))

\* A component and the entry it was found at.
Location == [entry : Nat, method : {"stored", "deflate", "other"},
             declared : Nat, own : Nat, sound : Nat, left : Nat]
CompLoc(zip, k) ==
  LET file == zip.entries[k].file
  IN [entry |-> k, method |-> file.method, declared |-> file.declared, own |-> file.own,
      sound |-> file.sound, left |-> file.left]

\* What the walk finds, in the order of the load file: up to rank r, and all of it.
WalkUpTo(zip) ==
  LET found[r \in 0 .. Len(COMPONENT_NAMES)] ==
        IF r = 0 THEN <<>>
        ELSE IF Named(zip, r) = {} THEN found[r - 1]
        ELSE Append(found[r - 1], CompLoc(zip, FirstNamed(zip, r)))
  IN found
walk_zip(zip) == WalkUpTo(zip)[Len(COMPONENT_NAMES)]

\* The local header is looked at for components only, and once for each.
WalkError(zip) ==
  IF ~zip.eocd THEN "NotAZip"
  ELSE IF \/ \E k \in DOMAIN zip.entries : ~zip.entries[k].cdh
          \/ \E loc \in Range(walk_zip(zip)) : ~zip.entries[loc.entry].lfh
       THEN "Malformed"
  ELSE "none"

\* read_component: a metadata component must fit the window.
ReadError(loc) ==
  CASE loc.method = "stored" -> IF loc.own > loc.left \/ loc.own > Window THEN "Malformed" ELSE "none"
    [] loc.method = "deflate" -> IF loc.sound < loc.own \/ loc.own > Window THEN "Inflate" ELSE "none"
    [] loc.method = "other" -> "Malformed"

Capacity(r) ==
  CASE r = IDX_HEADER -> 1 [] r = IDX_IMPORT -> MaxCapImports [] r = IDX_APPLET -> MaxCapApplets

\* parse_header, parse_imports, parse_applets, and the read before each of them.
MetadataError(zip, r) ==
  LET entry == zip.entries[FirstNamed(zip, r)]
      read == ReadError(CompLoc(zip, FirstNamed(zip, r)))
  IN IF Named(zip, r) = {} THEN IF r = IDX_HEADER THEN "MissingComponent" ELSE "none"
     ELSE IF read # "none" THEN read
     ELSE IF ~entry.legible \/ entry.aids > Capacity(r) THEN "Malformed"
     ELSE "none"

Metadata == {IDX_HEADER, IDX_IMPORT, IDX_APPLET}

\* The first error ends it: of the walk, then of the components in this order.
parse(zip) ==
  LET failing == {r \in Metadata : MetadataError(zip, r) # "none"}
  IN IF WalkError(zip) # "none" THEN WalkError(zip)
     ELSE IF failing # {} THEN MetadataError(zip, Min(failing)) ELSE "none"

Materialised(zip, loc) == component_index(zip.entries[loc.entry].path) \in Metadata

-----------------------------------------------------------------------------
\* A CAP as a converter makes them: a readable ZIP with a Header, whose directory
\* does not lie and whose metadata are within what the parser has room for.
WellFormed(zip) ==
  /\ zip.eocd /\ \A k \in DOMAIN zip.entries : zip.entries[k].cdh /\ zip.entries[k].lfh
  /\ \E k \in DOMAIN zip.entries : Last(zip.entries[k].path) = "Header"
  /\ \A k \in DOMAIN zip.entries :
       LET file == zip.entries[k].file
           name == Last(zip.entries[k].path)
       IN /\ file.method # "other" /\ file.declared = file.own /\ file.sound = file.own
          /\ file.own <= file.left
          /\ name \in {"Header", "Import", "Applet"} => zip.entries[k].legible /\ file.own <= Window
          /\ zip.entries[k].aids <= CASE name = "Header" -> 1
                                      [] name = "Import" -> MaxCapImports
                                      [] name = "Applet" -> MaxCapApplets
                                      [] OTHER -> zip.entries[k].aids
=============================================================================
