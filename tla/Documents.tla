------------------------------ MODULE Documents -------------------------------
(***************************************************************************)
(* Documents, patches and field lists: the path functions of               *)
(* packages/core/src/index.js and the field functions of                   *)
(* packages/server-mongo/src/access.js.                                    *)
(*                                                                         *)
(* "p.x" is the path <<"p", "x">>.  A document gives every path the value  *)
(* found there, or Absent, where an object counts by what is inside it:    *)
(* the object at <<"p">> is the values of the paths below <<"p">>, and an  *)
(* object with nothing inside is not told from no object.  Arrays are      *)
(* values.  The _id is in every document and every projection and is left  *)
(* out, as is info, which the server writes itself.                        *)
(***************************************************************************)
EXTENDS Sequences, SequencesExt

CONSTANTS
    Names,      \* the names paths are made of
    Paths,      \* the paths documents have values at, and the objects above them
    Values,     \* scalars and arrays
    Absent,     \* undefined
    Unlimited   \* no list of fields: every field

ASSUME PathsAreSequences == Paths \subseteq Seq(Names)
ASSUME AbsentIsNoValue == Absent \notin Values
ASSUME UnlimitedIsNoList == \A fields \in SUBSET Paths : fields # Unlimited

\* path === field || path.startsWith(`${field}.`)
Within(path, field) == IsPrefix(field, path)
Below(path, field) == IsStrictPrefix(field, path)

\* A path with a value has no object at it.
Doc == {d \in [Paths -> Values \cup {Absent}] :
            \A p, q \in Paths : d[p] # Absent /\ Below(q, p) => d[q] = Absent}
EmptyDoc == [p \in Paths |-> Absent]

FieldList == {Unlimited} \cup SUBSET Paths

\* getByPath(obj, path) !== undefined
Found(d, path) == \E p \in Paths : Within(p, path) /\ d[p] # Absent

-----------------------------------------------------------------------------
(* A patch puts at the paths of set what val has there, and empties those  *)
(* of unset.                                                               *)

Patch == [set : SUBSET Paths, unset : SUBSET Paths, val : Doc]

\* Mongo refuses a patch two of whose paths conflict.
NoConflict(patch) ==
    /\ \A p, q \in patch.set \cup patch.unset : ~Below(p, q)
    /\ patch.set \cap patch.unset = {}

\* A value above a path that is set gives way to an object; one above a path
\* that is unset stays.
ApplyPatch(d, patch) ==
    [p \in Paths |->
        IF \E s \in patch.unset : Within(p, s) THEN Absent
        ELSE IF \E s \in patch.set : Within(p, s) THEN patch.val[p]
        ELSE IF \E s \in patch.set : Below(s, p) THEN Absent
        ELSE d[p]]

-----------------------------------------------------------------------------
(* Lists of fields.                                                        *)

\* Seeded defect: an object of which some fields are allowed is allowed.
IsAllowedField_Either(path, fields) ==
    fields # Unlimited => \E f \in fields : Within(path, f) \/ Within(f, path)
IsAllowedField(path, fields) ==
    fields # Unlimited => \E f \in fields : Within(path, f)

NestedFields(path, fields) == {f \in fields : Below(f, path)}

ProjectFields(d, fields) ==
    [p \in Paths |-> IF IsAllowedField(p, fields) THEN d[p] ELSE Absent]

\* A hook's list narrows that of the access, and never widens it.
NarrowFields(accessFields, hookFields) ==
    IF hookFields = Unlimited THEN accessFields
    ELSE IF accessFields = Unlimited THEN hookFields
    ELSE {f \in hookFields : IsAllowedField(f, accessFields)}

\* Of two lists, the narrower of every two paths one of which covers the other.
IntersectFields(a, b) ==
    IF a = Unlimited THEN b
    ELSE IF b = Unlimited THEN a
    ELSE {p \in a : IsAllowedField(p, b)} \cup {p \in b : IsAllowedField(p, a)}

\* An object that is set or unset as a whole, and of which only some fields are
\* allowed, is taken apart; an allowed field the new object lacks is unset.
\* Seeded defect: it is not unset.
FilterPatch_Keeps(patch, fields) ==
    IF fields = Unlimited THEN patch
    ELSE LET allowed(paths) == {p \in paths : IsAllowedField(p, fields)}
             within(paths) == UNION {NestedFields(p, fields) : p \in paths \ allowed(paths)}
         IN  [set |-> allowed(patch.set) \cup {f \in within(patch.set) : Found(patch.val, f)},
              unset |-> allowed(patch.unset) \cup within(patch.unset),
              val |-> patch.val]
FilterPatch(patch, fields) ==
    IF fields = Unlimited THEN patch
    ELSE LET allowed(paths) == {p \in paths : IsAllowedField(p, fields)}
             within(paths) == UNION {NestedFields(p, fields) : p \in paths \ allowed(paths)}
             opened == within(patch.set)
         IN  [set |-> allowed(patch.set) \cup {f \in opened : Found(patch.val, f)},
              unset |-> allowed(patch.unset) \cup within(patch.unset)
                            \cup {f \in opened : ~Found(patch.val, f)},
              val |-> patch.val]
=============================================================================
