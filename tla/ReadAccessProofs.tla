-------------------------- MODULE ReadAccessProofs ---------------------------
(***************************************************************************)
(* Lists of fields and patches, for every set of paths and of values; what *)
(* a user may read and write, for any access, hooks, filters and patches;  *)
(* and the files the hooks come from, for any number of calls and edits.   *)
(***************************************************************************)
EXTENDS ReadAccess, FileCache, TLAPS

-----------------------------------------------------------------------------
(* The order of paths.                                                     *)

LEMMA PrefixByPlace ==
    ASSUME NEW N, NEW s \in Seq(N), NEW t \in Seq(N)
    PROVE  IsPrefix(s, t) <=>
              Len(s) <= Len(t) /\ \A i \in 1 .. Len(s) : s[i] = t[i]
<1>1. SubSeq(s, 1, Len(s)) = s
  OBVIOUS
<1>2. CASE Len(s) <= Len(t)
  <2>1. /\ SubSeq(t, 1, Len(s)) \in Seq(N)
        /\ Len(SubSeq(t, 1, Len(s))) = Len(s)
        /\ \A i \in 1 .. Len(s) : SubSeq(t, 1, Len(s))[i] = t[i]
    BY <1>2
  <2>2. s = SubSeq(t, 1, Len(s)) <=> \A i \in 1 .. Len(s) : s[i] = SubSeq(t, 1, Len(s))[i]
    BY <2>1
  <2> QED
    BY <1>1, <1>2, <2>1, <2>2 DEF IsPrefix
<1>3. CASE ~(Len(s) <= Len(t))
  BY <1>3 DEF IsPrefix
<1> QED
  BY <1>2, <1>3

LEMMA WithinIsReflexive ==
    ASSUME NEW p \in Paths PROVE Within(p, p)
<1>1. Paths \subseteq Seq(Names)
  BY PathsAreSequences
<1> QED
  BY <1>1, PrefixByPlace DEF Within

LEMMA WithinIsTransitive ==
    ASSUME NEW p \in Paths, NEW q \in Paths, NEW r \in Paths, Within(p, q), Within(q, r)
    PROVE  Within(p, r)
<1>1. Paths \subseteq Seq(Names)
  BY PathsAreSequences
<1>2. p \in Seq(Names) /\ q \in Seq(Names) /\ r \in Seq(Names)
  BY <1>1
<1>3. IsPrefix(q, p) /\ IsPrefix(r, q)
  BY DEF Within
<1>4. Len(q) <= Len(p) /\ \A i \in 1 .. Len(q) : q[i] = p[i]
  BY <1>2, <1>3, PrefixByPlace
<1>5. Len(r) <= Len(q) /\ \A i \in 1 .. Len(r) : r[i] = q[i]
  BY <1>2, <1>3, PrefixByPlace
<1>6. Len(r) <= Len(p) /\ \A i \in 1 .. Len(r) : r[i] = p[i]
  BY <1>2, <1>4, <1>5
<1> QED
  BY <1>2, <1>6, PrefixByPlace DEF Within

\* Two paths that contain a third contain one the other.
LEMMA WithinIsLinear ==
    ASSUME NEW p \in Paths, NEW q \in Paths, NEW r \in Paths, Within(p, q), Within(p, r)
    PROVE  Within(q, r) \/ Below(r, q)
<1>1. Paths \subseteq Seq(Names)
  BY PathsAreSequences
<1>2. p \in Seq(Names) /\ q \in Seq(Names) /\ r \in Seq(Names)
  BY <1>1
<1>3. Len(q) <= Len(p) /\ \A i \in 1 .. Len(q) : q[i] = p[i]
  BY <1>2, PrefixByPlace DEF Within
<1>4. Len(r) <= Len(p) /\ \A i \in 1 .. Len(r) : r[i] = p[i]
  BY <1>2, PrefixByPlace DEF Within
<1>5. CASE Len(r) <= Len(q)
  <2>1. \A i \in 1 .. Len(r) : r[i] = q[i]
    BY <1>2, <1>3, <1>4, <1>5
  <2> QED
    BY <1>2, <1>5, <2>1, PrefixByPlace DEF Within
<1>6. CASE Len(q) < Len(r)
  <2>1. \A i \in 1 .. Len(q) : q[i] = r[i]
    BY <1>2, <1>3, <1>4, <1>6
  <2>2. IsPrefix(q, r)
    BY <1>2, <1>6, <2>1, PrefixByPlace
  <2> QED
    BY <1>6, <2>2 DEF Below, IsStrictPrefix
<1> QED
  BY <1>2, <1>5, <1>6

LEMMA BelowIsWithin ==
    ASSUME NEW p, NEW q, Below(p, q) PROVE Within(p, q)
  BY DEF Below, Within, IsStrictPrefix

-----------------------------------------------------------------------------
(* Projection and lists of fields.                                         *)

\* A path inside an allowed one is allowed.
LEMMA AllowedIsClosed ==
    ASSUME NEW fields \in FieldList, NEW p \in Paths, NEW q \in Paths,
           IsAllowedField(q, fields), Within(p, q)
    PROVE  IsAllowedField(p, fields)
<1>1. CASE fields = Unlimited
  BY <1>1 DEF IsAllowedField
<1>2. CASE fields # Unlimited
  <2>1. fields \subseteq Paths
    BY <1>2 DEF FieldList
  <2>2. PICK f \in fields : Within(q, f)
    BY <1>2 DEF IsAllowedField
  <2>3. Within(p, f)
    BY <2>1, <2>2, WithinIsTransitive
  <2> QED
    BY <2>2, <2>3 DEF IsAllowedField
<1> QED
  BY <1>1, <1>2

\* What the tab has of a document and what it makes of a change (index.js:277 and
\* packages/vue/src/index.js:399): cutting the change down to the allowed fields
\* and applying it to the projection gives the projection of the changed document,
\* whatever the lists of fields and the shape of the patch, whole objects included.
THEOREM FilterThenApply ==
    ASSUME NEW d \in Doc, NEW patch \in Patch, NEW fields \in FieldList
    PROVE  ApplyPatch(ProjectFields(d, fields), FilterPatch(patch, fields))
             = ProjectFields(ApplyPatch(d, patch), fields)
<1>1. CASE fields = Unlimited
  <2>1. ProjectFields(d, fields) = d
    BY <1>1 DEF ProjectFields, IsAllowedField, Doc
  <2>2. FilterPatch(patch, fields) = patch
    BY <1>1 DEF FilterPatch
  <2>3. \A e : ProjectFields(ApplyPatch(e, patch), fields) = ApplyPatch(e, patch)
    BY <1>1 DEF ProjectFields, IsAllowedField, ApplyPatch
  <2> QED
    BY <2>1, <2>2, <2>3
<1>2. CASE fields # Unlimited
  <2> DEFINE allowed(paths) == {p \in paths : IsAllowedField(p, fields)}
             within(paths) == UNION {NestedFields(p, fields) : p \in paths \ allowed(paths)}
             cut == FilterPatch(patch, fields)
             shown == ProjectFields(d, fields)
  <2>1. /\ fields \subseteq Paths
        /\ patch.set \subseteq Paths /\ patch.unset \subseteq Paths
        /\ patch.val \in [Paths -> Values \cup {Absent}]
    BY <1>2 DEF FieldList, Patch, Doc
  <2>2. /\ cut.set = allowed(patch.set) \cup {f \in within(patch.set) : Found(patch.val, f)}
        /\ cut.unset = allowed(patch.unset) \cup within(patch.unset)
                         \cup {f \in within(patch.set) : ~Found(patch.val, f)}
        /\ cut.val = patch.val
    BY <1>2 DEF FilterPatch, Patch
  <2>3. \A paths, f : f \in within(paths) <=>
            f \in fields /\ \E s \in paths : Below(f, s) /\ ~IsAllowedField(s, fields)
    BY DEF NestedFields
  <2>4. cut.set \subseteq Paths /\ cut.unset \subseteq Paths
    BY <2>1, <2>2, <2>3
  <2> HIDE DEF allowed, within, cut, shown
  <2>5. \A s \in cut.set \cup cut.unset : IsAllowedField(s, fields)
    <3>1. \A f \in fields : IsAllowedField(f, fields)
      BY <2>1, WithinIsReflexive DEF IsAllowedField
    <3> QED
      BY <2>2, <2>3, <3>1 DEF allowed
  <2>6. ASSUME NEW p \in Paths, ~IsAllowedField(p, fields)
        PROVE  ApplyPatch(shown, cut)[p] = Absent
    <3>1. \A s \in cut.set \cup cut.unset : ~Within(p, s)
      BY <2>4, <2>5, <2>6, AllowedIsClosed
    <3>2. shown[p] = Absent
      BY <2>6 DEF shown, ProjectFields
    <3> QED
      BY <3>1, <3>2 DEF ApplyPatch
  <2>7. ASSUME NEW p \in Paths, IsAllowedField(p, fields)
        PROVE  ApplyPatch(shown, cut)[p] = ApplyPatch(d, patch)[p]
    <3>1. PICK f \in fields : Within(p, f)
      BY <1>2, <2>7 DEF IsAllowedField
    \* A path of the patch that contains p is allowed, or taken apart with f in it.
    <3>2. ASSUME NEW s \in Paths, Within(p, s), ~IsAllowedField(s, fields)
          PROVE  Below(f, s)
      <4>1. ~Within(s, f)
        BY <1>2, <3>2 DEF IsAllowedField
      <4> QED
        BY <2>1, <3>1, <3>2, <4>1, WithinIsLinear
    <3>3. ASSUME NEW s \in patch.set, Within(p, s)
          PROVE  \/ \E t \in cut.set : Within(p, t)
                 \/ patch.val[p] = Absent /\ \E t \in cut.unset : Within(p, t)
      <4>1. CASE IsAllowedField(s, fields)
        BY <2>2, <3>3, <4>1 DEF allowed
      <4>2. CASE ~IsAllowedField(s, fields)
        <5>1. f \in within(patch.set)
          BY <2>1, <2>3, <3>2, <3>3, <4>2
        <5>2. CASE Found(patch.val, f)
          BY <2>2, <3>1, <5>1, <5>2
        <5>3. CASE ~Found(patch.val, f)
          <6>1. patch.val[p] = Absent
            BY <3>1, <5>3 DEF Found
          <6> QED
            BY <2>2, <3>1, <5>1, <5>3, <6>1
        <5> QED
          BY <5>2, <5>3
      <4> QED
        BY <4>1, <4>2
    <3>4. ASSUME NEW s \in patch.unset, Within(p, s)
          PROVE  \E t \in cut.unset : Within(p, t)
      <4>1. CASE IsAllowedField(s, fields)
        BY <2>2, <3>4, <4>1 DEF allowed
      <4>2. CASE ~IsAllowedField(s, fields)
        BY <2>1, <2>2, <2>3, <3>1, <3>2, <3>4, <4>2
      <4> QED
        BY <4>1, <4>2
    <3>5. ASSUME NEW s \in patch.set, Below(s, p)
          PROVE  \E t \in cut.set : Below(t, p)
      <4>1. IsAllowedField(s, fields)
        BY <2>1, <2>7, <3>5, BelowIsWithin, AllowedIsClosed
      <4> QED
        BY <2>2, <3>5, <4>1 DEF allowed
    \* What the cut patch touches, the patch touches.
    <3>6. ASSUME NEW t \in cut.set, Within(p, t)
          PROVE  \E s \in patch.set : Within(p, s)
      <4>1. t \in patch.set \/ \E s \in patch.set : Below(t, s)
        BY <2>2, <2>3, <3>6 DEF allowed
      <4> QED
        BY <2>1, <2>4, <3>6, <4>1, BelowIsWithin, WithinIsTransitive
    <3>7. ASSUME NEW t \in cut.unset, Within(p, t)
          PROVE  \/ \E s \in patch.unset : Within(p, s)
                 \/ patch.val[p] = Absent /\ \E s \in patch.set : Within(p, s)
      <4>1. CASE t \in allowed(patch.unset)
        BY <3>7, <4>1 DEF allowed
      <4>2. CASE t \in within(patch.unset)
        <5>1. PICK s \in patch.unset : Below(t, s)
          BY <2>3, <4>2
        <5> QED
          BY <2>1, <2>4, <3>7, <5>1, BelowIsWithin, WithinIsTransitive
      <4>3. CASE t \in within(patch.set) /\ ~Found(patch.val, t)
        <5>1. PICK s \in patch.set : Below(t, s)
          BY <2>3, <4>3
        <5>2. Within(p, s)
          BY <2>1, <2>4, <3>7, <5>1, BelowIsWithin, WithinIsTransitive
        <5>3. patch.val[p] = Absent
          BY <3>7, <4>3 DEF Found
        <5> QED
          BY <5>2, <5>3
      <4> QED
        BY <2>2, <4>1, <4>2, <4>3
    <3>8. ASSUME NEW t \in cut.set, Below(t, p)
          PROVE  (\E s \in patch.set : Below(s, p)) \/ (\E s \in patch.set : Within(p, s))
      <4>1. CASE t \in patch.set
        BY <3>8, <4>1
      <4>2. CASE t \notin patch.set
        <5>1. PICK s \in patch.set : Below(t, s)
          BY <2>2, <2>3, <4>2 DEF allowed
        <5>2. Within(t, p) /\ Within(t, s)
          BY <3>8, <5>1, BelowIsWithin
        <5> QED
          BY <2>1, <2>4, <5>1, <5>2, WithinIsLinear
      <4> QED
        BY <4>1, <4>2
    <3>9. shown[p] = d[p]
      BY <2>7 DEF shown, ProjectFields
    <3> QED
      BY <2>2, <3>3, <3>4, <3>5, <3>6, <3>7, <3>8, <3>9 DEF ApplyPatch
  <2>8. \A p \in Paths : ApplyPatch(shown, cut)[p] = ProjectFields(ApplyPatch(d, patch), fields)[p]
    BY <2>6, <2>7 DEF ProjectFields
  <2> QED
    BY <2>8 DEF ApplyPatch, ProjectFields, cut, shown
<1> QED
  BY <1>1, <1>2

\* The list a readChange hook and the access make together allows what both do,
\* no less and no more (index.js:739).
THEOREM IntersectionIsExact ==
    ASSUME NEW a \in FieldList, NEW b \in FieldList, NEW p \in Paths
    PROVE  IsAllowedField(p, IntersectFields(a, b))
              <=> IsAllowedField(p, a) /\ IsAllowedField(p, b)
<1>1. CASE a = Unlimited \/ b = Unlimited
  BY <1>1 DEF IntersectFields, IsAllowedField
<1>2. CASE a # Unlimited /\ b # Unlimited
  <2> DEFINE both == IntersectFields(a, b)
  <2>1. a \subseteq Paths /\ b \subseteq Paths
    BY <1>2 DEF FieldList
  <2>2. \A f : f \in both <=> \/ f \in a /\ IsAllowedField(f, b)
                              \/ f \in b /\ IsAllowedField(f, a)
    BY <1>2 DEF IntersectFields
  <2>3. both \subseteq Paths /\ both \in FieldList
    BY <2>1, <2>2 DEF FieldList
  <2>4. IsAllowedField(p, both) <=> \E f \in both : Within(p, f)
    BY <2>3, UnlimitedIsNoList DEF IsAllowedField
  <2> HIDE DEF both
  <2>5. ASSUME NEW f \in both, Within(p, f)
        PROVE  IsAllowedField(p, a) /\ IsAllowedField(p, b)
    <3>1. CASE f \in a /\ IsAllowedField(f, b)
      BY <2>1, <2>5, <3>1, AllowedIsClosed DEF IsAllowedField
    <3>2. CASE f \in b /\ IsAllowedField(f, a)
      BY <2>1, <2>5, <3>2, AllowedIsClosed DEF IsAllowedField
    <3> QED
      BY <2>2, <3>1, <3>2
  <2>6. ASSUME IsAllowedField(p, a), IsAllowedField(p, b)
        PROVE  \E f \in both : Within(p, f)
    <3>1. PICK f \in a : Within(p, f)
      BY <1>2, <2>6 DEF IsAllowedField
    <3>2. PICK g \in b : Within(p, g)
      BY <1>2, <2>6 DEF IsAllowedField
    <3>3. CASE Within(f, g)
      BY <2>2, <3>1, <3>2, <3>3 DEF IsAllowedField
    <3>4. CASE Below(g, f)
      <4>1. Within(g, f)
        BY <3>4, BelowIsWithin
      <4> QED
        BY <2>2, <3>1, <3>2, <4>1 DEF IsAllowedField
    <3> QED
      BY <2>1, <3>1, <3>2, <3>3, <3>4, WithinIsLinear
  <2> QED
    BY <2>4, <2>5, <2>6 DEF both
<1> QED
  BY <1>1, <1>2

\* A beforeRead hook's list cannot widen what the access allows, nor the access
\* what the hook does (access.js:94).  Unlike the lists of sync it may allow less
\* than both: an object of which the access allows some fields is refused whole.
THEOREM NarrowingNeverWidens ==
    ASSUME NEW accessFields \in FieldList, NEW hookFields \in FieldList, NEW p \in Paths,
           IsAllowedField(p, NarrowFields(accessFields, hookFields))
    PROVE  IsAllowedField(p, accessFields) /\ IsAllowedField(p, hookFields)
<1>1. CASE hookFields = Unlimited \/ accessFields = Unlimited
  BY <1>1 DEF NarrowFields, IsAllowedField
<1>2. CASE hookFields # Unlimited /\ accessFields # Unlimited
  <2>1. accessFields \subseteq Paths /\ hookFields \subseteq Paths
    BY <1>2 DEF FieldList
  <2>2. NarrowFields(accessFields, hookFields)
          = {f \in hookFields : IsAllowedField(f, accessFields)}
    BY <1>2 DEF NarrowFields
  <2>3. PICK f \in hookFields : IsAllowedField(f, accessFields) /\ Within(p, f)
    BY <2>1, <2>2, UnlimitedIsNoList DEF IsAllowedField
  <2> QED
    BY <2>1, <2>3, AllowedIsClosed DEF IsAllowedField
<1> QED
  BY <1>1, <1>2

-----------------------------------------------------------------------------
(* Documents stay documents.                                               *)

\* A patch makes a document of a document, whatever objects it opens or replaces.
LEMMA PatchedIsDoc ==
    ASSUME NEW d \in Doc, NEW patch \in Patch
    PROVE  ApplyPatch(d, patch) \in Doc
<1> DEFINE e == ApplyPatch(d, patch)
<1>1. /\ d \in [Paths -> Values \cup {Absent}] /\ patch.val \in [Paths -> Values \cup {Absent}]
      /\ patch.set \subseteq Paths /\ patch.unset \subseteq Paths
  BY DEF Doc, Patch
<1>2. \A p \in Paths : e[p] =
        IF \E s \in patch.unset : Within(p, s) THEN Absent
        ELSE IF \E s \in patch.set : Within(p, s) THEN patch.val[p]
        ELSE IF \E s \in patch.set : Below(s, p) THEN Absent
        ELSE d[p]
  BY DEF ApplyPatch
<1>3. e \in [Paths -> Values \cup {Absent}]
  BY <1>1 DEF ApplyPatch
<1>4. ASSUME NEW p \in Paths, NEW q \in Paths, e[p] # Absent, Below(q, p)
      PROVE  e[q] = Absent
  <2>1. Within(q, p) /\ ~\E s \in patch.unset : Within(p, s)
    BY <1>2, <1>4, BelowIsWithin
  <2>2. CASE \E s \in patch.set : Within(p, s)
    <3>1. patch.val[p] # Absent
      BY <1>2, <1>4, <2>1, <2>2
    <3>2. patch.val[q] = Absent
      BY <1>4, <3>1 DEF Patch, Doc
    <3>3. \E s \in patch.set : Within(q, s)
      BY <1>1, <2>1, <2>2, WithinIsTransitive
    <3> QED
      BY <1>2, <3>2, <3>3
  <2>3. CASE ~\E s \in patch.set : Within(p, s)
    <3>1. d[p] # Absent /\ ~\E s \in patch.set : Below(s, p)
      BY <1>2, <1>4, <2>1, <2>3
    <3>2. d[q] = Absent
      BY <1>4, <3>1 DEF Doc
    <3>3. ~\E s \in patch.set : Within(q, s)
      BY <1>1, <2>1, <2>3, <3>1, WithinIsLinear
    <3> QED
      BY <1>2, <3>2, <3>3
  <2> QED
    BY <2>2, <2>3
<1> HIDE DEF e
<1>5. e \in Doc
  BY <1>3, <1>4 DEF Doc
<1> QED
  BY <1>5 DEF e

\* What is cut out of a document is a document.
LEMMA ProjectionIsDoc ==
    ASSUME NEW d \in Doc, NEW fields
    PROVE  ProjectFields(d, fields) \in Doc
<1> DEFINE e == ProjectFields(d, fields)
<1>1. d \in [Paths -> Values \cup {Absent}]
  BY DEF Doc
<1>2. \A p \in Paths : e[p] = d[p] \/ e[p] = Absent
  BY DEF ProjectFields
<1>3. e \in [Paths -> Values \cup {Absent}]
  BY <1>1 DEF ProjectFields
<1> HIDE DEF e
<1>4. e \in Doc
  BY <1>2, <1>3 DEF Doc
<1> QED
  BY <1>4 DEF e

\* What the check found of a write of a user without full access.
PassedCheck(w) ==
    /\ \A p \in w.patch.set \cup w.patch.unset : IsAllowedField(p, access.write.fields)
    /\ \E f \in access.write.filters :
        MatchesAccessFilter(IF w.action = "update" /\ w.old = NoDoc THEN Patched(NoDoc, w.patch)
                            ELSE w.old, f)

\* The stored document is one, user and access stay what they are, and the writes let
\* through have been checked.
AccessInv ==
    /\ doc \in Doc \cup {NoDoc}
    /\ named \in DOMAIN Setups
    /\ access = MergeUserAccess(setup.sources)
    /\ writing \subseteq Write
    /\ \A w \in writing : w.byUser /\ ~access.full => PassedCheck(w)

\* What the check of a write lets through.
LEMMA MayWriteMeans ==
    ASSUME NEW d, NEW paths, ~access.full, MayWrite(d, paths)
    PROVE  /\ \E f \in access.write.filters : MatchesAccessFilter(d, f)
           /\ \A p \in paths : IsAllowedField(p, access.write.fields)
<1>1. CASE \E f \in access.write.filters : MatchesAccessFilter(d, f)
  BY <1>1 DEF MayWrite, ResolveAccess, Allowed
<1>2. CASE ~\E f \in access.write.filters : MatchesAccessFilter(d, f)
  BY <1>2 DEF MayWrite, ResolveAccess, Denied
<1> QED
  BY <1>1, <1>2

LEMMA EmptyDocIsDoc == EmptyDoc \in Doc /\ \A p \in Paths : EmptyDoc[p] = Absent
BY DEF EmptyDoc, Doc

LEMMA BegunIsChecked ==
    ASSUME AccessInv, NEW byUser \in BOOLEAN,
           (\E patch \in Applicable : BeginUpdate(patch, byUser)) \/ BeginRemove(byUser)
    PROVE  \E w \in Write :
                /\ writing' = writing \cup {w}
                /\ w.byUser /\ ~access.full => PassedCheck(w)
<1>1. ASSUME NEW patch \in Applicable, BeginUpdate(patch, byUser)
      PROVE  \E w \in Write :
                /\ writing' = writing \cup {w}
                /\ w.byUser /\ ~access.full => PassedCheck(w)
  <2> DEFINE w == [action |-> "update", patch |-> patch, old |-> doc, byUser |-> byUser]
  <2>1. w \in Write
    BY WritesArePatches DEF Applicable, Write, AccessInv
  <2>2. writing' = writing \cup {w}
    BY <1>1 DEF BeginUpdate, Began
  <2>3. ASSUME byUser, ~access.full PROVE PassedCheck(w)
    <3> DEFINE d == IF doc = NoDoc THEN Patched(doc, patch) ELSE doc
    <3>1. MayWrite(d, ChangeWritePaths(patch, EmptyDoc))
      BY <1>1, <2>3 DEF BeginUpdate
    <3> HIDE DEF d
    <3>2. /\ \E f \in access.write.filters : MatchesAccessFilter(d, f)
          /\ \A p \in patch.set \cup patch.unset : IsAllowedField(p, access.write.fields)
      BY <2>3, <3>1, MayWriteMeans DEF ChangeWritePaths
    <3>3. d = IF w.action = "update" /\ w.old = NoDoc THEN Patched(NoDoc, w.patch) ELSE w.old
      BY DEF d
    <3> QED
      BY <3>2, <3>3 DEF PassedCheck
  <2>4. w.byUser = byUser
    OBVIOUS
  <2> HIDE DEF w
  <2> QED
    BY <2>1, <2>2, <2>3, <2>4
<1>2. ASSUME BeginRemove(byUser)
      PROVE  \E w \in Write :
                /\ writing' = writing \cup {w}
                /\ w.byUser /\ ~access.full => PassedCheck(w)
  <2> DEFINE w == [action |-> "delete", patch |-> NoPatch, old |-> doc, byUser |-> byUser]
  <2>1. NoPatch \in Patch /\ NoPatch.set = {} /\ NoPatch.unset = {}
    BY EmptyDocIsDoc DEF NoPatch, Patch
  <2>2. w \in Write
    BY <2>1 DEF Write, AccessInv
  <2>3. writing' = writing \cup {w}
    BY <1>2 DEF BeginRemove, Began
  <2>4. ASSUME byUser, ~access.full PROVE PassedCheck(w)
    <3>1. MayWrite(doc, {})
      BY <1>2, <2>4 DEF BeginRemove
    <3>2. \E f \in access.write.filters : MatchesAccessFilter(doc, f)
      BY <2>4, <3>1, MayWriteMeans
    <3> QED
      BY <2>1, <3>2 DEF PassedCheck
  <2>5. w.byUser = byUser
    OBVIOUS
  <2> HIDE DEF w
  <2> QED
    BY <2>2, <2>3, <2>4, <2>5
<1> QED
  BY <1>1, <1>2

LEMMA PatchedIsStored ==
    ASSUME NEW d \in Doc \cup {NoDoc}, NEW patch \in Patch
    PROVE  Patched(d, patch) \in Doc
<1>1. (IF d = NoDoc THEN EmptyDoc ELSE d) \in Doc
  BY EmptyDocIsDoc
<1> QED
  BY <1>1, PatchedIsDoc DEF Patched

LEMMA AccessInvStep == AccessInv /\ [Next]_vars => AccessInv'
<1> SUFFICES ASSUME AccessInv, [Next]_vars PROVE AccessInv'
  OBVIOUS
<1> USE DEF AccessInv
<1>1. named' = named /\ access' = access /\ setup' = setup
  BY DEF setup, Next, Begins, BeginUpdate, BeginRemove, Began, Update, Add, RemoveDoc, WriteFails,
         Logged, Load, BeginSync, DecideRow, FinishSync, vars
<1>2. \A w : PassedCheck(w) => PassedCheck(w)'
  BY <1>1 DEF PassedCheck, MatchesAccessFilter
<1>3. ASSUME NEW byUser \in BOOLEAN, Begins(byUser) PROVE AccessInv'
  <2>1. CASE (\E patch \in Applicable : BeginUpdate(patch, byUser)) \/ BeginRemove(byUser)
    <3>1. doc' = doc
      BY <2>1 DEF BeginUpdate, BeginRemove, Began
    <3> QED
      BY <1>1, <1>2, <2>1, <3>1, BegunIsChecked
  <2>2. CASE \E d \in Starts : Add(d, byUser)
    <3>1. doc' \in Doc /\ writing' = writing
      BY <2>2, WritesArePatches DEF Add
    <3> QED
      BY <1>1, <1>2, <3>1
  <2> QED
    BY <1>3, <2>1, <2>2 DEF Begins
<1>4. ASSUME NEW w \in writing, Update(w) \/ RemoveDoc(w) \/ WriteFails(w) PROVE AccessInv'
  <2>1. writing' \subseteq writing
    BY <1>4 DEF Update, RemoveDoc, WriteFails
  <2>2. doc' \in Doc \cup {NoDoc}
    BY <1>4, PatchedIsStored DEF Update, RemoveDoc, WriteFails, Write
  <2> QED
    BY <1>1, <1>2, <2>1, <2>2
<1>5. CASE Load \/ BeginSync \/ DecideRow \/ FinishSync \/ UNCHANGED vars
  <2>1. doc' = doc /\ writing' = writing
    BY <1>5 DEF Load, BeginSync, DecideRow, FinishSync, vars
  <2> QED
    BY <1>1, <1>2, <2>1
<1> QED
  BY <1>3, <1>4, <1>5 DEF Next

LEMMA AlwaysAccessInv == Spec => []AccessInv
<1>1. Init => AccessInv
  BY WritesArePatches DEF Init, AccessInv
<1> QED
  BY <1>1, AccessInvStep, PTL DEF Spec

-----------------------------------------------------------------------------
(* Reading: the database's answer, the check in hand, and the lists.       *)

\* The check of one condition of a filter.
Accepts(value, expected) ==
    IF expected = AdminId THEN ValuesMatch(value, setup.user.id)
    ELSE IF expected = GroupId THEN \E g \in setup.user.groups : ValuesMatch(value, g)
    ELSE ValuesMatch(value, expected)

\* One condition, as the database answers it and as the check in hand does: an array
\* is met by its elements, and expects one of its own.
LEMMA ValueAgrees ==
    ASSUME named \in DOMAIN Setups, NEW d \in Doc, NEW path \in Paths, NEW expected \in Expected
    PROVE  LET meets == Meets(d, path, ResolveQueryValue(expected))
           IN  /\ Accepts(d[path], expected) => meets
               /\ meets /\ expected # Null
                        /\ (IsArray(expected) => expected \cap {AdminId, Null} = {})
                    => Accepts(d[path], expected)
<1> DEFINE value == d[path]
<1>1. /\ setup.user.id \in Scalars \ {Null}
      /\ setup.user.groups \subseteq Scalars \ {Null}
  BY UsersAreScalars DEF setup
<1>2. value \in Values \cup {Absent} /\ AdminId # value /\ AdminId \notin Scalars
  BY PlaceholdersAreNoValues, AbsentIsNoValue, ScalarsAreValues DEF Doc
<1>3. IsArray(value) => AdminId \notin value
  BY <1>2, ScalarsAreValues, ArraysAreApart DEF IsArray
<1>4. /\ \A x \in Scalars \cup {Absent, AdminId, GroupId} : ~IsArray(x)
      /\ Absent \notin Scalars
  BY ArraysAreApart, ScalarsAreValues, AbsentIsNoValue DEF IsArray
<1>5. \A op, of : Condition(op, of).op = op /\ Condition(op, of).of = of
  BY DEF Condition
<1>6. \A of : Meets(d, path, Condition("eq", of)) <=>
                  \/ value = of \/ (IsArray(value) /\ of \in value)
                  \/ ~Found(d, path) /\ Null = of
  BY <1>5 DEF Meets
<1>7. \A of : Meets(d, path, Condition("in", of)) <=>
                  \/ value \in of \/ (IsArray(value) /\ \E v \in value : v \in of)
                  \/ ~Found(d, path) /\ Null \in of
  BY <1>5 DEF Meets
<1>8. \A x : ~IsArray(x) => (ValuesMatch(value, x) <=>
                  IF IsArray(value) THEN x \in value ELSE value = x)
  BY DEF ValuesMatch
<1> HIDE DEF value
<1>9. CASE expected = AdminId
  <2>1. ResolveQueryValue(expected) = Condition("eq", setup.user.id)
    BY <1>9 DEF ResolveQueryValue
  <2>2. Accepts(value, expected) <=> ValuesMatch(value, setup.user.id)
    BY <1>9 DEF Accepts
  <2> QED
    BY <1>1, <1>4, <1>6, <1>8, <2>1, <2>2 DEF value
<1>10. CASE expected # AdminId /\ expected = GroupId
  <2>1. ResolveQueryValue(expected) = Condition("in", setup.user.groups)
    BY <1>10 DEF ResolveQueryValue
  <2>2. Accepts(value, expected) <=> \E g \in setup.user.groups : ValuesMatch(value, g)
    BY <1>10 DEF Accepts
  <2>3. \A g \in setup.user.groups :
            ValuesMatch(value, g) <=> IF IsArray(value) THEN g \in value ELSE value = g
    BY <1>1, <1>4, <1>8
  <2>4. IsArray(value) => value \notin setup.user.groups
    BY <1>1, <1>4
  <2>5. Meets(d, path, ResolveQueryValue(expected)) <=>
            value \in setup.user.groups \/ (IsArray(value) /\ \E v \in value : v \in setup.user.groups)
    BY <1>1, <1>7, <2>1
  <2> QED
    BY <2>2, <2>3, <2>4, <2>5 DEF value
<1>11. CASE expected # AdminId /\ expected # GroupId /\ IsArray(expected)
  <2> DEFINE resolved == {ResolveItem(item) : item \in expected}
  <2>1. ResolveQueryValue(expected) = Condition("in", resolved)
    BY <1>11 DEF ResolveQueryValue
  <2>2. Accepts(value, expected) <=>
            \E e \in expected : IF IsArray(value) THEN e \in value ELSE value = e
    BY <1>11 DEF Accepts, ValuesMatch
  <2>3. \A e \in expected : e # AdminId => ResolveItem(e) = e
    BY DEF ResolveItem
  <2>4. expected \in Arrays /\ expected \subseteq Scalars \cup {AdminId}
    BY <1>11, ArraysAreApart DEF IsArray
  <2>5. \A e \in expected : e # AdminId => e \in resolved
    BY <2>3
  <2>6. AdminId \notin expected => resolved = expected
    BY <2>3
  <2> HIDE DEF resolved
  <2>7. Meets(d, path, ResolveQueryValue(expected)) <=>
                  \/ value \in resolved \/ (IsArray(value) /\ \E v \in value : v \in resolved)
                  \/ ~Found(d, path) /\ Null \in resolved
    BY <1>7, <2>1
  <2>8. Accepts(value, expected) => Meets(d, path, ResolveQueryValue(expected))
    <3> SUFFICES ASSUME NEW e \in expected, IF IsArray(value) THEN e \in value ELSE value = e
                 PROVE  Meets(d, path, ResolveQueryValue(expected))
      BY <2>2
    <3>1. e # AdminId
      BY <1>2, <1>3 DEF value
    <3> QED
      BY <2>5, <2>7, <3>1
  <2>9. ASSUME Meets(d, path, ResolveQueryValue(expected)), expected \cap {AdminId, Null} = {}
        PROVE  Accepts(value, expected)
    <3>1. resolved = expected /\ Null \notin resolved
      BY <2>6, <2>9
    <3>2. IsArray(value) => value \notin expected
      BY <1>4, <2>4
    <3> QED
      BY <2>2, <2>7, <2>9, <3>1, <3>2
  <2> QED
    BY <1>11, <2>8, <2>9 DEF value
<1>12. CASE expected # AdminId /\ expected # GroupId /\ ~IsArray(expected)
  <2>1. ResolveQueryValue(expected) = Condition("eq", expected)
    BY <1>12 DEF ResolveQueryValue
  <2>2. Accepts(value, expected) <=> IF IsArray(value) THEN expected \in value ELSE value = expected
    BY <1>8, <1>12 DEF Accepts
  <2>3. IsArray(value) => value # expected
    BY <1>12
  <2> QED
    BY <1>6, <2>1, <2>2, <2>3 DEF value
<1> QED
  BY <1>9, <1>10, <1>11, <1>12

LEMMA FilterAgrees ==
    ASSUME named \in DOMAIN Setups, NEW d \in Doc, NEW f, DOMAIN f \subseteq Paths,
           \A p \in DOMAIN f : f[p] \in Expected
    PROVE  LET selected == QueryMatches(d, ResolveFilterForQuery(f))
           IN  /\ MatchesAccessFilter(d, f) => selected
               /\ Plain(f) /\ selected => MatchesAccessFilter(d, f)
<1>1. d # NoDoc
  BY NoDocIsNoDocument
<1>2. MatchesAccessFilter(d, f) <=> \A p \in DOMAIN f : Accepts(d[p], f[p])
  BY <1>1 DEF MatchesAccessFilter, Accepts
<1>3. QueryMatches(d, ResolveFilterForQuery(f)) <=>
            \A p \in DOMAIN f : Meets(d, p, ResolveQueryValue(f[p]))
  BY DEF QueryMatches, ResolveFilterForQuery
<1>4. \A p \in DOMAIN f : Accepts(d[p], f[p]) => Meets(d, p, ResolveQueryValue(f[p]))
  BY ValueAgrees
<1>5. Plain(f) => \A p \in DOMAIN f :
            Meets(d, p, ResolveQueryValue(f[p])) => Accepts(d[p], f[p])
  BY ValueAgrees DEF Plain
<1> QED
  BY <1>2, <1>3, <1>4, <1>5

\* What the check of the document in hand accepts, the database selects, and, of filters
\* without placeholders in arrays and without null, the other way round: for every user,
\* filter and document.  Reads and syncs ask the one, writes and removals the other.
THEOREM QueriesAgreeWithChecks == Spec => []QueryAgreesWithCheck
<1>1. AccessInv => QueryAgreesWithCheck
  <2> SUFFICES ASSUME AccessInv, doc # NoDoc, NEW grant \in {access.read, access.write},
                      NEW f \in grant.filters
               PROVE  LET selected == QueryMatches(doc, ResolveFilterForQuery(f))
                      IN  /\ MatchesAccessFilter(doc, f) => selected
                          /\ Plain(f) /\ selected => MatchesAccessFilter(doc, f)
    BY DEF QueryAgreesWithCheck
  <2>1. DOMAIN f \subseteq Paths /\ \A p \in DOMAIN f : f[p] \in Expected
    BY MergedAccessIsTyped DEF AccessInv, setup, AreFilters
  <2> QED
    BY <2>1, FilterAgrees DEF AccessInv
<1> QED
  BY <1>1, AlwaysAccessInv, PTL

LEMMA PlanListsFields ==
    ASSUME AccessInv
    PROVE  ReadPlan.fields \in FieldList
<1>1. RunHooks(setup.beforeRead \o setup.tableRead).fields \in FieldList
  BY HooksListFields DEF AccessInv, setup
<1>2. access.read.fields \in FieldList
  BY MergedAccessIsTyped DEF AccessInv, setup
<1>3. \A a, b \in FieldList : NarrowFields(a, b) \in FieldList
  BY DEF NarrowFields, FieldList
<1>4. Unlimited \in FieldList
  BY DEF FieldList
<1>5. ASSUME NEW fields \in FieldList PROVE UserReadPlan(fields).fields \in FieldList
  BY <1>2, <1>3, <1>4 DEF UserReadPlan
<1> QED
  BY <1>1, <1>4, <1>5 DEF ReadPlan

\* What an allowed path leads to is not lost by the projection.
LEMMA FoundInProjection ==
    ASSUME NEW d \in Doc, NEW fields \in FieldList, NEW path \in Paths, IsAllowedField(path, fields)
    PROVE  Found(ProjectFields(d, fields), path) <=> Found(d, path)
<1>1. ASSUME NEW p \in Paths, Within(p, path) PROVE ProjectFields(d, fields)[p] = d[p]
  <2>1. IsAllowedField(p, fields)
    BY <1>1, AllowedIsClosed
  <2> QED
    BY <2>1 DEF ProjectFields
<1> QED
  BY <1>1 DEF Found

\* A list shows an id exactly if the record can be loaded and, as loaded, matches the
\* filter; getUnique lists the values of loaded records: for any hooks, access, fields
\* and filters, so a filter never tells of a field the user does not see.
THEOREM ListsShowWhatLoads == Spec => []ListsAgreeWithLoads
<1>1. AccessInv => ListsAgreeWithLoads
  <2> SUFFICES ASSUME AccessInv, doc \in Doc, doc # NoDoc PROVE ListsAgreeWithLoads
    BY DEF AccessInv, ListsAgreeWithLoads
  <2> DEFINE plan == ReadPlan
             loaded == ReadRecord(plan, doc)
  <2>1. /\ Selected(plan, doc) => loaded = ProjectFields(doc, plan.fields) /\ loaded # NoDoc
        /\ ~Selected(plan, doc) => loaded = NoDoc
    BY ProjectionIsDoc, NoDocIsNoDocument DEF ReadRecord
  <2>2. ASSUME Selected(plan, doc), NEW p \in Paths
        PROVE  loaded[p] = IF IsAllowedField(p, plan.fields) THEN doc[p] ELSE Absent
    BY <2>1, <2>2 DEF ProjectFields
  <2>3. ASSUME NEW filters \in ClientFilters, MayFilterBy(filters, plan)
        PROVE  Listed(filters, plan, doc) <=>
                  loaded # NoDoc /\ \E f \in filters : \A p \in DOMAIN f :
                      \/ loaded[p] = f[p] \/ (IsArray(loaded[p]) /\ f[p] \in loaded[p])
                      \/ ~Found(loaded, p) /\ f[p] = Null
    <3>1. CASE Selected(plan, doc)
      <4>1. ASSUME NEW f \in filters
            PROVE  QueryMatches(doc, [p \in DOMAIN f |-> Condition("eq", f[p])]) <=>
                      \A p \in DOMAIN f :
                          \/ loaded[p] = f[p] \/ (IsArray(loaded[p]) /\ f[p] \in loaded[p])
                          \/ ~Found(loaded, p) /\ f[p] = Null
        <5>1. \A p \in DOMAIN f : p \in Paths /\ IsAllowedField(p, plan.fields)
          BY <2>3, FiltersComparePaths DEF MayFilterBy, FilterFields
        <5>2. \A p \in DOMAIN f : loaded[p] = doc[p]
          BY <2>2, <3>1, <5>1
        <5>3. \A p \in DOMAIN f : Found(loaded, p) <=> Found(doc, p)
          BY <2>1, <3>1, <5>1, PlanListsFields, FoundInProjection
        <5>4. \A p \in DOMAIN f : Meets(doc, p, Condition("eq", f[p])) <=>
                  \/ doc[p] = f[p] \/ (IsArray(doc[p]) /\ f[p] \in doc[p])
                  \/ ~Found(doc, p) /\ f[p] = Null
          BY DEF Meets, Condition
        <5> QED
          BY <5>2, <5>3, <5>4 DEF QueryMatches
      <4> QED
        BY <2>1, <2>3, <3>1, <4>1 DEF Listed
    <3>2. CASE ~Selected(plan, doc)
      BY <2>1, <3>2 DEF Listed
    <3> QED
      BY <3>1, <3>2
  <2>4. ASSUME NEW field \in Paths
        PROVE  GetUnique(field, plan, doc) =
                  IF loaded = NoDoc THEN {} ELSE {loaded[field]} \ {Absent, Null}
    BY <2>1, <2>2, <2>4 DEF GetUnique
  <2> QED
    BY <2>3, <2>4 DEF ListsAgreeWithLoads
<1> QED
  BY <1>1, AlwaysAccessInv, PTL

-----------------------------------------------------------------------------
(* Writing.                                                                *)

\* What a patch changes is in or under what it sets and unsets, if it fits.
LEMMA PatchChangesWithin ==
    ASSUME NEW d \in Doc, NEW patch \in Patch, NEW p \in Paths,
           \A q \in Paths : d[q] # Absent => \A s \in patch.set : ~Below(s, q),
           ApplyPatch(d, patch)[p] # d[p]
    PROVE  \E s \in patch.set \cup patch.unset : Within(p, s)
<1>1. ApplyPatch(d, patch)[p] =
        IF \E s \in patch.unset : Within(p, s) THEN Absent
        ELSE IF \E s \in patch.set : Within(p, s) THEN patch.val[p]
        ELSE IF \E s \in patch.set : Below(s, p) THEN Absent
        ELSE d[p]
  BY DEF ApplyPatch
<1>2. CASE \E s \in patch.set : Below(s, p)
  BY <1>1, <1>2
<1>3. CASE ~\E s \in patch.set : Below(s, p)
  BY <1>1, <1>3
<1> QED
  BY <1>2, <1>3

\* The update may be of another document than the one checked; its fields were.
LEMMA UpdateStaysInside ==
    ASSUME AccessInv, ~access.full, NEW w \in writing, w.byUser, Update(w)
    PROVE  InsideFields /\ (doc = w.old => InsideFilters)
<1> DEFINE before == IF doc = NoDoc THEN EmptyDoc ELSE doc
<1>1. PassedCheck(w) /\ w.patch \in Patch /\ w.patch.set \subseteq Paths /\ w.patch.unset \subseteq Paths
  BY DEF AccessInv, Write, Patch
<1>2. access.write.fields \in FieldList
  BY MergedAccessIsTyped DEF AccessInv, setup
<1>3. before \in Doc
  BY EmptyDocIsDoc DEF AccessInv
<1>4. w.action = "update" /\ doc' = ApplyPatch(before, w.patch) /\ doc' = Patched(doc, w.patch)
  BY DEF Update, Patched
<1>5. \A p \in Paths : before[p] = IF doc = NoDoc THEN Absent ELSE doc[p]
  BY EmptyDocIsDoc
<1>6. \A p \in Paths : before[p] # Absent => \A s \in w.patch.set : ~Below(s, p)
  BY <1>5 DEF Update, Fits
<1> HIDE DEF before
<1>7. ASSUME NEW p \in Paths, doc'[p] # before[p]
      PROVE  IsAllowedField(p, access.write.fields)
  <2>1. PICK s \in w.patch.set \cup w.patch.unset : Within(p, s)
    BY <1>1, <1>3, <1>4, <1>6, <1>7, PatchChangesWithin
  <2> QED
    BY <1>1, <1>2, <2>1, AllowedIsClosed DEF PassedCheck
<1>8. InsideFields
  BY <1>5, <1>7 DEF InsideFields
<1>9. ASSUME doc = w.old PROVE InsideFilters
  <2>1. PICK f \in access.write.filters :
            MatchesAccessFilter(IF w.old = NoDoc THEN Patched(NoDoc, w.patch) ELSE w.old, f)
    BY <1>1, <1>4 DEF PassedCheck
  <2>2. (IF w.old = NoDoc THEN Patched(NoDoc, w.patch) ELSE w.old)
            = IF doc = NoDoc THEN doc' ELSE doc
    BY <1>4, <1>9
  <2> QED
    BY <2>1, <2>2 DEF InsideFilters
<1> QED
  BY <1>8, <1>9

\* A write of the user changes nothing outside the user's write_fields, whatever objects
\* it sets, unsets or opens and whatever others write meanwhile, and is of a document the
\* write access selects, unless another write came in between: for every access, document
\* and patch.
THEOREM UsersWriteWhatTheyMay == Spec => WritesStayInside
<1> DEFINE Inside ==
      ~access.full =>
        /\ \A w \in writing : w.byUser /\ (Update(w) \/ RemoveDoc(w)) =>
            InsideFields /\ (doc = w.old => InsideFilters)
        /\ \A d \in Starts : Add(d, TRUE) => InsideFields /\ InsideFilters
<1>1. AccessInv => Inside
  <2> SUFFICES ASSUME AccessInv, ~access.full PROVE Inside
    OBVIOUS
  <2>1. ASSUME NEW w \in writing, w.byUser, RemoveDoc(w)
        PROVE  InsideFields /\ (doc = w.old => InsideFilters)
    <3>1. w.action = "delete" /\ doc' = NoDoc /\ PassedCheck(w)
      BY <2>1 DEF RemoveDoc, AccessInv
    <3>2. PICK f \in access.write.filters : MatchesAccessFilter(w.old, f)
      BY <3>1 DEF PassedCheck
    <3>3. doc = w.old => (IF doc = NoDoc THEN doc' ELSE doc) = w.old
      BY <3>1
    <3> QED
      BY <3>1, <3>2, <3>3 DEF InsideFields, InsideFilters
  <2>2. ASSUME NEW d \in Starts, Add(d, TRUE) PROVE InsideFields /\ InsideFilters
    <3>1. doc = NoDoc /\ doc' = d /\ MayWrite(d, ChangeWritePaths(NoPatch, d))
      BY <2>2 DEF Add
    <3> QED
      BY <3>1, MayWriteMeans DEF ChangeWritePaths, ObjectPaths, InsideFields, InsideFilters
  <2> QED
    BY <2>1, <2>2, UpdateStaysInside
<1>2. AccessInv => [Inside]_vars
  BY <1>1
<1> QED
  BY <1>2, AlwaysAccessInv, PTL DEF WritesStayInside

-----------------------------------------------------------------------------
(* The files of hooks and methods.                                         *)

\* Entries and the copies calls hold: the version loaded is the one the mtime names or a
\* later one, and one the file has had.
LoadedFrom(e) == e # NoEntry => e.mtime <= e.version /\ e.version <= file.version

\* Versions are replaced one after the other.
GoneInOrder ==
    /\ \A v \in Version :
        /\ v > file.version \/ (v = file.version /\ file.there) => gone[v] = Never
        /\ v < file.version \/ (v = file.version /\ ~file.there) => gone[v] <= clock
    /\ \A v, w \in Version : v <= w => gone[v] <= gone[w]

\* What the interpreter keeps for an mtime is that version or a later one.
ImportsLater ==
    \A m \in Version : imported[m] # None => m <= imported[m] /\ imported[m] <= file.version

\* An entry that was looked at was loaded of a file replaced at most one load before.
EntryFresh ==
    /\ LoadedFrom(entry) /\ entry.checkedAt <= clock
    /\ entry # NoEntry /\ ~entry.unseen => gone[entry.version] + MaxLoad >= entry.checkedAt

CallsFresh ==
    \A c \in Callers :
        /\ LoadedFrom(call[c].held)
        /\ call[c].live =>
            /\ entry # NoEntry /\ call[c].held # NoEntry
            /\ call[c].held.mtime = entry.mtime /\ call[c].held.version = entry.version
        /\ call[c].stage # "idle" => call[c].began <= clock
        /\ call[c].stage = "import" =>
            /\ call[c].mtime \in Version /\ call[c].mtime <= file.version
            /\ gone[call[c].mtime] >= call[c].began

AnswerFresh ==
    /\ answer.began <= clock
    /\ answer.what = "ran" =>
        /\ answer.version \in Version /\ answer.version <= file.version
        /\ ~answer.unseen => gone[answer.version] + Every + MaxLoad > answer.began

FilesInv ==
    /\ FileTypeOK /\ GoneInOrder /\ ImportsLater /\ EntryFresh /\ CallsFresh /\ AnswerFresh
    /\ HookNeverSilenced

LEMMA FileNumbers ==
    /\ Every \in Nat /\ MaxLoad \in Nat /\ MaxLoad > 0 /\ MaxClock \in Nat /\ MaxEdits \in Nat
    /\ Never = MaxClock + 1 /\ Version = 1 .. MaxEdits /\ 1 \in Version /\ None = 0
    /\ NoEntry.mtime = 0 /\ NoEntry.version = 0
    /\ \A e \in Entry \cup {NoEntry} :
          /\ e # NoEntry <=> e.mtime # 0
          /\ e # NoEntry => e \in Entry /\ e.mtime \in Version /\ e.version \in Version
          /\ e.checkedAt \in Nat /\ e.checkedAt <= MaxClock
BY FileBounds DEF Never, Version, None, NoEntry, Entry

CallType == [stage : {"idle", "stat", "import"}, began : 0 .. MaxClock,
             held : Entry \cup {NoEntry}, live : BOOLEAN, mtime : Version \cup {None}]
AnswerType == [what : {"none", "ran", "threw", "passed"}, version : Version \cup {None},
               began : 0 .. MaxClock, unseen : BOOLEAN]

LEMMA FileConstants ==
    /\ NotCalling \in CallType /\ NoAnswer \in AnswerType
    /\ NotCalling.stage = "idle" /\ ~NotCalling.live /\ NotCalling.held = NoEntry
    /\ NoAnswer.what = "none" /\ NoAnswer.began = 0
BY FileNumbers DEF NotCalling, CallType, NoAnswer, AnswerType

\* The types, and the numbers of a state.
LEMMA FileFacts ==
    ASSUME FileTypeOK
    PROVE  /\ clock \in Nat /\ clock <= MaxClock /\ file.version \in Version
           /\ file \in [there : BOOLEAN, version : Version] /\ gone \in [Version -> 0 .. Never]
           /\ imported \in [Version -> Version \cup {None}] /\ entry \in Entry \cup {NoEntry}
           /\ call \in [Callers -> CallType] /\ answer \in AnswerType
           /\ \A v \in Version : gone[v] \in Nat /\ imported[v] \in Nat /\ v \in Nat
           /\ \A c \in Callers :
                /\ call[c] \in CallType /\ call[c].began \in Nat /\ call[c].mtime \in Nat
                /\ call[c].held \in Entry \cup {NoEntry}
                /\ call[c].stage # "idle" => clock - call[c].began <= MaxLoad
           /\ answer.began \in Nat /\ answer.version \in Nat
BY FileNumbers DEF FileTypeOK, CallType, AnswerType

\* Of these, the ones about numbers.
LEMMA FileNats ==
    ASSUME FilesInv
    PROVE  /\ clock \in Nat /\ clock <= MaxClock /\ Every \in Nat /\ MaxLoad \in Nat /\ MaxLoad > 0
           /\ MaxClock \in Nat /\ Never = MaxClock + 1
           /\ file.version \in Version /\ file.there \in BOOLEAN
           /\ \A v \in Version : gone[v] \in Nat /\ gone[v] <= Never /\ v \in Nat /\ v # 0
           /\ \A c \in Callers : call[c].began \in Nat
           /\ answer.began \in Nat /\ entry.checkedAt \in Nat
           /\ entry # NoEntry => entry.mtime \in Version /\ entry.version \in Version
           /\ \A c \in Callers : call[c].held # NoEntry =>
                 call[c].held.mtime \in Version /\ call[c].held.version \in Version
<1>1. FileTypeOK
  BY DEF FilesInv
<1>2. /\ clock \in Nat /\ clock <= MaxClock
      /\ file.version \in Version /\ file.there \in BOOLEAN
      /\ \A c \in Callers : call[c].began \in Nat
      /\ answer.began \in Nat
  BY <1>1, FileFacts
<1>3. \A v \in Version : gone[v] \in Nat /\ gone[v] <= Never /\ v \in Nat /\ v # 0
  BY <1>1, FileFacts, FileNumbers
<1>4. entry \in Entry \cup {NoEntry} /\ \A c \in Callers : call[c].held \in Entry \cup {NoEntry}
  BY <1>1, FileFacts
<1> QED
  BY <1>2, <1>3, <1>4, FileNumbers

LEMMA FilesInvInit == FileInit => FilesInv
<1> SUFFICES ASSUME FileInit PROVE FilesInv
  OBVIOUS
<1> USE FileNumbers, FileConstants
<1>1. /\ clock = 0 /\ file.version = 1 /\ file.there \in BOOLEAN
      /\ file \in [there : BOOLEAN, version : Version]
      /\ gone = [v \in Version |-> IF v = 1 /\ ~file.there THEN 0 ELSE Never]
      /\ scanned = "unread" /\ imported = [v \in Version |-> None]
      /\ entry = NoEntry /\ call = [c \in Callers |-> NotCalling] /\ answer = NoAnswer
      /\ kind \in {"hook", "method"}
  BY DEF FileInit
<1>2. FileTypeOK
  BY <1>1 DEF FileTypeOK, CallType, AnswerType
<1>3. GoneInOrder
  BY <1>1 DEF GoneInOrder
<1>4. ImportsLater /\ EntryFresh /\ AnswerFresh /\ HookNeverSilenced
  <2>1. NoEntry.checkedAt = 0
    BY DEF NoEntry
  <2> QED
    BY <1>1, <2>1 DEF ImportsLater, EntryFresh, LoadedFrom, AnswerFresh, HookNeverSilenced
<1>5. CallsFresh
  BY <1>1 DEF CallsFresh, LoadedFrom
<1> QED
  BY <1>2, <1>3, <1>4, <1>5 DEF FilesInv

\* The parts of the invariant that are about calls and the cache, with the file fixed.
LEMMA AnsweredMeans ==
    ASSUME FilesInv, NEW c \in Callers, NEW what \in {"ran", "threw", "passed"},
           NEW version \in Version \cup {None}, NEW unseen \in BOOLEAN,
           Answered(c, what, version, unseen)
    PROVE  /\ call' \in [Callers -> CallType] /\ answer' \in AnswerType
           /\ call'[c] = NotCalling /\ \A d \in Callers : d # c => call'[d] = call[d]
           /\ answer'.what = what /\ answer'.version = version /\ answer'.unseen = unseen
           /\ answer'.began <= clock /\ answer'.began \in Nat
           /\ call[c].stage = "idle" => answer'.began = clock
           /\ call[c].stage # "idle" => answer'.began = call[c].began
<1>1. call \in [Callers -> CallType] /\ clock \in Nat /\ clock <= MaxClock
      /\ call[c] \in CallType /\ call[c].began \in Nat /\ call[c].began \in 0 .. MaxClock
      /\ clock \in 0 .. MaxClock
  BY FileFacts, FileNumbers DEF FilesInv, CallType
<1>2. call[c].stage # "idle" => call[c].began <= clock
  BY DEF FilesInv, CallsFresh
<1> DEFINE began == IF call[c].stage = "idle" THEN clock ELSE call[c].began
<1>3. began \in 0 .. MaxClock /\ began <= clock /\ began \in Nat
  BY <1>1, <1>2
<1>4. answer' = [what |-> what, version |-> version, unseen |-> unseen, began |-> began]
      /\ call' = [call EXCEPT ![c] = NotCalling]
  BY DEF Answered
<1> HIDE DEF began
<1>5. answer' \in AnswerType
  BY <1>3, <1>4 DEF AnswerType
<1>6. call' \in [Callers -> CallType] /\ call'[c] = NotCalling
      /\ \A d \in Callers : d # c => call'[d] = call[d]
  BY <1>1, <1>4, FileConstants
<1> QED
  BY <1>3, <1>4, <1>5, <1>6 DEF began

\* A step of a call that leaves the file, the clock and the scan alone keeps the types when
\* what it writes has its type, and every call stays as young as it was.
LEMMA CallStepTypes ==
    ASSUME FilesInv, UNCHANGED <<kind, clock, file, gone, scanned>>,
           imported' \in [Version -> Version \cup {None}], entry' \in Entry \cup {NoEntry},
           call' \in [Callers -> CallType], answer' \in AnswerType,
           \A d \in Callers : call'[d].stage # "idle" =>
               \/ call'[d].began = clock
               \/ call[d].stage # "idle" /\ call'[d].began = call[d].began
    PROVE  FileTypeOK' /\ GoneInOrder'
<1>1. FileTypeOK /\ GoneInOrder
  BY DEF FilesInv
<1>2. \A d \in Callers : call'[d].stage # "idle" => clock' - call'[d].began <= MaxLoad
  BY <1>1, FileNats DEF FileTypeOK
<1>3. FileTypeOK'
  BY <1>1, <1>2 DEF FileTypeOK, CallType, AnswerType
<1>4. GoneInOrder'
  BY <1>1 DEF GoneInOrder
<1> QED
  BY <1>3, <1>4

\* A version that is at least another was replaced no earlier.
LEMMA LaterGoneLater ==
    ASSUME FilesInv, NEW v \in Version, NEW w \in Version, v <= w
    PROVE  gone[v] <= gone[w]
BY DEF FilesInv, GoneInOrder

LEMMA PutFileKeeps == FilesInv /\ PutFile => FilesInv'
<1> SUFFICES ASSUME FilesInv, PutFile PROVE FilesInv'
  OBVIOUS
<1> USE FileNats
<1>1. FileTypeOK /\ GoneInOrder /\ ImportsLater /\ EntryFresh /\ CallsFresh /\ AnswerFresh
      /\ HookNeverSilenced
  BY DEF FilesInv
<1>2. /\ UNCHANGED <<kind, clock, scanned, imported, entry, call, answer>>
      /\ file.version < MaxEdits
      /\ file' = [there |-> TRUE, version |-> file.version + 1]
      /\ gone' = IF file.there THEN [gone EXCEPT ![file.version] = clock] ELSE gone
  BY DEF PutFile, memory
<1>3. /\ file.version + 1 \in Version /\ file'.there = TRUE /\ file'.version = file.version + 1
      /\ file' \in [there : BOOLEAN, version : Version]
  <2>1. file.version + 1 \in Version
    BY <1>2, FileNumbers
  <2> QED
    BY <1>2, <2>1
<1>4. gone \in [Version -> 0 .. Never] /\ clock \in 0 .. Never
  BY <1>1, FileFacts
<1>5. /\ gone' \in [Version -> 0 .. Never]
      /\ \A v \in Version : v # file.version => gone'[v] = gone[v]
      /\ gone'[file.version] = IF file.there THEN clock ELSE gone[file.version]
  <2>1. CASE file.there
    BY <1>2, <1>4, <2>1
  <2>2. CASE ~file.there
    BY <1>2, <1>4, <2>2
  <2> QED
    BY <2>1, <2>2
<1>6. FileTypeOK'
  BY <1>1, <1>2, <1>3, <1>5 DEF FileTypeOK
<1>7. gone'[file.version] <= clock /\ gone'[file.version] \in Nat
  BY <1>1, <1>5 DEF GoneInOrder
<1>8. GoneInOrder'
  <2>1. \A v \in Version :
          /\ v > file.version => gone'[v] = Never
          /\ v <= file.version => gone'[v] <= clock
    BY <1>1, <1>5, <1>7 DEF GoneInOrder
  <2>2. \A v, w \in Version : v <= w => gone'[v] <= gone'[w]
    <3> SUFFICES ASSUME NEW v \in Version, NEW w \in Version, v <= w PROVE gone'[v] <= gone'[w]
      OBVIOUS
    <3>1. gone[v] <= gone[w] /\ gone[w] \in Nat /\ gone[v] \in Nat
      BY <1>1 DEF GoneInOrder
    <3>2. CASE w > file.version
      BY <1>5, <1>7, <2>1, <3>1, <3>2
    <3>3. CASE w < file.version
      BY <1>5, <3>1, <3>3
    <3>4. CASE w = file.version
      <4>1. CASE v = w
        BY <4>1, <1>7, <3>4
      <4>2. CASE v < w
        <5>1. gone[v] <= clock
          BY <1>1, <3>4, <4>2 DEF GoneInOrder
        <5> QED
          BY <1>5, <3>1, <3>4, <4>2, <5>1
      <4> QED
        BY <4>1, <4>2
    <3> QED
      BY <3>2, <3>3, <3>4
  <2> QED
    BY <1>2, <1>3, <2>1, <2>2 DEF GoneInOrder
<1>9. \A v \in Version : gone'[v] = gone[v] \/ (gone'[v] = clock /\ file.there)
  BY <1>5
<1>10. ImportsLater'
  BY <1>1, <1>2, <1>3, FileFacts DEF ImportsLater
<1>11. EntryFresh'
  BY <1>1, <1>2, <1>3, <1>9 DEF EntryFresh, LoadedFrom
<1>12. CallsFresh'
  <2> SUFFICES ASSUME NEW c \in Callers
               PROVE  /\ LoadedFrom(call[c].held)'
                      /\ call[c].stage = "import" =>
                            call[c].mtime <= file'.version /\ gone'[call[c].mtime] >= call[c].began
    BY <1>1, <1>2 DEF CallsFresh
  <2>1. LoadedFrom(call[c].held)'
    BY <1>1, <1>2, <1>3 DEF CallsFresh, LoadedFrom
  <2>2. ASSUME call[c].stage = "import"
        PROVE  call[c].mtime <= file'.version /\ gone'[call[c].mtime] >= call[c].began
    BY <1>1, <1>3, <1>9, <2>2 DEF CallsFresh
  <2> QED
    BY <2>1, <2>2
<1>13. AnswerFresh' /\ HookNeverSilenced'
  <2>1. HookNeverSilenced'
    BY <1>1, <1>2 DEF HookNeverSilenced
  <2>2. AnswerFresh'
    BY <1>1, <1>2, <1>3, <1>9 DEF AnswerFresh
  <2> QED
    BY <2>1, <2>2
<1> QED
  BY <1>6, <1>8, <1>10, <1>11, <1>12, <1>13 DEF FilesInv

LEMMA DeleteFileKeeps == FilesInv /\ DeleteFile => FilesInv'
<1> SUFFICES ASSUME FilesInv, DeleteFile PROVE FilesInv'
  OBVIOUS
<1> USE FileNats
<1>1. FileTypeOK /\ GoneInOrder /\ ImportsLater /\ EntryFresh /\ CallsFresh /\ AnswerFresh
      /\ HookNeverSilenced
  BY DEF FilesInv
<1>2. /\ UNCHANGED <<kind, clock, scanned, imported, entry, call, answer>>
      /\ file.there /\ file'.there = FALSE /\ file'.version = file.version
      /\ file' \in [there : BOOLEAN, version : Version]
      /\ gone' = [gone EXCEPT ![file.version] = clock]
  BY <1>1, FileFacts DEF DeleteFile, memory
<1>3. gone \in [Version -> 0 .. Never] /\ clock \in 0 .. Never
  BY <1>1, FileFacts
<1>4. /\ gone' \in [Version -> 0 .. Never] /\ gone'[file.version] = clock
      /\ \A v \in Version : v # file.version => gone'[v] = gone[v]
  BY <1>2, <1>3
<1>5. FileTypeOK'
  BY <1>1, <1>2, <1>4 DEF FileTypeOK
<1>6. GoneInOrder'
  <2>1. \A v \in Version :
          /\ v > file.version => gone'[v] = Never
          /\ v <= file.version => gone'[v] <= clock
    BY <1>1, <1>4 DEF GoneInOrder
  <2>2. \A v, w \in Version : v <= w => gone'[v] <= gone'[w]
    <3> SUFFICES ASSUME NEW v \in Version, NEW w \in Version, v <= w PROVE gone'[v] <= gone'[w]
      OBVIOUS
    <3>1. gone[v] <= gone[w] /\ gone[w] \in Nat /\ gone[v] \in Nat
      BY <1>1 DEF GoneInOrder
    <3>2. CASE w > file.version
      BY <1>4, <2>1, <3>1, <3>2
    <3>3. CASE w <= file.version
      BY <1>1, <1>4, <2>1, <3>1, <3>3
    <3> QED
      BY <3>2, <3>3
  <2> QED
    BY <1>2, <2>1, <2>2 DEF GoneInOrder
<1>7. \A v \in Version : gone'[v] = gone[v] \/ gone'[v] = clock
  BY <1>4
<1>8. ImportsLater'
  BY <1>1, <1>2 DEF ImportsLater
<1>9. EntryFresh'
  BY <1>1, <1>2, <1>7 DEF EntryFresh, LoadedFrom
<1>10. CallsFresh'
  <2> SUFFICES ASSUME NEW c \in Callers
               PROVE  call[c].stage = "import" => gone'[call[c].mtime] >= call[c].began
    BY <1>1, <1>2 DEF CallsFresh, LoadedFrom
  <2> QED
    BY <1>1, <1>7 DEF CallsFresh
<1>11. AnswerFresh' /\ HookNeverSilenced'
  <2>1. HookNeverSilenced'
    BY <1>1, <1>2 DEF HookNeverSilenced
  <2>2. AnswerFresh'
    BY <1>1, <1>2, <1>7 DEF AnswerFresh
  <2> QED
    BY <2>1, <2>2
<1> QED
  BY <1>5, <1>6, <1>8, <1>9, <1>10, <1>11 DEF FilesInv

LEMMA ClockKeeps == FilesInv /\ ClockTicks => FilesInv'
<1> SUFFICES ASSUME FilesInv, ClockTicks PROVE FilesInv'
  OBVIOUS
<1> USE FileNats
<1>1. FileTypeOK /\ GoneInOrder /\ ImportsLater /\ EntryFresh /\ CallsFresh /\ AnswerFresh
      /\ HookNeverSilenced
  BY DEF FilesInv
<1>2. /\ UNCHANGED <<kind, file, gone, scanned, imported, entry, call, answer>>
      /\ clock' = clock + 1 /\ clock < MaxClock
      /\ \A c \in Callers : call[c].stage # "idle" => clock - call[c].began < MaxLoad
  BY DEF ClockTicks, memory
<1>3. \A c \in Callers : call'[c].stage # "idle" => clock' - call'[c].began <= MaxLoad
  BY <1>2
<1>4. FileTypeOK'
  <2>1. clock' \in 0 .. MaxClock
    BY <1>2
  <2> QED
    BY <1>1, <1>2, <1>3, <2>1 DEF FileTypeOK
<1>5. GoneInOrder'
  <2>1. \A v \in Version : gone[v] <= clock => gone'[v] <= clock'
    BY <1>2
  <2> QED
    BY <1>1, <1>2, <2>1 DEF GoneInOrder
<1>6. ImportsLater' /\ HookNeverSilenced'
  BY <1>1, <1>2 DEF ImportsLater, HookNeverSilenced
<1>7. EntryFresh' /\ AnswerFresh'
  BY <1>1, <1>2 DEF EntryFresh, LoadedFrom, AnswerFresh
<1>8. CallsFresh'
  <2>1. \A c \in Callers : call[c].began <= clock => call'[c].began <= clock'
    BY <1>2
  <2> QED
    BY <1>1, <1>2, <2>1 DEF CallsFresh, LoadedFrom
<1> QED
  BY <1>4, <1>5, <1>6, <1>7, <1>8 DEF FilesInv

LEMMA RestartKeeps == FilesInv /\ Restart => FilesInv'
<1> SUFFICES ASSUME FilesInv, Restart PROVE FilesInv'
  OBVIOUS
<1> USE FileNumbers, FileFacts, FileConstants
<1>1. FileTypeOK /\ GoneInOrder
  BY DEF FilesInv
<1>2. /\ UNCHANGED <<kind, clock, file, gone>> /\ scanned' = "unread"
      /\ imported' = [v \in Version |-> None] /\ entry' = NoEntry
      /\ call' = [c \in Callers |-> NotCalling] /\ answer' = NoAnswer
  BY DEF Restart
<1>3. FileTypeOK'
  BY <1>1, <1>2 DEF FileTypeOK, CallType, AnswerType
<1>4. GoneInOrder'
  BY <1>1, <1>2 DEF GoneInOrder
<1>5. ImportsLater' /\ AnswerFresh' /\ HookNeverSilenced'
  BY <1>1, <1>2 DEF ImportsLater, AnswerFresh, HookNeverSilenced
<1>6. EntryFresh'
  <2>1. NoEntry.checkedAt = 0
    BY DEF NoEntry
  <2> QED
    BY <1>1, <1>2, <2>1 DEF EntryFresh, LoadedFrom
<1>7. CallsFresh'
  BY <1>2 DEF CallsFresh, LoadedFrom
<1> QED
  BY <1>3, <1>4, <1>5, <1>6, <1>7 DEF FilesInv

LEMMA ScanKeeps == FilesInv /\ ScanHooksDir => FilesInv'
<1> SUFFICES ASSUME FilesInv, ScanHooksDir PROVE FilesInv'
  OBVIOUS
<1>1. FileTypeOK /\ GoneInOrder /\ ImportsLater /\ EntryFresh /\ CallsFresh /\ AnswerFresh
      /\ HookNeverSilenced
  BY DEF FilesInv
<1>2. /\ UNCHANGED <<kind, clock, file, gone, imported, entry, call, answer>>
      /\ kind = "hook" /\ scanned = "unread" /\ scanned' \in {"found", "absent", "failed"}
  BY DEF ScanHooksDir
<1>3. FileTypeOK'
  BY <1>1, <1>2 DEF FileTypeOK
<1>4. GoneInOrder' /\ ImportsLater' /\ EntryFresh' /\ CallsFresh' /\ AnswerFresh'
  BY <1>1, <1>2 DEF GoneInOrder, ImportsLater, EntryFresh, LoadedFrom, CallsFresh, AnswerFresh
<1>5. HookNeverSilenced'
  BY <1>1, <1>2 DEF HookNeverSilenced
<1> QED
  BY <1>3, <1>4, <1>5 DEF FilesInv

\* What is left of the invariant after a step of a call that changes neither the file, nor
\* the clock, nor the scan: the imports, the entry, the calls and the answer.
LEMMA CallStep ==
    ASSUME FilesInv, UNCHANGED <<kind, clock, file, gone, scanned>>,
           imported' \in [Version -> Version \cup {None}], entry' \in Entry \cup {NoEntry},
           call' \in [Callers -> CallType], answer' \in AnswerType,
           \A d \in Callers : call'[d].stage # "idle" =>
               \/ call'[d].began = clock
               \/ call[d].stage # "idle" /\ call'[d].began = call[d].began,
           ImportsLater', EntryFresh', CallsFresh', AnswerFresh', HookNeverSilenced'
    PROVE  FilesInv'
BY CallStepTypes DEF FilesInv

LEMMA CallNoHookKeeps ==
    ASSUME FilesInv, NEW c \in Callers, CallNoHook(c)
    PROVE  FilesInv'
<1>1. FileTypeOK /\ GoneInOrder /\ ImportsLater /\ EntryFresh /\ CallsFresh /\ AnswerFresh
      /\ HookNeverSilenced
  BY DEF FilesInv
<1> DEFINE what == IF scanned = "absent" THEN "passed" ELSE "threw"
<1>2. /\ UNCHANGED <<kind, clock, file, gone, scanned, imported, entry>>
      /\ Answered(c, what, None, FALSE)
  BY DEF CallNoHook
<1>3. what \in {"ran", "threw", "passed"} /\ what # "ran"
      /\ (what = "passed" => scanned = "absent")
  OBVIOUS
<1> HIDE DEF what
<1>4. /\ call' \in [Callers -> CallType] /\ answer' \in AnswerType
      /\ call'[c] = NotCalling /\ \A d \in Callers : d # c => call'[d] = call[d]
      /\ answer'.what = what /\ answer'.began <= clock
  BY <1>2, <1>3, AnsweredMeans
<1>5. imported \in [Version -> Version \cup {None}] /\ entry \in Entry \cup {NoEntry}
  BY <1>1, FileFacts
<1>6. ImportsLater' /\ EntryFresh'
  BY <1>1, <1>2 DEF ImportsLater, EntryFresh, LoadedFrom
<1>7. CallsFresh'
  BY <1>1, <1>2, <1>4, FileConstants DEF CallsFresh, LoadedFrom
<1>8. AnswerFresh' /\ HookNeverSilenced'
  BY <1>2, <1>3, <1>4 DEF AnswerFresh, HookNeverSilenced
<1> QED
  BY <1>2, <1>4, <1>5, <1>6, <1>7, <1>8, FileConstants, CallStep

LEMMA CallCachedKeeps ==
    ASSUME FilesInv, NEW c \in Callers, CallCached(c)
    PROVE  FilesInv'
<1>1. FileTypeOK /\ GoneInOrder /\ ImportsLater /\ EntryFresh /\ CallsFresh /\ AnswerFresh
      /\ HookNeverSilenced
  BY DEF FilesInv
<1>2. /\ UNCHANGED <<kind, clock, file, gone, scanned, imported, entry>>
      /\ Answered(c, "ran", entry.version, entry.unseen)
      /\ call[c].stage = "idle" /\ entry # NoEntry /\ clock - entry.checkedAt < Every
  BY DEF CallCached, Callable, IsFresh
<1>3. imported \in [Version -> Version \cup {None}] /\ entry \in Entry \cup {NoEntry}
  BY <1>1, FileFacts
<1>4. entry.version \in Version /\ entry.unseen \in BOOLEAN
  BY <1>2, <1>3 DEF Entry
<1>5. /\ call' \in [Callers -> CallType] /\ answer' \in AnswerType
      /\ call'[c] = NotCalling /\ \A d \in Callers : d # c => call'[d] = call[d]
      /\ answer'.what = "ran" /\ answer'.began = clock
      /\ answer'.version = entry.version /\ answer'.unseen = entry.unseen
  BY <1>2, <1>4, AnsweredMeans
<1>6. ImportsLater' /\ EntryFresh'
  BY <1>1, <1>2 DEF ImportsLater, EntryFresh, LoadedFrom
<1>7. CallsFresh'
  BY <1>1, <1>2, <1>5, FileConstants DEF CallsFresh, LoadedFrom
<1>8. AnswerFresh'
  <2>1. entry.version <= file.version
    BY <1>1, <1>2 DEF EntryFresh, LoadedFrom
  <2>2. ~entry.unseen => gone[entry.version] + Every + MaxLoad > clock
    BY <1>1, <1>2, <1>4, FileNats DEF EntryFresh
  <2>3. clock \in Nat
    BY FileNats
  <2> QED
    BY <1>2, <1>4, <1>5, <2>1, <2>2, <2>3 DEF AnswerFresh
<1>9. HookNeverSilenced'
  BY <1>5 DEF HookNeverSilenced
<1> QED
  BY <1>2, <1>3, <1>5, <1>6, <1>7, <1>8, <1>9, FileConstants, CallStep

LEMMA CallStatKeeps ==
    ASSUME FilesInv, NEW c \in Callers, CallStat(c)
    PROVE  FilesInv'
<1>1. FileTypeOK /\ GoneInOrder /\ ImportsLater /\ EntryFresh /\ CallsFresh /\ AnswerFresh
      /\ HookNeverSilenced
  BY DEF FilesInv
<1> DEFINE started == [NotCalling EXCEPT !.stage = "stat", !.began = clock,
                                         !.held = entry, !.live = entry # NoEntry]
<1>2. /\ UNCHANGED <<kind, clock, file, gone, scanned, imported, entry, answer>>
      /\ call' = [call EXCEPT ![c] = started]
  BY DEF CallStat
<1>3. imported \in [Version -> Version \cup {None}] /\ entry \in Entry \cup {NoEntry}
      /\ call \in [Callers -> CallType] /\ answer \in AnswerType /\ clock \in 0 .. MaxClock
  BY <1>1, FileFacts, FileNumbers
<1>4. /\ started \in CallType /\ started.stage = "stat" /\ started.began = clock
      /\ started.held = entry /\ started.live = (entry # NoEntry)
  BY <1>3, FileConstants DEF CallType
<1> HIDE DEF started
<1>5. call' \in [Callers -> CallType] /\ call'[c] = started
      /\ \A d \in Callers : d # c => call'[d] = call[d]
  BY <1>2, <1>3, <1>4
<1>6. ImportsLater' /\ EntryFresh' /\ AnswerFresh' /\ HookNeverSilenced'
  BY <1>1, <1>2 DEF ImportsLater, EntryFresh, LoadedFrom, AnswerFresh, HookNeverSilenced
<1>7. CallsFresh'
  <2> SUFFICES ASSUME NEW d \in Callers
               PROVE  /\ LoadedFrom(call'[d].held)
                      /\ call'[d].live =>
                            /\ entry # NoEntry /\ call'[d].held # NoEntry
                            /\ call'[d].held.mtime = entry.mtime
                            /\ call'[d].held.version = entry.version
                      /\ call'[d].stage # "idle" => call'[d].began <= clock
                      /\ call'[d].stage = "import" =>
                            /\ call'[d].mtime \in Version /\ call'[d].mtime <= file.version
                            /\ gone[call'[d].mtime] >= call'[d].began
    BY <1>2 DEF CallsFresh, LoadedFrom
  <2>1. CASE d = c
    <3>1. LoadedFrom(entry) /\ clock <= clock
      BY <1>1, FileNats DEF EntryFresh
    <3>2. /\ call'[d].held = entry /\ call'[d].stage = "stat" /\ call'[d].began = clock
          /\ call'[d].live <=> entry # NoEntry
      BY <1>4, <1>5, <2>1
    <3> QED
      BY <3>1, <3>2
  <2>2. CASE d # c
    BY <1>1, <1>5, <2>2 DEF CallsFresh
  <2> QED
    BY <2>1, <2>2
<1> QED
  BY <1>2, <1>3, <1>4, <1>5, <1>6, <1>7, CallStep

LEMMA StatNewKeeps ==
    ASSUME FilesInv, NEW c \in Callers, StatNew(c)
    PROVE  FilesInv'
<1>1. FileTypeOK /\ GoneInOrder /\ ImportsLater /\ EntryFresh /\ CallsFresh /\ AnswerFresh
      /\ HookNeverSilenced
  BY DEF FilesInv
<1> DEFINE found == [call[c] EXCEPT !.stage = "import", !.mtime = file.version]
<1>2. /\ UNCHANGED <<kind, clock, file, gone, scanned, imported, entry, answer>>
      /\ call[c].stage = "stat" /\ file.there
      /\ call' = [call EXCEPT ![c].stage = "import", ![c].mtime = file.version]
  BY DEF StatNew
<1>3. imported \in [Version -> Version \cup {None}] /\ entry \in Entry \cup {NoEntry}
      /\ call \in [Callers -> CallType] /\ answer \in AnswerType /\ file.version \in Version
  BY <1>1, FileFacts
<1>4. /\ found \in CallType /\ found.stage = "import" /\ found.began = call[c].began
      /\ found.held = call[c].held /\ found.live = call[c].live /\ found.mtime = file.version
  BY <1>3 DEF CallType
<1>5. call' \in [Callers -> CallType] /\ call'[c] = found
      /\ \A d \in Callers : d # c => call'[d] = call[d]
  <2>1. call' = [call EXCEPT ![c] = found]
    BY <1>2, <1>3 DEF CallType
  <2> HIDE DEF found
  <2> QED
    BY <1>3, <1>4, <2>1
<1> HIDE DEF found
<1>6. ImportsLater' /\ EntryFresh' /\ AnswerFresh' /\ HookNeverSilenced'
  BY <1>1, <1>2 DEF ImportsLater, EntryFresh, LoadedFrom, AnswerFresh, HookNeverSilenced
<1>7. CallsFresh'
  <2> SUFFICES ASSUME NEW d \in Callers
               PROVE  /\ LoadedFrom(call'[d].held)
                      /\ call'[d].live =>
                            /\ entry # NoEntry /\ call'[d].held # NoEntry
                            /\ call'[d].held.mtime = entry.mtime
                            /\ call'[d].held.version = entry.version
                      /\ call'[d].stage # "idle" => call'[d].began <= clock
                      /\ call'[d].stage = "import" =>
                            /\ call'[d].mtime \in Version /\ call'[d].mtime <= file.version
                            /\ gone[call'[d].mtime] >= call'[d].began
    BY <1>2 DEF CallsFresh, LoadedFrom
  <2>1. CASE d = c
    <3>1. gone[file.version] >= call[c].began /\ file.version <= file.version
      <4>1. gone[file.version] = Never
        BY <1>1, <1>2, <1>3 DEF GoneInOrder
      <4>2. call[c].began <= clock
        BY <1>1, <1>2 DEF CallsFresh
      <4> QED
        BY <4>1, <4>2, FileNats
    <3>2. LoadedFrom(call[c].held) /\ call[c].began <= clock
          /\ (call[c].live =>
                /\ entry # NoEntry /\ call[c].held # NoEntry
                /\ call[c].held.mtime = entry.mtime /\ call[c].held.version = entry.version)
      BY <1>1, <1>2 DEF CallsFresh
    <3> QED
      BY <1>3, <1>4, <1>5, <2>1, <3>1, <3>2
  <2>2. CASE d # c
    BY <1>1, <1>5, <2>2 DEF CallsFresh
  <2> QED
    BY <2>1, <2>2
<1> QED
  BY <1>2, <1>3, <1>4, <1>5, <1>6, <1>7, CallStep

LEMMA StatFailsKeeps ==
    ASSUME FilesInv, NEW c \in Callers, StatFails(c)
    PROVE  FilesInv'
<1>1. FileTypeOK /\ GoneInOrder /\ ImportsLater /\ EntryFresh /\ CallsFresh /\ AnswerFresh
      /\ HookNeverSilenced
  BY DEF FilesInv
<1>2. /\ UNCHANGED <<kind, clock, file, gone, scanned, imported>> /\ call[c].stage = "stat"
      /\ \/ kind = "method" /\ Answered(c, "passed", None, FALSE) /\ UNCHANGED entry
         \/ kind # "method" /\ Answered(c, "threw", None, FALSE) /\ UNCHANGED entry
         \/ /\ kind # "method" /\ call[c].held # NoEntry
            /\ Answered(c, "ran", call[c].held.version, TRUE) /\ Checked(c, TRUE)
  BY DEF StatFails
<1>3. imported \in [Version -> Version \cup {None}] /\ entry \in Entry \cup {NoEntry}
      /\ clock \in 0 .. MaxClock
  BY <1>1, FileFacts, FileNumbers
<1>4. /\ call' \in [Callers -> CallType] /\ answer' \in AnswerType
      /\ call'[c] = NotCalling /\ \A d \in Callers : d # c => call'[d] = call[d]
      /\ answer'.began <= clock
      /\ answer'.what = "ran" =>
            /\ call[c].held # NoEntry /\ answer'.version = call[c].held.version
            /\ answer'.unseen = TRUE
      /\ answer'.what = "passed" => kind = "method"
  <2>1. CASE Answered(c, "passed", None, FALSE) /\ kind = "method"
    BY <2>1, AnsweredMeans
  <2>2. CASE Answered(c, "threw", None, FALSE)
    BY <2>2, AnsweredMeans
  <2>3. CASE call[c].held # NoEntry /\ Answered(c, "ran", call[c].held.version, TRUE)
    <3>1. call[c].held.version \in Version
      BY <2>3, FileNats
    <3>2. /\ call' \in [Callers -> CallType] /\ answer' \in AnswerType
          /\ call'[c] = NotCalling /\ \A d \in Callers : d # c => call'[d] = call[d]
          /\ answer'.began <= clock /\ answer'.what = "ran"
          /\ answer'.version = call[c].held.version /\ answer'.unseen = TRUE
      BY <2>3, <3>1, AnsweredMeans
    <3> QED
      BY <2>3, <3>2
  <2> QED
    BY <1>2, <2>1, <2>2, <2>3
<1>5. entry' = entry \/ (/\ call[c].live /\ entry' = [entry EXCEPT !.checkedAt = clock,
                                                                 !.unseen = TRUE])
  BY <1>2 DEF Checked
<1>6. entry' \in Entry \cup {NoEntry} /\ EntryFresh'
      /\ entry'.mtime = entry.mtime /\ entry'.version = entry.version
      /\ (entry = NoEntry <=> entry' = NoEntry)
  <2>1. CASE entry' = entry
    BY <1>1, <1>2, <1>3, <2>1 DEF EntryFresh, LoadedFrom
  <2>2. CASE call[c].live /\ entry' = [entry EXCEPT !.checkedAt = clock, !.unseen = TRUE]
    <3>1. entry \in Entry /\ entry # NoEntry
      BY <1>1, <1>3, <2>2 DEF CallsFresh
    <3>2. /\ entry' \in Entry /\ entry'.mtime = entry.mtime /\ entry'.version = entry.version
          /\ entry'.unseen = TRUE /\ entry'.checkedAt = clock
      BY <1>3, <2>2, <3>1 DEF Entry
    <3>3. entry' # NoEntry
      BY <3>1, <3>2 DEF NoEntry
    <3> QED
      BY <1>1, <1>2, <3>1, <3>2, <3>3, FileNats DEF EntryFresh, LoadedFrom
  <2> QED
    BY <1>5, <2>1, <2>2
<1>7. ImportsLater' /\ HookNeverSilenced'
  BY <1>1, <1>2, <1>4 DEF ImportsLater, HookNeverSilenced
<1>8. CallsFresh'
  BY <1>1, <1>2, <1>4, <1>6, FileConstants DEF CallsFresh, LoadedFrom
<1>9. AnswerFresh'
  <2>1. answer'.what = "ran" => answer'.version \in Version /\ answer'.version <= file.version
    BY <1>1, <1>4, FileNats DEF CallsFresh, LoadedFrom
  <2> QED
    BY <1>2, <1>4, <2>1 DEF AnswerFresh
<1> QED
  BY <1>2, <1>3, <1>4, <1>6, <1>7, <1>8, <1>9, FileConstants, CallStep

LEMMA StatSameKeeps ==
    ASSUME FilesInv, NEW c \in Callers, StatSame(c)
    PROVE  FilesInv'
<1>1. FileTypeOK /\ GoneInOrder /\ ImportsLater /\ EntryFresh /\ CallsFresh /\ AnswerFresh
      /\ HookNeverSilenced
  BY DEF FilesInv
<1>2. /\ UNCHANGED <<kind, clock, file, gone, scanned, imported>> /\ call[c].stage = "stat"
      /\ file.there /\ call[c].held.mtime = file.version
      /\ Answered(c, "ran", call[c].held.version, FALSE) /\ Checked(c, FALSE)
  BY DEF StatSame
<1>3. imported \in [Version -> Version \cup {None}] /\ entry \in Entry \cup {NoEntry}
      /\ clock \in 0 .. MaxClock /\ call[c].held \in Entry \cup {NoEntry}
  BY <1>1, FileFacts, FileNumbers
<1>4. call[c].held # NoEntry /\ call[c].held.version = file.version
      /\ gone[file.version] = Never
  <2>1. call[c].held # NoEntry
    BY <1>2, FileNumbers, FileNats
  <2>2. call[c].held.version = file.version
    BY <1>1, <1>2, <2>1, FileNats, FileNumbers DEF CallsFresh, LoadedFrom
  <2> QED
    BY <1>1, <1>2, <2>1, <2>2, FileNats DEF GoneInOrder
<1>5. /\ call' \in [Callers -> CallType] /\ answer' \in AnswerType
      /\ call'[c] = NotCalling /\ \A d \in Callers : d # c => call'[d] = call[d]
      /\ answer'.began <= clock /\ answer'.what = "ran" /\ answer'.version = file.version
  BY <1>2, <1>4, FileNats, AnsweredMeans
<1>6. entry' = entry \/ (/\ call[c].live /\ entry' = [entry EXCEPT !.checkedAt = clock,
                                                                 !.unseen = FALSE])
  BY <1>2 DEF Checked
<1>7. entry' \in Entry \cup {NoEntry} /\ EntryFresh'
      /\ entry'.mtime = entry.mtime /\ entry'.version = entry.version
      /\ (entry = NoEntry <=> entry' = NoEntry)
  <2>1. CASE entry' = entry
    BY <1>1, <1>2, <1>3, <2>1 DEF EntryFresh, LoadedFrom
  <2>2. CASE call[c].live /\ entry' = [entry EXCEPT !.checkedAt = clock, !.unseen = FALSE]
    <3>1. entry \in Entry /\ entry # NoEntry /\ entry.version = file.version
      BY <1>1, <1>3, <1>4, <2>2 DEF CallsFresh
    <3>2. /\ entry' \in Entry /\ entry'.mtime = entry.mtime /\ entry'.version = entry.version
          /\ entry'.checkedAt = clock
      BY <1>3, <2>2, <3>1 DEF Entry
    <3>3. entry' # NoEntry
      BY <3>1, <3>2, FileNumbers DEF Entry
    <3>4. gone[entry.version] + MaxLoad >= clock /\ clock <= clock
      BY <1>4, <3>1, FileNats
    <3> QED
      BY <1>1, <1>2, <3>1, <3>2, <3>3, <3>4 DEF EntryFresh, LoadedFrom
  <2> QED
    BY <1>6, <2>1, <2>2
<1>8. ImportsLater' /\ HookNeverSilenced'
  BY <1>1, <1>2, <1>5 DEF ImportsLater, HookNeverSilenced
<1>9. CallsFresh'
  BY <1>1, <1>2, <1>5, <1>7, FileConstants DEF CallsFresh, LoadedFrom
<1>10. AnswerFresh'
  <2>1. gone[file.version] + Every + MaxLoad > answer'.began /\ file.version <= file.version
    <3>1. answer'.began \in 0 .. MaxClock
      BY <1>5 DEF AnswerType
    <3> QED
      BY <1>4, <1>5, <3>1, FileNats, FileNumbers
  <2> QED
    BY <1>2, <1>5, <2>1, FileNats DEF AnswerFresh
<1> QED
  BY <1>2, <1>3, <1>5, <1>7, <1>8, <1>9, <1>10, FileConstants, CallStep

LEMMA ImportKeeps ==
    ASSUME FilesInv, NEW c \in Callers, Import(c)
    PROVE  FilesInv'
<1>1. FileTypeOK /\ GoneInOrder /\ ImportsLater /\ EntryFresh /\ CallsFresh /\ AnswerFresh
      /\ HookNeverSilenced
  BY DEF FilesInv
<1> DEFINE mtime == call[c].mtime
           version == Imports(mtime)
<1>2. /\ UNCHANGED <<kind, clock, file, gone, scanned>> /\ call[c].stage = "import"
      /\ imported' = [imported EXCEPT ![mtime] = version]
      /\ entry' = [mtime |-> mtime, checkedAt |-> clock, version |-> version, unseen |-> FALSE]
      /\ answer' = [what |-> "ran", version |-> version, began |-> call[c].began,
                    unseen |-> FALSE]
      /\ call' = [d \in Callers |-> IF d = c THEN NotCalling
                                    ELSE [call[d] EXCEPT !.live = FALSE]]
  BY DEF Import
<1>3. imported \in [Version -> Version \cup {None}] /\ call \in [Callers -> CallType]
      /\ clock \in 0 .. MaxClock /\ call[c].began \in 0 .. MaxClock
  BY <1>1, FileFacts, FileNumbers DEF CallType
<1>4. /\ mtime \in Version /\ mtime <= file.version /\ gone[mtime] >= call[c].began
      /\ call[c].began <= clock /\ clock - call[c].began <= MaxLoad
  BY <1>1, <1>2, FileFacts DEF CallsFresh
<1>5. version \in Version /\ mtime <= version /\ version <= file.version
  <2>1. CASE imported[mtime] # None
    BY <1>1, <1>3, <1>4, <2>1, FileNumbers DEF Imports, ImportsLater
  <2>2. CASE imported[mtime] = None
    BY <1>4, <2>2, FileNats DEF Imports
  <2> QED
    BY <2>1, <2>2
<1> HIDE DEF mtime, version
<1>6. gone[version] >= call[c].began /\ gone[version] + MaxLoad >= clock
      /\ gone[version] + Every + MaxLoad > call[c].began
  <2>1. gone[mtime] <= gone[version]
    BY <1>4, <1>5, LaterGoneLater
  <2>2. call[c].began \in Nat
    BY FileNats
  <2> QED
    BY <1>4, <1>5, <2>1, <2>2, FileNats
<1>7. imported' \in [Version -> Version \cup {None}] /\ imported'[mtime] = version
      /\ \A m \in Version : m # mtime => imported'[m] = imported[m]
  BY <1>2, <1>3, <1>4, <1>5
<1>8. entry' \in Entry /\ entry'.mtime = mtime /\ entry'.version = version
      /\ entry'.checkedAt = clock /\ answer' \in AnswerType
  BY <1>2, <1>3, <1>4, <1>5 DEF Entry, AnswerType
<1>9. /\ call' \in [Callers -> CallType] /\ call'[c] = NotCalling
      /\ \A d \in Callers : d # c =>
            /\ call'[d].stage = call[d].stage /\ call'[d].began = call[d].began
            /\ call'[d].held = call[d].held /\ call'[d].mtime = call[d].mtime
            /\ call'[d].live = FALSE
  BY <1>2, <1>3, FileConstants DEF CallType
<1>10. ImportsLater'
  BY <1>1, <1>2, <1>5, <1>7 DEF ImportsLater
<1>11. EntryFresh'
  <2>1. clock <= clock
    BY FileNats
  <2> QED
    BY <1>2, <1>5, <1>6, <1>8, <2>1 DEF EntryFresh, LoadedFrom
<1>12. CallsFresh'
  <2> SUFFICES ASSUME NEW d \in Callers
               PROVE  /\ LoadedFrom(call'[d].held)
                      /\ call'[d].live = FALSE
                      /\ call'[d].stage # "idle" => call'[d].began <= clock
                      /\ call'[d].stage = "import" =>
                            /\ call'[d].mtime \in Version /\ call'[d].mtime <= file.version
                            /\ gone[call'[d].mtime] >= call'[d].began
    BY <1>2 DEF CallsFresh, LoadedFrom
  <2>1. CASE d = c
    BY <1>9, <2>1, FileConstants DEF LoadedFrom, NotCalling
  <2>2. CASE d # c
    BY <1>1, <1>9, <2>2 DEF CallsFresh
  <2> QED
    BY <2>1, <2>2
<1>13. AnswerFresh' /\ HookNeverSilenced'
  BY <1>2, <1>4, <1>5, <1>6 DEF AnswerFresh, HookNeverSilenced
<1> QED
  BY <1>2, <1>7, <1>8, <1>9, <1>10, <1>11, <1>12, <1>13, FileConstants, CallStep

LEMMA ImportFailsKeeps ==
    ASSUME FilesInv, NEW c \in Callers, ImportFails(c)
    PROVE  FilesInv'
<1>1. FileTypeOK /\ GoneInOrder /\ ImportsLater /\ EntryFresh /\ CallsFresh /\ AnswerFresh
      /\ HookNeverSilenced
  BY DEF FilesInv
<1> DEFINE mtime == call[c].mtime
           version == Imports(mtime)
<1>2. /\ UNCHANGED <<kind, clock, file, gone, scanned, entry>> /\ call[c].stage = "import"
      /\ Answered(c, "threw", None, FALSE)
      /\ imported' = imported \/ imported' = [imported EXCEPT ![mtime] = version]
  BY DEF ImportFails
<1>3. imported \in [Version -> Version \cup {None}] /\ entry \in Entry \cup {NoEntry}
  BY <1>1, FileFacts
<1>4. mtime \in Version /\ mtime <= file.version
  BY <1>1, <1>2 DEF CallsFresh
<1>5. version \in Version /\ mtime <= version /\ version <= file.version
  <2>1. CASE imported[mtime] # None
    BY <1>1, <1>3, <1>4, <2>1, FileNumbers DEF Imports, ImportsLater
  <2>2. CASE imported[mtime] = None
    BY <1>4, <2>2, FileNats DEF Imports
  <2> QED
    BY <2>1, <2>2
<1> HIDE DEF mtime, version
<1>6. imported' \in [Version -> Version \cup {None}]
      /\ \A m \in Version : imported'[m] = imported[m] \/ (m = mtime /\ imported'[m] = version)
  BY <1>2, <1>3, <1>4, <1>5
<1>7. /\ call' \in [Callers -> CallType] /\ answer' \in AnswerType
      /\ call'[c] = NotCalling /\ \A d \in Callers : d # c => call'[d] = call[d]
      /\ answer'.what = "threw" /\ answer'.began <= clock
  BY <1>2, AnsweredMeans
<1>8. ImportsLater'
  BY <1>1, <1>2, <1>5, <1>6 DEF ImportsLater
<1>9. EntryFresh'
  BY <1>1, <1>2 DEF EntryFresh, LoadedFrom
<1>10. CallsFresh'
  BY <1>1, <1>2, <1>7, FileConstants DEF CallsFresh, LoadedFrom
<1>11. AnswerFresh' /\ HookNeverSilenced'
  BY <1>2, <1>7 DEF AnswerFresh, HookNeverSilenced
<1> QED
  BY <1>2, <1>3, <1>6, <1>7, <1>8, <1>9, <1>10, <1>11, FileConstants, CallStep

LEMMA FilesInvNext == FilesInv /\ [FileNext]_fileVars => FilesInv'
<1> SUFFICES ASSUME FilesInv, [FileNext]_fileVars PROVE FilesInv'
  OBVIOUS
<1>1. CASE PutFile
  BY <1>1, PutFileKeeps
<1>2. CASE DeleteFile
  BY <1>2, DeleteFileKeeps
<1>3. CASE ClockTicks
  BY <1>3, ClockKeeps
<1>4. CASE Restart
  BY <1>4, RestartKeeps
<1>5. CASE ScanHooksDir
  BY <1>5, ScanKeeps
<1>6. ASSUME NEW c \in Callers,
             \/ CallNoHook(c) \/ CallCached(c) \/ CallStat(c) \/ StatFails(c)
             \/ StatSame(c) \/ StatNew(c) \/ Import(c) \/ ImportFails(c)
      PROVE  FilesInv'
  BY <1>6, CallNoHookKeeps, CallCachedKeeps, CallStatKeeps, StatFailsKeeps, StatSameKeeps,
     StatNewKeeps, ImportKeeps, ImportFailsKeeps
<1>7. CASE UNCHANGED fileVars
  <2>1. FileTypeOK' /\ HookNeverSilenced'
    BY <1>7 DEF FilesInv, FileTypeOK, HookNeverSilenced, fileVars
  <2>2. GoneInOrder' /\ ImportsLater' /\ AnswerFresh'
    BY <1>7 DEF FilesInv, GoneInOrder, ImportsLater, AnswerFresh, fileVars
  <2>3. EntryFresh' /\ CallsFresh'
    BY <1>7 DEF FilesInv, EntryFresh, LoadedFrom, CallsFresh, fileVars
  <2> QED
    BY <2>1, <2>2, <2>3 DEF FilesInv
<1> QED
  BY <1>1, <1>2, <1>3, <1>4, <1>5, <1>6, <1>7 DEF FileNext

LEMMA AlwaysFilesInv == FileSpec => []FilesInv
BY FilesInvInit, FilesInvNext, PTL DEF FileSpec

\* Nothing takes a hook away: an operation goes ahead without the hook of a file only when
\* the scan of the directory found no such file; deletions, edits, failures of the file
\* system and overlapping loads never do it (hooks-dir.js:104-141).
THEOREM HooksStay == FileSpec => []HookNeverSilenced
BY AlwaysFilesInv, PTL DEF FilesInv

\* What a call runs was replaced at most the interval and one load before the call began,
\* whatever the order in which overlapping loads end and whatever the interpreter kept for
\* an mtime, unless the file could not be looked at (hooks-dir.js:112-138,
\* methods-dir.js:42-65).
THEOREM EditsAreSeen == FileSpec => []EditsApply
<1>1. FilesInv => EditsApply
  BY FileNats DEF FilesInv, AnswerFresh, EditsApply
<1> QED
  BY <1>1, AlwaysFilesInv, PTL
=============================================================================
