-------------------------- MODULE SettingsMergeProofs --------------------------
(* Proofs about SettingsMerge, for any keys, entries, versions and         *)
(* templates.                                                              *)
EXTENDS SettingsMerge, TLAPS

-----------------------------------------------------------------------------
(* Documents.                                                              *)

\* What a document is made of.
LEMMA Parts ==
    ASSUME NEW d \in Documents
    PROVE  /\ DOMAIN d \subseteq Keys /\ d = [k \in DOMAIN d |-> d[k]]
           /\ \A k \in DOMAIN d : d[k] \in Values(k) /\ d[k] \subseteq Entries
<1>1. PICK K \in SUBSET Keys : d \in [K -> SUBSET Entries] /\ \A k \in K : d[k] \in Values(k)
  BY DEF Documents
<1> QED BY <1>1

\* What makes a document.
LEMMA Made ==
    ASSUME NEW K \in SUBSET Keys, NEW d, d = [k \in K |-> d[k]],
           \A k \in K : d[k] \in Values(k)
    PROVE  d \in Documents
<1>1. \A k \in K : d[k] \in SUBSET Entries
  BY DEF Values
<1>2. d \in [K -> SUBSET Entries]
  BY <1>1
<1> QED BY <1>2 DEF Documents

LEMMA EmptyIsDocument == Empty \in Documents /\ Pairs(Empty) = {}
<1>1. Empty \in Documents
  <2>1. {} \in SUBSET Keys /\ Empty = [k \in {} |-> Empty[k]] /\ \A k \in {} : Empty[k] \in Values(k)
    BY DEF Empty
  <2> QED BY <2>1, Made
<1>2. Pairs(Empty) = {}
  BY DEF Pairs, Get, Empty
<1> QED BY <1>1, <1>2

LEMMA GetValue ==
    ASSUME NEW d \in Documents, NEW k \in Keys
    PROVE  Get(d, k) \subseteq Entries /\ (k \in Lists => Get(d, k) \in Values(k))
<1>1. k \in DOMAIN d => d[k] \subseteq Entries
  BY Parts
<1> QED BY <1>1 DEF Get, Values

\* deepMergeSettings of three documents is a document.
LEMMA MergeIsDocument ==
    ASSUME NEW e \in Documents, NEW t \in Documents, NEW p \in Documents
    PROVE  Merge(e, t, p) \in Documents
<1> DEFINE K == DOMAIN e \cup DOMAIN t
<1>1. K \in SUBSET Keys
  BY Parts
<1>2. Merge(e, t, p) = [k \in K |-> Merge(e, t, p)[k]]
  BY DEF Merge
<1>3. \A k \in K : Merge(e, t, p)[k] \in Values(k)
  <2> SUFFICES ASSUME NEW k \in K PROVE Merge(e, t, p)[k] \in Values(k)
    OBVIOUS
  <2>1. CASE k \in DOMAIN t /\ k \in Scalars
    BY <2>1, Parts DEF Merge, Merged
  <2>2. CASE k \in DOMAIN t /\ k \notin Scalars
    <3>1. k \in Lists
      BY <1>1, <2>2 DEF Keys
    <3>2. t[k] \subseteq Entries /\ Get(e, k) \subseteq Entries
      BY <1>1, <2>2, Parts, GetValue
    <3> QED BY <2>2, <3>1, <3>2 DEF Merge, Merged, Values
  <2>3. CASE k \notin DOMAIN t
    BY <2>3, Parts DEF Merge
  <2> QED BY <2>1, <2>2, <2>3
<1> QED BY <1>1, <1>2, <1>3, Made

\* What a merge keeps of the existing document: all but what the previous template
\* had shipped and the scalars of the new one.
LEMMA MergeKeeps ==
    ASSUME NEW e \in Documents, NEW t \in Documents, NEW p \in Documents,
           NEW pair \in Pairs(e), pair \notin Pairs(p), pair \notin Claims(t)
    PROVE  pair \in Pairs(Merge(e, t, p))
<1>1. PICK k \in Keys, x \in Entries : pair = <<k, x>> /\ x \in Get(e, k)
  BY DEF Pairs
<1>2. k \in DOMAIN e /\ x \in e[k] /\ x \notin Get(p, k)
  BY <1>1 DEF Get, Pairs
<1>3. ~(k \in DOMAIN t /\ k \in Scalars)
  BY <1>1 DEF Claims
<1>4. x \in Merge(e, t, p)[k]
  BY <1>1, <1>2, <1>3 DEF Merge, Merged
<1>5. k \in DOMAIN Merge(e, t, p)
  BY <1>2 DEF Merge
<1> QED BY <1>1, <1>4, <1>5 DEF Pairs, Get

\* What a merge lets in: at a key of the template, its own and what of the existing
\* document the previous template had not shipped.
LEMMA MergeBrings ==
    ASSUME NEW e \in Documents, NEW t \in Documents, NEW p \in Documents,
           NEW k \in DOMAIN t, NEW x, <<k, x>> \in Pairs(Merge(e, t, p))
    PROVE  <<k, x>> \in Pairs(t) \/ <<k, x>> \notin Pairs(p)
<1>1. k \in Keys /\ x \in Entries /\ x \in Merge(e, t, p)[k]
  BY Parts DEF Pairs, Get, Merge
<1>2. x \in t[k] \/ x \notin Get(p, k)
  BY <1>1 DEF Merge, Merged
<1> QED BY <1>1, <1>2 DEF Pairs, Get

-----------------------------------------------------------------------------
(* The state keeps its types.                                              *)

LEMMA InitType == Init => TypeOK
BY EmptyIsDocument, SettingsAssumption DEF Init, TypeOK, Pairs, Idle

LEMMA PairsAre == \A d : Pairs(d) \subseteq Keys \X Entries
BY DEF Pairs

\* The steps of an install have a version and a document.
LEMMA Steps ==
    ASSUME TypeOK, ~At("idle")
    PROVE  /\ installer.v \in Versions /\ installer.doc \in Documents
           /\ installer = Install(installer.at, installer.v, installer.doc)
           /\ ships[installer.v] \in Documents
BY DEF TypeOK, At, Idle, Install

LEMMA AddType == ASSUME TypeOK, NEW k \in Keys, NEW e \in Entries, Add(k, e) PROVE TypeOK'
<1> DEFINE K == DOMAIN settings \cup {k}
<1>1. /\ settings' = [j \in K |-> IF j # k THEN settings[j]
                                  ELSE IF k \in Scalars THEN {e} ELSE Get(settings, k) \cup {e}]
      /\ foreign' = foreign \cap Pairs(settings')
      /\ UNCHANGED <<ships, snapshot, installer, base, drift, crashes>>
  BY DEF Add
<1>2. settings \in Documents /\ K \in SUBSET Keys
  BY Parts DEF TypeOK
<1>3. \A j \in K : settings'[j] \in Values(j)
  <2> SUFFICES ASSUME NEW j \in K PROVE settings'[j] \in Values(j)
    OBVIOUS
  <2>1. CASE j # k
    BY <1>1, <1>2, <2>1, Parts
  <2>2. CASE j = k /\ k \in Scalars
    BY <1>1, <2>2, SettingsAssumption DEF Values
  <2>3. CASE j = k /\ k \notin Scalars
    BY <1>1, <1>2, <2>3, GetValue DEF Values, Keys
  <2> QED BY <2>1, <2>2, <2>3
<1>4. settings' = [j \in K |-> settings'[j]]
  BY <1>1
<1>5. settings' \in Documents
  BY <1>2, <1>3, <1>4, Made
<1>6. own' \subseteq Keys \X Entries
  BY PairsAre DEF Add
<1> QED BY <1>1, <1>5, <1>6 DEF TypeOK

LEMMA NextType == TypeOK /\ [Next]_vars => TypeOK'
<1> SUFFICES ASSUME TypeOK, [Next]_vars PROVE TypeOK'
  OBVIOUS
<1>1. ASSUME NEW v \in Versions, Read(v) PROVE TypeOK'
  <2>1. Merge(settings, ships[v], snapshot) \in Documents
    BY MergeIsDocument DEF TypeOK
  <2>2. installer' \in [at : {"merged", "opened", "written", "recording"},
                        v : Versions, doc : Documents]
    BY <1>1, <2>1 DEF Read, Install
  <2> QED BY <1>1, <2>2 DEF Read, TypeOK, files
<1>2. CASE OpenTarget \/ OpenSnapshot
  <2>1. ~At("idle")
    BY <1>2 DEF OpenTarget, OpenSnapshot, At
  <2>2. installer' \in [at : {"merged", "opened", "written", "recording"},
                        v : Versions, doc : Documents]
    BY <1>2, <2>1 DEF OpenTarget, OpenSnapshot, TypeOK, At, Idle
  <2> QED BY <1>2, <2>2, EmptyIsDocument DEF OpenTarget, OpenSnapshot, TypeOK, history
<1>3. CASE WriteTarget
  <2>1. ~At("idle")
    BY <1>3 DEF WriteTarget, At
  <2>2. installer' \in [at : {"merged", "opened", "written", "recording"},
                        v : Versions, doc : Documents]
    BY <1>3, <2>1 DEF WriteTarget, TypeOK, At, Idle
  <2>3. settings' \in Documents /\ base' \in Versions
    BY <1>3, <2>1, Steps DEF WriteTarget
  <2>4. own' \subseteq Keys \X Entries /\ foreign' \subseteq Keys \X Entries
    BY <1>3, PairsAre DEF WriteTarget, TypeOK
  <2> QED BY <1>3, <2>2, <2>3, <2>4 DEF WriteTarget, TypeOK
<1>4. CASE WriteSnapshot
  <2>1. ~At("idle")
    BY <1>4 DEF WriteSnapshot, At
  <2>2. snapshot' \in Documents
    BY <1>4, <2>1, Steps DEF WriteSnapshot
  <2> QED BY <1>4, <2>2 DEF WriteSnapshot, TypeOK
<1>5. CASE Crash
  <2>1. crashes' \in 0..MaxCrashes
    BY <1>5, SettingsAssumption DEF Crash, TypeOK
  <2>2. /\ base' \in Versions \cup {Unknown}
        /\ own' \subseteq Keys \X Entries /\ foreign' \subseteq Keys \X Entries
    BY <1>5 DEF Crash, TypeOK
  <2> QED BY <1>5, <2>1, <2>2 DEF Crash, TypeOK, files
<1>6. ASSUME NEW v \in Versions, Update(v) PROVE TypeOK'
  BY <1>6, PairsAre DEF Update, TypeOK
<1>7. ASSUME NEW k \in Keys, NEW e \in Entries, Add(k, e) PROVE TypeOK'
  BY <1>7, AddType
<1>8. ASSUME NEW k \in Keys, NEW e \in Entries, Remove(k, e) PROVE TypeOK'
  BY <1>8 DEF Remove, TypeOK
<1>9. CASE UNCHANGED vars
  BY <1>9 DEF vars, files, history, TypeOK
<1> QED BY <1>1, <1>2, <1>3, <1>4, <1>5, <1>6, <1>7, <1>8, <1>9 DEF Next

\* The three documents stay documents and a scalar stays one value, whatever is
\* merged with what.
THEOREM TypeCorrect == Spec => []TypeOK
BY InitType, NextType, PTL DEF Spec

-----------------------------------------------------------------------------
(* What is the user's stays.                                               *)

\* The snapshot knows nothing of the user's own pairs; they are in the file, and in
\* the document about to replace it but for what its template takes over.
Kept ==
    /\ own \cap Pairs(snapshot) = {}
    /\ UserSurvives
    /\ At("merged") \/ At("opened") =>
           own \subseteq Pairs(installer.doc) \cup Claims(ships[installer.v])

LEMMA NextKept == TypeOK /\ TypeOK' /\ Kept /\ [Next]_vars => Kept'
<1> SUFFICES ASSUME TypeOK, TypeOK', Kept, [Next]_vars PROVE Kept'
  OBVIOUS
<1> USE DEF At
<1>1. ASSUME NEW v \in Versions, Read(v) PROVE Kept'
  <2>1. /\ installer.at = "idle" /\ installer' = Install("merged", v, Merge(settings, ships[v], snapshot))
        /\ UNCHANGED <<ships, settings, snapshot, own>>
    BY <1>1 DEF Read, files
  <2>2. own \subseteq Pairs(Merge(settings, ships[v], snapshot)) \cup Claims(ships[v])
    <3>1. \A pair \in own : pair \in Pairs(settings) /\ pair \notin Pairs(snapshot)
      BY <2>1 DEF Kept, UserSurvives
    <3>2. settings \in Documents /\ ships[v] \in Documents /\ snapshot \in Documents
      BY DEF TypeOK
    <3> QED BY <3>1, <3>2, MergeKeeps
  <2>3. /\ installer'.at = "merged" /\ installer'.v = v
        /\ installer'.doc = Merge(settings, ships[v], snapshot)
    BY <2>1 DEF Install
  <2>4. UserSurvives'
    BY <2>1, <2>3 DEF Kept, UserSurvives
  <2> QED BY <2>1, <2>2, <2>3, <2>4 DEF Kept
<1>2. CASE OpenTarget
  <2>1. /\ installer.at = "merged" /\ installer' = [installer EXCEPT !.at = "opened"]
        /\ UNCHANGED <<ships, snapshot, own>>
    BY <1>2 DEF OpenTarget, history
  <2>2. installer'.at = "opened" /\ installer'.v = installer.v /\ installer'.doc = installer.doc
    BY <2>1, Steps DEF Install
  <2> QED BY <2>1, <2>2 DEF Kept, UserSurvives
<1>3. CASE WriteTarget
  <2>1. /\ installer.at = "opened" /\ installer' = [installer EXCEPT !.at = "written"]
        /\ settings' = installer.doc /\ own' = own \ Claims(ships[installer.v])
        /\ snapshot' = snapshot
    BY <1>3 DEF WriteTarget
  <2>2. installer'.at = "written"
    BY <2>1, Steps DEF Install
  <2>3. own' \subseteq Pairs(settings')
    BY <2>1 DEF Kept
  <2> QED BY <2>1, <2>2, <2>3 DEF Kept, UserSurvives
<1>4. CASE OpenSnapshot
  <2>1. /\ installer.at = "written" /\ installer' = [installer EXCEPT !.at = "recording"]
        /\ snapshot' = Empty /\ UNCHANGED <<settings, own>>
    BY <1>4 DEF OpenSnapshot, history
  <2>2. installer'.at = "recording"
    BY <2>1, Steps DEF Install
  <2> QED BY <2>1, <2>2, EmptyIsDocument DEF Kept, UserSurvives
<1>5. CASE WriteSnapshot
  <2>1. /\ installer.at = "recording" /\ installer' = Idle /\ settings' = settings
        /\ snapshot' = ships[installer.v] /\ own' = own \ Claims(snapshot')
    BY <1>5 DEF WriteSnapshot
  <2>2. Pairs(snapshot') \subseteq Claims(snapshot')
    BY DEF Claims
  <2> QED BY <2>1, <2>2 DEF Kept, UserSurvives, Idle
<1>6. CASE Crash
  <2>1. installer' = Idle /\ UNCHANGED files /\ own' \subseteq own
    BY <1>6 DEF Crash
  <2>2. installer.at = "opened" => own' = {}
    BY <1>6 DEF Crash
  <2> QED BY <2>1, <2>2 DEF Kept, UserSurvives, Idle, files
<1>7. ASSUME NEW v \in Versions, Update(v) PROVE Kept'
  BY <1>7 DEF Update, Kept, UserSurvives
<1>8. ASSUME NEW k \in Keys, NEW e \in Entries, Add(k, e) PROVE Kept'
  <2>1. /\ installer.at # "opened" /\ UNCHANGED <<ships, snapshot, installer>>
        /\ own' = (own \cap Pairs(settings'))
                     \cup IF At("merged") \/ e \in Get(snapshot, k) THEN {} ELSE {<<k, e>>}
        /\ settings' = [j \in DOMAIN settings \cup {k} |->
                          IF j # k THEN settings[j]
                          ELSE IF k \in Scalars THEN {e} ELSE Get(settings, k) \cup {e}]
    BY <1>8 DEF Add
  <2>2. <<k, e>> \in Pairs(settings')
    <3>1. k \in DOMAIN settings' /\ e \in settings'[k]
      BY <2>1
    <3> QED BY <3>1 DEF Pairs, Get
  <2>3. e \notin Get(snapshot, k) => <<k, e>> \notin Pairs(snapshot)
    BY DEF Pairs
  <2>4. own' \subseteq Pairs(settings') /\ own' \cap Pairs(snapshot') = {}
    BY <2>1, <2>2, <2>3 DEF Kept
  <2>5. installer.at = "merged" => own' \subseteq own
    BY <2>1
  <2> QED BY <2>1, <2>4, <2>5 DEF Kept, UserSurvives
<1>9. ASSUME NEW k \in Keys, NEW e \in Entries, Remove(k, e) PROVE Kept'
  BY <1>9 DEF Remove, Kept, UserSurvives
<1>10. CASE UNCHANGED vars
  BY <1>10 DEF vars, files, history, Kept, UserSurvives
<1> QED BY <1>1, <1>2, <1>3, <1>4, <1>5, <1>6, <1>7, <1>8, <1>9, <1>10 DEF Next

\* deepMergeSettings never takes an addition of the user's for revoked, through any
\* number of installs, installs killed between the two files or before them, edits
\* and template changes.
THEOREM UserSurvivesCorrect == Spec => []UserSurvives
<1>1. Init => Kept
  BY EmptyIsDocument DEF Init, Kept, UserSurvives, At, Idle
<1>2. Kept => UserSurvives
  BY DEF Kept
<1> QED BY <1>1, <1>2, NextKept, TypeCorrect, PTL DEF Spec

-----------------------------------------------------------------------------
(* What the template dropped goes.                                         *)

\* While every install meets the snapshot of the template the file was made from,
\* nothing else of a template is in the file, nor in the document about to replace
\* it.
Current ==
    KeysKept /\ drift = "none" =>
        /\ base # Unknown => foreign \subseteq Pairs(ships[base])
        /\ base = Unknown => foreign = {}
        /\ At("merged") \/ At("opened") =>
               foreign \cap Pairs(installer.doc) \subseteq Pairs(ships[installer.v])

LEMMA ReadCurrent ==
    ASSUME TypeOK, Current, KeysKept, NEW v \in Versions, Read(v), drift' = "none"
    PROVE  foreign \cap Pairs(Merge(settings, ships[v], snapshot)) \subseteq Pairs(ships[v])
<1>1. drift = "none" /\ (base \in {v, Unknown} \/ snapshot = ships[base])
  BY DEF Read
<1>2. settings \in Documents /\ ships[v] \in Documents /\ snapshot \in Documents
  BY DEF TypeOK
<1>3. CASE base = Unknown
  BY <1>1, <1>3 DEF Current
<1>4. CASE base # Unknown
  <2>1. base \in Versions /\ ships[base] \in Documents /\ foreign \subseteq Pairs(ships[base])
    BY <1>1, <1>4 DEF Current, TypeOK
  <2> SUFFICES ASSUME NEW pair \in foreign,
                      pair \in Pairs(Merge(settings, ships[v], snapshot))
               PROVE  pair \in Pairs(ships[v])
    OBVIOUS
  <2>2. PICK k \in Keys, x \in Entries : pair = <<k, x>> /\ x \in Get(ships[base], k)
    BY <2>1 DEF Pairs
  <2>3. k \in DOMAIN ships[v]
    BY <2>1, <2>2 DEF Get, KeysKept
  <2>4. pair \in Pairs(ships[v]) \/ pair \notin Pairs(snapshot)
    BY <1>2, <2>2, <2>3, MergeBrings
  <2> QED BY <1>1, <1>4, <2>1, <2>4
<1> QED BY <1>3, <1>4

LEMMA NextCurrent == TypeOK /\ Current /\ [Next]_vars => Current'
<1> SUFFICES ASSUME TypeOK, Current, [Next]_vars, KeysKept', drift' = "none"
             PROVE  /\ base' # Unknown => foreign' \subseteq Pairs(ships'[base'])
                    /\ base' = Unknown => foreign' = {}
                    /\ At("merged")' \/ At("opened")' =>
                           foreign' \cap Pairs(installer'.doc)
                              \subseteq Pairs(ships'[installer'.v])
  BY DEF Current
<1> USE DEF At
<1>1. ships' = ships /\ KeysKept
  BY DEF Next, Read, Update, OpenTarget, WriteTarget, OpenSnapshot, WriteSnapshot, Crash, Add,
         Remove, vars, KeysKept
<1>2. ASSUME NEW v \in Versions, Read(v) PROVE Current'
  <2>1. /\ installer'.at = "merged" /\ installer'.v = v
        /\ installer'.doc = Merge(settings, ships[v], snapshot)
        /\ UNCHANGED <<base, foreign>>
    BY <1>2 DEF Read, Install
  <2>2. drift = "none"
    BY <1>2 DEF Read
  <2>3. foreign \cap Pairs(Merge(settings, ships[v], snapshot)) \subseteq Pairs(ships[v])
    BY <1>1, <1>2, ReadCurrent
  <2> QED BY <1>1, <2>1, <2>2, <2>3 DEF Current
<1>3. CASE OpenTarget \/ OpenSnapshot
  <2>1. /\ installer'.at = "opened" => installer.at = "merged"
        /\ installer'.at \in {"opened", "recording"}
        /\ installer'.v = installer.v /\ installer'.doc = installer.doc
        /\ UNCHANGED <<base, foreign, drift>>
    BY <1>3, Steps DEF OpenTarget, OpenSnapshot, history, Install
  <2> QED BY <1>1, <2>1 DEF Current
<1>4. CASE WriteTarget
  <2>1. /\ installer.at = "opened" /\ installer'.at = "written" /\ base' = installer.v
        /\ settings' = installer.doc /\ drift' = drift
        /\ foreign' = Pairs(ships[installer.v]) \cup (foreign \cap Pairs(settings'))
    BY <1>4, Steps DEF WriteTarget, Install
  <2>2. base' # Unknown
    BY <2>1, Steps, SettingsAssumption
  <2>3. foreign' \subseteq Pairs(ships[base'])
    BY <1>1, <2>1 DEF Current
  <2> QED BY <1>1, <2>1, <2>2, <2>3
<1>5. CASE WriteSnapshot
  <2>1. installer' = Idle /\ UNCHANGED <<base, foreign, drift>>
    BY <1>5 DEF WriteSnapshot
  <2> QED BY <1>1, <2>1 DEF Current, Idle
<1>6. CASE Crash
  <2>1. /\ installer' = Idle /\ drift' = drift
        /\ (base' = Unknown /\ foreign' = {}) \/ UNCHANGED <<base, foreign>>
    BY <1>6 DEF Crash
  <2> QED BY <1>1, <2>1 DEF Current, Idle
<1>7. ASSUME NEW v \in Versions, Update(v) PROVE Current'
  <2>1. /\ installer.at = "idle" /\ installer' = installer
        /\ base' = v /\ foreign' = Pairs(ships[v])
    BY <1>7 DEF Update
  <2> QED BY <1>1, <2>1, SettingsAssumption DEF Current
<1>8. CASE \E k \in Keys, e \in Entries : Add(k, e) \/ Remove(k, e)
  <2>1. foreign' \subseteq foreign /\ UNCHANGED <<installer, base, drift>>
    BY <1>8 DEF Add, Remove
  <2> QED BY <1>1, <2>1 DEF Current
<1>9. CASE UNCHANGED vars
  BY <1>1, <1>9 DEF vars, files, history, Current
<1> QED BY <1>1, <1>2, <1>3, <1>4, <1>5, <1>6, <1>7, <1>8, <1>9 DEF Next, Current

\* With the snapshot of the template before, an install leaves nothing of it that
\* the new one dropped; killed halfway, it does so when it is run again.
THEOREM RevokesCorrect == Spec => []Revokes
<1>1. Init => Current
  BY DEF Init, Current, At, Idle
<1>2. Current => Revokes
  BY DEF Current, Revokes
<1> QED BY <1>1, <1>2, NextCurrent, TypeCorrect, PTL DEF Spec
=============================================================================
