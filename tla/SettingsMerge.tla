----------------------------- MODULE SettingsMerge -----------------------------
(***************************************************************************)
(* $HIVEMIND_HOME/.claude/settings.json between the user, who edits it, an *)
(* install, which merges the shipped template into it                      *)
(* (scripts/merge-settings-json.mjs), and an update, which replaces it     *)
(* (bin/hivemind _stage_build).  The snapshot beside it tells the merge    *)
(* what the template before had shipped.                                   *)
(*                                                                         *)
(* A document maps its keys, the paths to its leaves, to sets of entries:  *)
(* an array to its members, a scalar to the singleton of its value.  A     *)
(* file that is absent, torn or no object is merged as {}, and is Empty.   *)
(***************************************************************************)
EXTENDS Naturals, FiniteSets

CONSTANTS
    Lists,      \* the keys of arrays: permissions.allow, hooks.Stop
    Scalars,    \* the keys of scalars: statusLine.command
    Entries,    \* what an array may hold, and the values of a scalar
    Versions,   \* the releases, each with its template
    Unknown,    \* not one of them
    MaxCrashes  \* bound: installs cut short

ASSUME SettingsAssumption ==
    /\ Lists \cap Scalars = {} /\ Unknown \notin Versions /\ MaxCrashes \in Nat

Keys == Lists \cup Scalars
Values(k) == IF k \in Lists THEN SUBSET Entries ELSE {{e} : e \in Entries}
Documents ==
    UNION {{d \in [K -> SUBSET Entries] : \A k \in K : d[k] \in Values(k)} : K \in SUBSET Keys}
Empty == [k \in {} |-> {}]

\* What a document says at a key, and all it says.
Get(d, k) == IF k \in DOMAIN d THEN d[k] ELSE {}
Pairs(d) == {p \in Keys \X Entries : p[2] \in Get(d, p[1])}

\* What is the template's own once a document is merged with it.
Claims(template) == Pairs(template) \cup (DOMAIN template \cap Scalars) \X Entries

VARIABLES
    ships,      \* the template of each version
    settings,   \* settings.json
    snapshot,   \* settings.json.template-snapshot.json
    installer,  \* where install.sh stands
    base,       \* history: the version settings.json was last made from
    own,        \* history: pairs the user added and no template has shipped since
    foreign,    \* history: pairs in settings.json that a template brought
    drift,      \* history: "stale" once an install met the snapshot of another
                \* template, "race" once an update ran across an install
    crashes     \* installs cut short so far

files == <<settings, snapshot>>
history == <<base, own, foreign, drift>>
vars == <<ships, files, installer, history, crashes>>

-----------------------------------------------------------------------------
Idle == [at |-> "idle"]
Install(at, v, doc) == [at |-> at, v |-> v, doc |-> doc]
At(place) == installer.at = place

TypeOK ==
    /\ ships \in [Versions -> Documents]
    /\ settings \in Documents /\ snapshot \in Documents
    /\ \/ installer = Idle
       \/ installer \in [at : {"merged", "opened", "written", "recording"},
                         v : Versions, doc : Documents]
    /\ base \in Versions \cup {Unknown}
    /\ own \subseteq Keys \X Entries /\ foreign \subseteq Keys \X Entries
    /\ drift \in {"none", "stale", "race"} /\ crashes \in 0..MaxCrashes

\* The user may have written a settings.json before the first install.
Init ==
    /\ ships \in [Versions -> Documents]
    /\ settings \in Documents /\ snapshot = Empty
    /\ installer = Idle
    /\ base = Unknown /\ own = Pairs(settings) /\ foreign = {}
    /\ drift = "none" /\ crashes = 0

-----------------------------------------------------------------------------
(* deepMergeSettings.                                                      *)

\* Mutant of Merged: the union it was before revocation.
MergedUnion(existing, template, previous, k) ==
    IF k \in Scalars THEN template[k] ELSE template[k] \cup Get(existing, k)

\* Mutant of Merged: a scalar is merged as an array is.
MergedScalar(existing, template, previous, k) ==
    template[k] \cup (Get(existing, k) \ Get(previous, k))

\* One key of the template: a scalar is the template's, an array the template's
\* and what of the existing one the previous template had not shipped.
Merged(existing, template, previous, k) ==
    IF k \in Scalars THEN template[k]
    ELSE template[k] \cup (Get(existing, k) \ Get(previous, k))

\* Keys the template does not define stay as they are.
Merge(existing, template, previous) ==
    [k \in DOMAIN existing \cup DOMAIN template |->
        IF k \in DOMAIN template THEN Merged(existing, template, previous, k)
        ELSE existing[k]]

-----------------------------------------------------------------------------
(* The CLI entry of the script.                                            *)

\* It reads the three documents and merges them.  (drift: the file is of one
\* template, and the snapshot of another.)
Read(v) ==
    /\ At("idle")
    /\ installer' = Install("merged", v, Merge(settings, ships[v], snapshot))
    /\ drift' = IF drift = "none" /\ base \notin {v, Unknown} /\ snapshot # ships[base]
                THEN "stale" ELSE drift
    /\ UNCHANGED <<ships, files, base, own, foreign, crashes>>

\* writeFileSync empties the target ...
OpenTarget ==
    /\ At("merged")
    /\ installer' = [installer EXCEPT !.at = "opened"]
    /\ settings' = Empty
    /\ UNCHANGED <<ships, snapshot, history, crashes>>

\* ... and writes the merge.
WriteTarget ==
    /\ At("opened")
    /\ installer' = [installer EXCEPT !.at = "written"]
    /\ settings' = installer.doc
    /\ base' = installer.v
    /\ own' = own \ Claims(ships[installer.v])
    /\ foreign' = Pairs(ships[installer.v]) \cup (foreign \cap Pairs(settings'))
    /\ UNCHANGED <<ships, snapshot, drift, crashes>>

\* The snapshot is emptied, and becomes the template.
OpenSnapshot ==
    /\ At("written")
    /\ installer' = [installer EXCEPT !.at = "recording"]
    /\ snapshot' = Empty
    /\ UNCHANGED <<ships, settings, history, crashes>>

\* Mutant of WriteSnapshot: what was merged is recorded, not the template.
RecordMerged ==
    /\ At("recording")
    /\ installer' = Idle
    /\ snapshot' = installer.doc
    /\ own' = own \ Claims(ships[installer.v])
    /\ UNCHANGED <<ships, settings, base, foreign, drift, crashes>>

WriteSnapshot ==
    /\ At("recording")
    /\ installer' = Idle
    /\ snapshot' = ships[installer.v]
    /\ own' = own \ Claims(snapshot')
    /\ UNCHANGED <<ships, settings, base, foreign, drift, crashes>>

\* The install is killed, wherever it is: a file it has emptied stays so.
Crash ==
    /\ ~At("idle") /\ crashes < MaxCrashes
    /\ installer' = Idle
    /\ crashes' = crashes + 1
    /\ IF At("opened") THEN base' = Unknown /\ own' = {} /\ foreign' = {}
       ELSE UNCHANGED <<base, own, foreign>>
    /\ UNCHANGED <<ships, files, drift>>

-----------------------------------------------------------------------------
(* The others who write the file.                                          *)

\* An update, of what an install has put there, puts the template in the place of
\* settings.json, which it takes for git-managed, and carries the snapshot over as
\* it is.
Update(v) ==
    /\ base # Unknown /\ ~At("opened") /\ ~At("recording")
    /\ settings' = ships[v]
    /\ base' = v /\ own' = {} /\ foreign' = Pairs(ships[v])
    /\ drift' = IF At("idle") THEN "none" ELSE "race"
    /\ UNCHANGED <<ships, snapshot, installer, crashes>>

\* The user, or /config, adds an entry or gives a scalar another value.  It is the
\* user's own unless the snapshot takes it for shipped, or a merge is under way
\* that has not seen it.
Add(k, e) ==
    /\ ~At("opened") /\ e \notin Get(settings, k)
    /\ settings' = [j \in DOMAIN settings \cup {k} |->
                       IF j # k THEN settings[j]
                       ELSE IF k \in Scalars THEN {e} ELSE Get(settings, k) \cup {e}]
    /\ own' = (own \cap Pairs(settings'))
                 \cup IF At("merged") \/ e \in Get(snapshot, k) THEN {} ELSE {<<k, e>>}
    /\ foreign' = foreign \cap Pairs(settings')
    /\ UNCHANGED <<ships, snapshot, installer, base, drift, crashes>>

\* The user removes an entry, or the whole key.
Remove(k, e) ==
    /\ ~At("opened") /\ e \in Get(settings, k)
    /\ settings' \in {[settings EXCEPT ![k] = @ \ {e}],
                      [j \in DOMAIN settings \ {k} |-> settings[j]]} \cap Documents
    /\ own' = own \cap Pairs(settings') /\ foreign' = foreign \cap Pairs(settings')
    /\ UNCHANGED <<ships, snapshot, installer, base, drift, crashes>>

-----------------------------------------------------------------------------
Next ==
    \/ \E v \in Versions : Read(v) \/ Update(v)
    \/ OpenTarget \/ WriteTarget \/ OpenSnapshot \/ WriteSnapshot \/ Crash
    \/ \E k \in Keys, e \in Entries : Add(k, e) \/ Remove(k, e)

Spec == Init /\ [][Next]_vars

-----------------------------------------------------------------------------
(* Properties.                                                             *)

\* What the user added, and no template has shipped since, survives every install,
\* also one that is killed and run again, and one that finds no snapshot: short of
\* a target torn by a crash, or an update, a merge never takes it for revoked.
UserSurvives == ~At("opened") => own \subseteq Pairs(settings)

\* Templates that keep their keys.
KeysKept == \A v, w \in Versions : DOMAIN ships[v] = DOMAIN ships[w]

\* What a template brought and the installed one no longer ships is gone, whatever
\* the user did in between; an install killed halfway revokes it when it is run
\* again (the target is written before the snapshot).  drift excludes an install
\* that met the snapshot of another template than the file was made from.
Revokes ==
    KeysKept /\ At("idle") /\ base # Unknown /\ drift = "none" =>
        foreign \subseteq Pairs(ships[base])

\* "so a permission/hook the template stops shipping is actually revoked on the
\* next install/re-install" (install.sh:234, of the snapshot): whatever snapshot the
\* install met, if commands ran one after the other.
RevokedNext ==
    KeysKept /\ At("idle") /\ base # Unknown /\ drift # "race" =>
        foreign \subseteq Pairs(ships[base])
=============================================================================
