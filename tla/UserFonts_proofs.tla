--------------------------- MODULE UserFonts_proofs --------------------------
(***************************************************************************)
(* Proof that FontManager implements FontStore for any number of threads,  *)
(* fonts and copies, where only user-level calls are made and only copies  *)
(* fail, and what this rests on: records and files agree.                  *)
(***************************************************************************)
EXTENDS UserFonts, FontManager_proofs

(* The calls and failures of which the refinement holds.                   *)
UserCalls ==
    /\ Op \subseteq {"InstallFont", "UninstallFont"}
    /\ Fault \subseteq {"copy"}
    /\ RepeatTag = FALSE
    /\ InitialFile \subseteq {"valid"}

(* The inductive invariant, beside the types.  The configuration stays     *)
(* readable and has one record at most for each path.                      *)
OneRecordPerPath ==
    /\ configFile = "valid"
    /\ \A i \in DOMAIN fontlist : fontlist[i].scope = "none"
    /\ \A i, j \in DOMAIN fontlist : fontlist[i].path = fontlist[j].path => i = j

InstallLabel == {"find", "probe", "heal", "count", "copy", "insert", "undo"}
UninstallLabel == {"remove", "delete"}
TargetLabel == {"probe", "heal", "remove", "delete"}

(* What the local variables hold at each label.                            *)
UserLocal(label, l) ==
    /\ label \in {"idle"} \cup InstallLabel \cup UninstallLabel
    /\ label = "idle" => l.op = "none" /\ l.font = NoFont /\ l.path = NoPath
    /\ label \in InstallLabel => l.op = "InstallFont"
    /\ label \in UninstallLabel => l.op = "UninstallFont" /\ l.font = NoFont
    /\ label \notin {"idle", "undo"} => l.ret = "none"
    /\ label \in {"find", "count", "copy"} => l.path = NoPath
    /\ label \in TargetLabel => l.path \in Path
    /\ label = "find" /\ FullNames[l.font] # <<>> => l.i \in DOMAIN FullNames[l.font]
    /\ label \in {"probe", "heal"} => l.i \in DOMAIN FullNames[l.font]

UserControl == \A t \in Thread : UserLocal(pc[t], loc[t])

(* A copy that is not listed yet belongs to one thread alone.              *)
OwnCopy ==
    \A t \in Thread : pc[t] \in {"insert", "undo"} =>
        /\ loc[t].path \in DOMAIN files
        /\ ~Listed(loc[t].path)
        /\ \A s \in Thread \ {t} : loc[s].path # loc[t].path

(* The file of a record about to be deleted is gone, and a file that a     *)
(* call is about to look for or to remove is that of a record.             *)
FileGone == \A t \in Thread : pc[t] \in {"heal", "delete"} => loc[t].path \notin DOMAIN files
FileListed ==
    \A t \in Thread :
        pc[t] \in {"probe", "remove"} /\ loc[t].path \in DOMAIN files => Listed(loc[t].path)

FilesAgree == OwnCopy /\ FileGone /\ FileListed /\ DiskAgrees

UserInv == OneRecordPerPath /\ UserControl /\ FilesAgree

-----------------------------------------------------------------------------
(* The records as the set of installed copies.                             *)

(* An insertion adds one record and keeps paths different.                 *)
LEMMA RecordsAfterInsert ==
    ASSUME ConfigTypeOK, OneRecordPerPath, NEW r \in FontRecordInfo,
           r.scope = "none", ~Listed(r.path),
           fontlist' = Append(fontlist, r), configFile' = "valid"
    PROVE  Records' = Records \cup {r} /\ OneRecordPerPath'
<1> DEFINE n == Len(fontlist)
<1>1. /\ fontlist \in Seq(FontRecordInfo) /\ n \in Nat /\ DOMAIN fontlist = 1 .. n
    BY DEF ConfigTypeOK
<1>2. /\ DOMAIN fontlist' = 1 .. n + 1
      /\ \A i \in 1 .. n : fontlist'[i] = fontlist[i]
      /\ fontlist'[n + 1] = r
    BY <1>1
<1> HIDE DEF n
<1>3. \A i \in 1 .. n + 1 : i \in 1 .. n \/ i = n + 1
    BY <1>1
<1>4. Records' = Records \cup {r}
    BY <1>1, <1>2, <1>3 DEF Records
<1>5. \A i \in 1 .. n : fontlist[i].path # r.path
    BY <1>1 DEF Listed, Records
<1>6. \A i \in DOMAIN fontlist' : fontlist'[i].scope = "none"
    BY <1>1, <1>2, <1>3 DEF OneRecordPerPath
<1>7. ASSUME NEW i \in DOMAIN fontlist', NEW j \in DOMAIN fontlist',
             fontlist'[i].path = fontlist'[j].path
      PROVE  i = j
    <2>1. i \in 1 .. n \/ i = n + 1
        BY <1>2, <1>3
    <2>2. j \in 1 .. n \/ j = n + 1
        BY <1>2, <1>3
    <2> QED
        BY <1>1, <1>2, <1>5, <1>7, <2>1, <2>2 DEF OneRecordPerPath
<1> QED
    BY <1>4, <1>6, <1>7 DEF OneRecordPerPath

(* A deletion by path takes one record away, that with the path.           *)
LEMMA RecordsAfterDelete ==
    ASSUME ConfigTypeOK, OneRecordPerPath, NEW i \in DOMAIN fontlist,
           fontlist' = RemoveAt(fontlist, i), configFile' = "valid"
    PROVE  Records' = {r \in Records : r.path # fontlist[i].path} /\ OneRecordPerPath'
<1> DEFINE n == Len(fontlist)
           old(j) == IF j < i THEN j ELSE j + 1
<1>1. /\ fontlist \in Seq(FontRecordInfo) /\ n \in Nat /\ DOMAIN fontlist = 1 .. n
      /\ i \in 1 .. n
    BY DEF ConfigTypeOK
<1>2. fontlist' \in Seq(FontRecordInfo) /\ Len(fontlist') = n - 1
    BY <1>1, RemoveAtType
<1>3. DOMAIN fontlist' = 1 .. n - 1
    BY <1>2
<1>4. \A j \in 1 .. n - 1 : fontlist'[j] = IF j < i THEN fontlist[j] ELSE fontlist[j + 1]
    BY <1>1, RemoveAtElements
<1> HIDE DEF n
<1>5. \A j \in 1 .. n - 1 : /\ old(j) \in 1 .. n /\ old(j) # i
                             /\ fontlist'[j] = fontlist[old(j)]
    BY <1>1, <1>4
<1>6. \A k \in 1 .. n : k # i => \E j \in 1 .. n - 1 : old(j) = k
    <2> SUFFICES ASSUME NEW k \in 1 .. n, k # i PROVE \E j \in 1 .. n - 1 : old(j) = k
        OBVIOUS
    <2>1. CASE k < i
        <3>1. k \in 1 .. n - 1 /\ old(k) = k
            BY <1>1, <2>1
        <3> QED
            BY <3>1
    <2>2. CASE ~ (k < i)
        <3>1. k - 1 \in 1 .. n - 1 /\ old(k - 1) = k
            BY <1>1, <2>2
        <3> QED
            BY <3>1
    <2> QED
        BY <2>1, <2>2
<1>7. \A j, k \in 1 .. n - 1 : old(j) = old(k) => j = k
    BY <1>1
<1> HIDE DEF old
<1>8. \A j, k \in 1 .. n : fontlist[j].path = fontlist[k].path => j = k
    BY <1>1 DEF OneRecordPerPath
<1>9. Records = {fontlist[j] : j \in 1 .. n} /\ Records' = {fontlist'[j] : j \in 1 .. n - 1}
    BY <1>1, <1>3 DEF Records
<1>10. Records' \subseteq {r \in Records : r.path # fontlist[i].path}
    BY <1>1, <1>5, <1>8, <1>9
<1>11. ASSUME NEW r \in Records, r.path # fontlist[i].path
       PROVE  r \in Records'
    <2>1. PICK k \in 1 .. n : r = fontlist[k]
        BY <1>9
    <2>2. PICK j \in 1 .. n - 1 : old(j) = k
        BY <1>6, <1>11, <2>1
    <2> QED
        BY <1>5, <1>9, <2>1, <2>2
<1>12. \A j \in DOMAIN fontlist' : fontlist'[j].scope = "none"
    BY <1>1, <1>3, <1>5 DEF OneRecordPerPath
<1>13. ASSUME NEW j \in DOMAIN fontlist', NEW k \in DOMAIN fontlist',
             fontlist'[j].path = fontlist'[k].path
       PROVE  j = k
    BY <1>3, <1>5, <1>7, <1>8, <1>13
<1> QED
    BY <1>10, <1>11, <1>12, <1>13 DEF OneRecordPerPath

(* Each installed copy has the names of the one record with its path.      *)
LEMMA FontsOfRecords ==
    ASSUME OneRecordPerPath
    PROVE  /\ \A r, s \in Records : r.path = s.path => r = s
           /\ DOMAIN Fonts = {r.path : r \in Records}
           /\ \A r \in Records : Fonts[r.path] = r.names
           /\ \A p : Listed(p) <=> p \in DOMAIN Fonts
<1>1. \A r, s \in Records : r.path = s.path => r = s
    BY DEF Records, OneRecordPerPath
<1>2. DOMAIN Fonts = {r.path : r \in Records}
    BY DEF Fonts
<1>3. ASSUME NEW r \in Records PROVE Fonts[r.path] = r.names
    <2>1. Fonts[r.path] = (CHOOSE s \in Records : s.path = r.path).names
        BY DEF Fonts
    <2>2. (CHOOSE s \in Records : s.path = r.path) = r
        BY <1>1
    <2> QED
        BY <2>1, <2>2
<1>4. \A p : Listed(p) <=> p \in DOMAIN Fonts
    BY <1>2 DEF Listed
<1> QED
    BY <1>1, <1>2, <1>3, <1>4

(* There are as many copies as records.                                    *)
LEMMA CopiesAreCounted ==
    ASSUME ConfigTypeOK, OneRecordPerPath
    PROVE  Cardinality(DOMAIN Fonts) = Len(fontlist)
<1> DEFINE n == Len(fontlist)
           path == [i \in 1 .. n |-> fontlist[i].path]
<1>1. n \in Nat /\ DOMAIN fontlist = 1 .. n
    BY DEF ConfigTypeOK
<1>2. DOMAIN Fonts = {fontlist[i].path : i \in 1 .. n}
    BY <1>1 DEF Fonts, Records
<1> HIDE DEF n
<1>3. path \in Bijection(1 .. n, DOMAIN Fonts)
    <2>1. path \in [1 .. n -> DOMAIN Fonts]
        BY <1>2
    <2>2. \A i, j \in 1 .. n : path[i] = path[j] => i = j
        BY <1>1 DEF OneRecordPerPath
    <2>3. \A p \in DOMAIN Fonts : \E i \in 1 .. n : path[i] = p
        BY <1>2
    <2> QED
        BY <2>1, <2>2, <2>3, Zenon DEF Bijection, Injection, Surjection, IsInjective
<1>4. ExistsBijection(1 .. n, DOMAIN Fonts)
    BY <1>3 DEF ExistsBijection
<1> QED
    BY <1>1, <1>4, FS_CountingElements DEF n

(* The set of copies after an insertion.                                   *)
LEMMA FontsAfterInsert ==
    ASSUME OneRecordPerPath, OneRecordPerPath', NEW r, ~Listed(r.path),
           Records' = Records \cup {r}
    PROVE  Fonts' = [p \in DOMAIN Fonts \cup {r.path} |->
                        IF p = r.path THEN r.names ELSE Fonts[p]]
<1>1. /\ DOMAIN Fonts = {s.path : s \in Records}
      /\ \A s \in Records : Fonts[s.path] = s.names
    BY FontsOfRecords
<1>2. \A s, q \in Records' : s.path = q.path => s = q
    BY DEF Records, OneRecordPerPath
<1> DEFINE found(p) == CHOOSE q \in Records' : q.path = p
<1>3. ASSUME NEW p, NEW s \in Records', s.path = p
      PROVE  found(p) = s
    <2>1. \E q \in Records' : q.path = p
        BY <1>3
    <2>2. found(p) \in Records' /\ found(p).path = p
        BY <2>1, Zenon
    <2> HIDE DEF found
    <2> QED
        BY <1>2, <1>3, <2>2
<1>4. Fonts' = [p \in {s.path : s \in Records'} |-> found(p).names]
    BY DEF Fonts
<1> HIDE DEF found
<1>5. {s.path : s \in Records'} = DOMAIN Fonts \cup {r.path}
    BY <1>1
<1>6. r \in Records' /\ Records \subseteq Records'
    OBVIOUS
<1>7. ASSUME NEW p \in DOMAIN Fonts \cup {r.path}
      PROVE  found(p).names = IF p = r.path THEN r.names ELSE Fonts[p]
    <2>1. CASE p = r.path
        BY <1>3, <1>6, <2>1
    <2>2. CASE p # r.path
        <3>1. PICK s \in Records : s.path = p
            BY <1>1, <2>2
        <3> QED
            BY <1>1, <1>3, <1>6, <2>2, <3>1
    <2> QED
        BY <2>1, <2>2
<1> QED
    BY <1>4, <1>5, <1>7

(* The set of copies after a deletion.                                     *)
LEMMA FontsAfterDelete ==
    ASSUME OneRecordPerPath, OneRecordPerPath', NEW p,
           Records' = {r \in Records : r.path # p}
    PROVE  Fonts' = [q \in DOMAIN Fonts \ {p} |-> Fonts[q]]
<1>1. /\ DOMAIN Fonts = {s.path : s \in Records}
      /\ \A s \in Records : Fonts[s.path] = s.names
    BY FontsOfRecords
<1>2. \A s, q \in Records' : s.path = q.path => s = q
    BY DEF Records, OneRecordPerPath
<1>3. ASSUME NEW s \in Records'
      PROVE  (CHOOSE q \in Records' : q.path = s.path) = s
    BY <1>2
<1>4. Fonts' = [q \in {s.path : s \in Records'} |->
                    (CHOOSE s \in Records' : s.path = q).names]
    BY DEF Fonts
<1>5. {s.path : s \in Records'} = DOMAIN Fonts \ {p}
    BY <1>1
<1>6. ASSUME NEW q \in DOMAIN Fonts \ {p}
      PROVE  (CHOOSE s \in Records' : s.path = q).names = Fonts[q]
    <2>1. PICK s \in Records' : s.path = q
        BY <1>5
    <2> QED
        BY <1>1, <1>3, <2>1
<1> QED
    BY <1>4, <1>5, <1>6

(* What DeleteFontRecord does to the records when no write fails: it takes *)
(* away the record with the path, and fails when there is none.            *)
LEMMA DeletedRecord ==
    ASSUME ConfigTypeOK, OneRecordPerPath, "write" \notin Fault,
           NEW p, NEW ok \in BOOLEAN, DeleteFontRecord(p, ok)
    PROVE  /\ ok <=> Listed(p)
           /\ ~ok => UNCHANGED configVars
           /\ ok => Records' = {r \in Records : r.path # p} /\ OneRecordPerPath'
           /\ OneRecordPerPath'
<1>1. Listed(p) <=> WithPath(p) # {}
    BY DEF Listed, Records, WithPath
<1>2. CASE WithPath(p) = {}
    BY <1>1, <1>2 DEF DeleteFontRecord, DeleteFirst, Refuse, OneRecordPerPath, configVars
<1>3. CASE WithPath(p) # {}
    <2> DEFINE i == Min(WithPath(p))
    <2>1. DOMAIN fontlist \subseteq Nat
        BY DEF ConfigTypeOK
    <2>2. WithPath(p) \subseteq DOMAIN fontlist
        BY DEF WithPath
    <2>3. i \in WithPath(p)
        BY <1>3, <2>1, <2>2, MinOfMatches
    <2>4. i \in DOMAIN fontlist /\ fontlist[i].path = p
        BY <2>3 DEF WithPath
    <2>5. ok /\ configFile' = "valid" /\ fontlist' = RemoveAt(fontlist, i)
        BY <1>3 DEF DeleteFontRecord, DeleteFirst, WriteToFile
    <2> HIDE DEF i
    <2> QED
        BY <1>1, <1>3, <2>4, <2>5, RecordsAfterDelete
<1> QED
    BY <1>2, <1>3

-----------------------------------------------------------------------------
(* Steps of one thread.                                                    *)

(* A move to a label with what it must hold keeps the local variables.     *)
LEMMA MoveControl ==
    ASSUME ControlOK, UserControl, NEW t \in Thread, NEW label, NEW l,
           Move(t, label, l), UserLocal(label, l)
    PROVE  UserControl'
<1>1. /\ pc'[t] = label /\ loc'[t] = l
      /\ \A s \in Thread \ {t} : pc'[s] = pc[s] /\ loc'[s] = loc[s]
    BY Moves
<1> QED
    BY <1>1 DEF UserControl

(* A step of the control alone.  It must not lose sight of a copy, nor of  *)
(* a record without file, and may take only a listed path as its target.   *)
LEMMA AgreeMove ==
    ASSUME ControlOK, UserControl, FilesAgree, NEW t \in Thread, NEW label, NEW l,
           Move(t, label, l), UNCHANGED <<configVars, storage>>,
           pc[t] \in {"insert", "undo"} => label \in {"insert", "undo"} /\ l.path = loc[t].path,
           pc[t] \in {"heal", "delete"} => ~Listed(loc[t].path),
           label \in {"insert", "undo"} => pc[t] \in {"insert", "undo"},
           label \in {"heal", "delete"} => l.path \notin DOMAIN files,
           label \in {"probe", "remove"} /\ l.path \in DOMAIN files => Listed(l.path),
           l.path \in {NoPath, loc[t].path} \/ Listed(l.path),
           DOMAIN files \subseteq Path
    PROVE  FilesAgree'
<1>1. /\ pc'[t] = label /\ loc'[t] = l
      /\ \A s \in Thread \ {t} : pc'[s] = pc[s] /\ loc'[s] = loc[s]
    BY Moves
<1>2. files' = files /\ Records' = Records
    BY DEF configVars, storage, Records
<1>3. \A p : Listed(p)' <=> Listed(p)
    BY <1>2 DEF Listed
<1>4. NoPath \notin DOMAIN files
    BY FontManagerAssumption
<1>5. OwnCopy'
    <2>1. \A s \in Thread : pc'[s] \in {"insert", "undo"} =>
            pc[s] \in {"insert", "undo"} /\ loc'[s].path = loc[s].path
        BY <1>1
    <2>2. \A s \in Thread : pc[s] \in {"insert", "undo"} =>
            l.path # loc[s].path \/ s = t
        BY <1>4 DEF FilesAgree, OwnCopy
    <2> QED
        BY <1>1, <1>2, <1>3, <2>1, <2>2 DEF FilesAgree, OwnCopy
<1>6. FileGone' /\ FileListed'
    BY <1>1, <1>2, <1>3 DEF FilesAgree, FileGone, FileListed
<1>7. NoOrphanFile'
    <2>1. NoOrphanFile
        BY DEF FilesAgree, DiskAgrees
    <2>2. \A s \in Thread : pc[s] \in {"insert", "undo"} =>
            pc'[s] \in {"insert", "undo"} /\ loc'[s].path = loc[s].path
        BY <1>1
    <2>3. \A s \in Thread : pc[s] # "insertScope"
        BY DEF UserControl, UserLocal, InstallLabel, UninstallLabel
    <2> QED
        BY <1>2, <1>3, <2>1, <2>2, <2>3 DEF NoOrphanFile
<1>8. NoDanglingRecord'
    <2>1. NoDanglingRecord
        BY DEF FilesAgree, DiskAgrees
    <2>2. \A s \in Thread :
            /\ pc[s] \in {"heal", "delete", "deleteScope", "deleteClean"}
            /\ Listed(loc[s].path)
            => pc'[s] = pc[s] /\ loc'[s] = loc[s]
        BY <1>1 DEF UserControl, UserLocal, InstallLabel, UninstallLabel
    <2> QED
        BY <1>2, <2>1, <2>2 DEF NoDanglingRecord, Listed
<1> QED
    BY <1>5, <1>6, <1>7, <1>8 DEF FilesAgree, DiskAgrees

(* A copy to a path that nothing mentions.                                 *)
LEMMA AgreeCopy ==
    ASSUME ControlOK, FilesAgree, NEW t \in Thread, NEW l, NEW p,
           pc[t] = "copy", Move(t, "insert", l), l.path = p, p \notin Mentioned,
           DOMAIN files' = DOMAIN files \cup {p}, UNCHANGED configVars
    PROVE  FilesAgree'
<1>1. /\ pc'[t] = "insert" /\ loc'[t] = l
      /\ \A s \in Thread \ {t} : pc'[s] = pc[s] /\ loc'[s] = loc[s]
    BY Moves
<1>2. Records' = Records /\ \A q : Listed(q)' <=> Listed(q)
    BY DEF configVars, Records, Listed
<1>3. /\ p \notin DOMAIN files /\ ~Listed(p)
      /\ \A s \in Thread : loc[s].path # p
    BY DEF Mentioned, Listed
<1>4. OwnCopy'
    BY <1>1, <1>2, <1>3 DEF FilesAgree, OwnCopy
<1>5. FileGone' /\ FileListed'
    BY <1>1, <1>2, <1>3 DEF FilesAgree, FileGone, FileListed
<1>6. NoOrphanFile'
    BY <1>1, <1>2, <1>3 DEF FilesAgree, DiskAgrees, NoOrphanFile
<1>7. NoDanglingRecord'
    BY <1>1, <1>2 DEF FilesAgree, DiskAgrees, NoDanglingRecord
<1> QED
    BY <1>4, <1>5, <1>6, <1>7 DEF FilesAgree, DiskAgrees

(* The insertion of the record of a copy.                                  *)
LEMMA AgreeInsert ==
    ASSUME ControlOK, FilesAgree, NEW t \in Thread, NEW l, NEW r,
           pc[t] = "insert", Move(t, "idle", l), l.path = NoPath, r.path = loc[t].path,
           Records' = Records \cup {r}, UNCHANGED files, DOMAIN files \subseteq Path
    PROVE  FilesAgree'
<1>1. /\ pc'[t] = "idle" /\ loc'[t] = l
      /\ \A s \in Thread \ {t} : pc'[s] = pc[s] /\ loc'[s] = loc[s]
    BY Moves
<1>2. \A q : Listed(q)' <=> Listed(q) \/ q = r.path
    BY DEF Listed
<1>3. NoPath \notin DOMAIN files
    BY FontManagerAssumption
<1>4. /\ r.path \in DOMAIN files
      /\ \A s \in Thread \ {t} : loc[s].path # r.path
    BY DEF FilesAgree, OwnCopy
<1>5. OwnCopy'
    BY <1>1, <1>2, <1>3, <1>4 DEF FilesAgree, OwnCopy
<1>6. FileGone' /\ FileListed'
    BY <1>1, <1>2 DEF FilesAgree, FileGone, FileListed
<1>7. NoOrphanFile'
    BY <1>1, <1>2 DEF FilesAgree, DiskAgrees, NoOrphanFile
<1>8. NoDanglingRecord'
    BY <1>1, <1>4 DEF FilesAgree, DiskAgrees, NoDanglingRecord
<1> QED
    BY <1>5, <1>6, <1>7, <1>8 DEF FilesAgree, DiskAgrees

(* The removal of a file: of a copy, or of an installed font.              *)
LEMMA AgreeRemove ==
    ASSUME ControlOK, FilesAgree, NEW t \in Thread, NEW label, NEW l,
           Move(t, label, l), DOMAIN files' = DOMAIN files \ {loc[t].path},
           UNCHANGED configVars, DOMAIN files \subseteq Path,
           \/ pc[t] = "undo" /\ label = "idle" /\ l.path = NoPath
           \/ pc[t] = "remove" /\ label = "delete" /\ l.path = loc[t].path
    PROVE  FilesAgree'
<1> DEFINE p == loc[t].path
<1>1. /\ pc'[t] = label /\ loc'[t] = l
      /\ \A s \in Thread \ {t} : pc'[s] = pc[s] /\ loc'[s] = loc[s]
    BY Moves
<1>2. Records' = Records /\ \A q : Listed(q)' <=> Listed(q)
    BY DEF configVars, Records, Listed
<1>3. NoPath \notin DOMAIN files
    BY FontManagerAssumption
<1>4. OwnCopy'
    <2>1. \A s \in Thread : pc'[s] \in {"insert", "undo"} =>
            s # t /\ pc[s] \in {"insert", "undo"} /\ loc'[s] = loc[s]
        BY <1>1
    <2>2. l.path \in {NoPath, p}
        OBVIOUS
    <2> QED
        BY <1>1, <1>2, <1>3, <2>1, <2>2 DEF FilesAgree, OwnCopy
<1>5. FileGone' /\ FileListed'
    BY <1>1, <1>2 DEF FilesAgree, FileGone, FileListed
<1>6. NoOrphanFile'
    BY <1>1, <1>2 DEF FilesAgree, DiskAgrees, NoOrphanFile
<1>7. NoDanglingRecord'
    <2> SUFFICES ASSUME NEW r \in Records, r.path \notin DOMAIN files'
                 PROVE  \E s \in Thread :
                            /\ pc'[s] \in {"heal", "delete", "deleteScope", "deleteClean"}
                            /\ loc'[s].path = r.path
        BY <1>2 DEF NoDanglingRecord
    <2>1. CASE r.path = p
        <3>1. Listed(p)
            BY <2>1 DEF Listed
        <3>2. pc[t] = "remove"
            BY <3>1 DEF FilesAgree, OwnCopy
        <3> QED
            BY <1>1, <2>1, <3>2
    <2>2. CASE r.path # p
        <3>1. r.path \notin DOMAIN files
            BY <2>2
        <3>2. PICK s \in Thread :
                /\ pc[s] \in {"heal", "delete", "deleteScope", "deleteClean"}
                /\ loc[s].path = r.path
            BY <3>1 DEF FilesAgree, DiskAgrees, NoDanglingRecord
        <3> QED
            BY <1>1, <3>2
    <2> QED
        BY <2>1, <2>2
<1> QED
    BY <1>4, <1>5, <1>6, <1>7 DEF FilesAgree, DiskAgrees

(* The deletion of the record of a file that is gone.                      *)
LEMMA AgreeDelete ==
    ASSUME ControlOK, FilesAgree, NEW t \in Thread, NEW label, NEW l,
           pc[t] \in {"heal", "delete"}, Move(t, label, l),
           label \in {"idle", "find", "count"}, l.path = NoPath,
           Records' = {r \in Records : r.path # loc[t].path},
           UNCHANGED files, DOMAIN files \subseteq Path
    PROVE  FilesAgree'
<1> DEFINE p == loc[t].path
<1>1. /\ pc'[t] = label /\ loc'[t] = l
      /\ \A s \in Thread \ {t} : pc'[s] = pc[s] /\ loc'[s] = loc[s]
    BY Moves
<1>2. \A q : Listed(q)' <=> Listed(q) /\ q # p
    BY DEF Listed
<1>3. NoPath \notin DOMAIN files
    BY FontManagerAssumption
<1>4. p \notin DOMAIN files
    BY DEF FilesAgree, FileGone
<1>5. OwnCopy'
    BY <1>1, <1>2, <1>3 DEF FilesAgree, OwnCopy
<1>6. FileGone' /\ FileListed'
    BY <1>1, <1>2, <1>4 DEF FilesAgree, FileGone, FileListed
<1>7. NoOrphanFile'
    BY <1>1, <1>2, <1>4 DEF FilesAgree, DiskAgrees, NoOrphanFile
<1>8. NoDanglingRecord'
    BY <1>1 DEF FilesAgree, DiskAgrees, NoDanglingRecord
<1> QED
    BY <1>5, <1>6, <1>7, <1>8 DEF FilesAgree, DiskAgrees

-----------------------------------------------------------------------------
(* The abstract state.                                                     *)

(* The call that a thread with these local variables serves at a label.    *)
CallAt(label, l) ==
    [op     |-> IF label = "undo" THEN "none" ELSE l.op,
     font   |-> IF label = "undo" THEN NoFont ELSE l.font,
     target |-> IF label \in TargetLabel THEN l.path ELSE NoPath,
     ret    |-> l.ret]

StoreStep == [Store!Next]_(Store!storeVars)

(* A move changes the call of its thread only.                             *)
LEMMA CallAfter ==
    ASSUME ControlOK, NEW t \in Thread, NEW label, NEW l, Move(t, label, l)
    PROVE  Store!Become(t, CallAt(label, l))
<1>1. /\ pc'[t] = label /\ loc'[t] = l
      /\ \A s \in Thread \ {t} : pc'[s] = pc[s] /\ loc'[s] = loc[s]
    BY Moves
<1>2. CallOf(t)' = CallAt(label, l)
    BY <1>1 DEF CallOf, CallAt, TargetLabel
<1>3. ASSUME NEW s \in Thread \ {t} PROVE CallOf(s)' = CallOf(s)
    BY <1>1 DEF CallOf
<1> QED
    BY <1>2, <1>3 DEF Store!Become

(* Both specifications count alike.                                        *)
LEMMA SameCount == \A S : Store!Cardinality(S) = Cardinality(S)
BY DEF Store!Cardinality, Cardinality

(* What a thread's call is.                                                *)
LEMMA CallNow ==
    ASSUME NEW t \in Thread
    PROVE  [s \in Thread |-> CallOf(s)][t] = CallAt(pc[t], loc[t])
BY DEF CallOf, CallAt, TargetLabel

(* The copies are the same as long as the records are.                     *)
LEMMA SameFonts ==
    ASSUME Records' = Records
    PROVE  Fonts' = Fonts /\ (UNCHANGED files => Leaving' = Leaving)
BY DEF Fonts, Leaving

(* The local variables after an assignment, and at the begin and the end   *)
(* of a call.                                                              *)
LEMMA LocalFields ==
    ASSUME NEW l \in Local
    PROVE  /\ \A p : LET m == [l EXCEPT !.path = p] IN
                /\ m.op = l.op /\ m.font = l.font /\ m.i = l.i /\ m.ret = l.ret
                /\ m.path = p
           /\ LET m == [l EXCEPT !.i = @ + 1, !.path = NoPath] IN
                /\ m.op = l.op /\ m.font = l.font /\ m.i = l.i + 1 /\ m.ret = l.ret
                /\ m.path = NoPath
           /\ \A ret : LET m == [l EXCEPT !.ret = ret] IN
                /\ m.op = l.op /\ m.font = l.font /\ m.i = l.i /\ m.ret = ret
                /\ m.path = l.path
BY DEF Local

LEMMA CallFields ==
    /\ \A ret : LET m == [Idle EXCEPT !.ret = ret] IN
        m.op = "none" /\ m.font = NoFont /\ m.path = NoPath /\ m.ret = ret
    /\ \A op, f : LET m == Begin(op, f, NoUrl, Root) IN
        /\ m.op = op /\ m.font = f /\ m.path = NoPath /\ m.ret = "none" /\ m.i = 1
        /\ \A p : LET n == [m EXCEPT !.path = p] IN
            n.op = op /\ n.font = f /\ n.path = p /\ n.ret = "none"
BY DEF Idle, Begin

(* A step of the control alone keeps the invariant and changes nothing but *)
(* the thread's call in the abstract store.                                *)
LEMMA Quiet ==
    ASSUME TypeInv, UserInv, NEW t \in Thread, NEW label, NEW l,
           Move(t, label, l), UserLocal(label, l), UNCHANGED <<configVars, storage>>,
           pc[t] \in {"insert", "undo"} => label \in {"insert", "undo"} /\ l.path = loc[t].path,
           pc[t] \in {"heal", "delete"} => ~Listed(loc[t].path),
           label \in {"insert", "undo"} => pc[t] \in {"insert", "undo"},
           label \in {"heal", "delete"} => l.path \notin DOMAIN files,
           label \in {"probe", "remove"} /\ l.path \in DOMAIN files => Listed(l.path),
           l.path \in {NoPath, loc[t].path} \/ Listed(l.path)
    PROVE  /\ UserInv'
           /\ Fonts' = Fonts /\ Leaving' = Leaving
           /\ Store!Become(t, CallAt(label, l))
<1>1. ControlOK /\ UserControl /\ FilesAgree /\ DOMAIN files \subseteq Path
    BY DEF TypeInv, StorageOK, UserInv
<1>2. FilesAgree'
    BY <1>1, AgreeMove
<1>3. UserControl'
    BY <1>1, MoveControl
<1>4. OneRecordPerPath' /\ Records' = Records /\ UNCHANGED files
    BY DEF UserInv, OneRecordPerPath, configVars, storage, Records
<1>5. Store!Become(t, CallAt(label, l))
    BY <1>1, CallAfter
<1> QED
    BY <1>2, <1>3, <1>4, <1>5, SameFonts DEF UserInv

(* Nothing happens in the abstract store when the thread's call stays.     *)
LEMMA Stutter ==
    ASSUME NEW t \in Thread, Store!Become(t, CallAt(pc[t], loc[t])),
           Fonts' = Fonts, Leaving' = Leaving
    PROVE  StoreStep
<1>1. [s \in Thread |-> CallOf(s)]' = [s \in Thread |-> CallOf(s)]
    BY CallNow DEF Store!Become
<1> QED
    BY <1>1 DEF StoreStep, Store!storeVars

(* What the invariants say of one thread.                                  *)
LEMMA OfThread ==
    ASSUME TypeInv, UserInv, NEW t \in Thread
    PROVE  /\ loc[t] \in Local /\ Ready(pc[t], loc[t]) /\ UserLocal(pc[t], loc[t])
           /\ loc[t].i \in Nat
           /\ ControlOK /\ ConfigTypeOK /\ OneRecordPerPath /\ FilesAgree
           /\ DOMAIN files \subseteq Path /\ configFile = "valid"
<1>1. loc[t] \in Local /\ Ready(pc[t], loc[t])
    BY LocalType
<1> QED
    BY <1>1 DEF TypeInv, UserInv, UserControl, StorageOK, OneRecordPerPath, Local

(* A call that answers while nothing else happens.                         *)
LEMMA AnswerOf ==
    ASSUME ControlOK, NEW t \in Thread, NEW code, Return(t, code)
    PROVE  \E l : /\ Move(t, "idle", l) /\ UserLocal("idle", l) /\ l.path = NoPath
                  /\ CallAt("idle", l) = Store!Answered(code)
<1> DEFINE l == [Idle EXCEPT !.ret = code]
<1>1. l.op = "none" /\ l.font = NoFont /\ l.path = NoPath /\ l.ret = code
    BY CallFields
<1>2. Move(t, "idle", l)
    BY DEF Return
<1> HIDE DEF l
<1>3. UserLocal("idle", l)
    BY <1>1 DEF UserLocal, InstallLabel, UninstallLabel, TargetLabel
<1>4. CallAt("idle", l) = Store!Answered(code)
    BY <1>1 DEF CallAt, TargetLabel, Store!Answered
<1> QED
    BY <1>1, <1>2, <1>3, <1>4

LEMMA QuietReturn ==
    ASSUME TypeInv, UserInv, NEW t \in Thread, NEW code, Return(t, code),
           UNCHANGED <<configVars, storage>>, pc[t] \notin {"insert", "undo"},
           pc[t] \in {"heal", "delete"} => ~Listed(loc[t].path)
    PROVE  UserInv' /\ Fonts' = Fonts /\ Leaving' = Leaving /\ Store!Answer(t, code)
<1>1. ControlOK
    BY DEF TypeInv
<1>2. PICK l : /\ Move(t, "idle", l) /\ UserLocal("idle", l) /\ l.path = NoPath
               /\ CallAt("idle", l) = Store!Answered(code)
    BY <1>1, AnswerOf
<1>3. /\ UserInv' /\ Fonts' = Fonts /\ Leaving' = Leaving
      /\ Store!Become(t, CallAt("idle", l))
    BY <1>2, Quiet
<1> QED
    BY <1>2, <1>3 DEF Store!Answer

-----------------------------------------------------------------------------
(* The steps of InstallFont.                                               *)

(* The call.                                                               *)
LEMMA InstallFontStep ==
    ASSUME TypeInv, UserInv, UserCalls, NEW t \in Thread, NEW f \in Font, InstallFont(t, f)
    PROVE  UserInv' /\ StoreStep
<1> DEFINE l == Begin("InstallFont", f, NoUrl, Root)
<1>1. UserLocal(pc[t], loc[t]) /\ configFile = "valid"
    BY OfThread
<1>2. pc[t] = "idle" /\ Move(t, "find", l) /\ UNCHANGED <<configVars, storage>>
    BY <1>1 DEF InstallFont, StartInstall, Start, At, AfterInit, UserCalls
<1>3. l.op = "InstallFont" /\ l.font = f /\ l.path = NoPath /\ l.ret = "none" /\ l.i = 1
    BY CallFields
<1> HIDE DEF l
<1>4. UserLocal("find", l)
    <2>1. FullNames[f] # <<>> => 1 \in DOMAIN FullNames[f]
        BY FontConfigAssumption
    <2> QED
        BY <1>3, <2>1 DEF UserLocal, InstallLabel, UninstallLabel, TargetLabel
<1>5. /\ UserInv' /\ Fonts' = Fonts /\ Leaving' = Leaving
      /\ Store!Become(t, CallAt("find", l))
    BY <1>2, <1>3, <1>4, Quiet
<1>6. Store!InstallFont(t, f)
    <2>1. CallAt("find", l) = Store!Serving("InstallFont", f, NoPath)
        BY <1>3 DEF CallAt, TargetLabel, Store!Serving
    <2>2. Store!Serves(t, "none")
        BY <1>1, <1>2, CallNow DEF Store!Serves, CallAt, UserLocal
    <2> QED
        BY <1>5, <2>1, <2>2 DEF Store!InstallFont
<1> QED
    BY <1>5, <1>6 DEF StoreStep, Store!Next

(* What NextName does: the next name, or the next label.                   *)
LEMMA NextNameMoves ==
    ASSUME TypeInv, NEW t \in Thread, NEW again, NEW done, NextName(t, again, done),
           loc[t].font \in Font, loc[t].i \in DOMAIN FullNames[loc[t].font]
    PROVE  \E label \in {again, done} : \E l :
                /\ Move(t, label, l)
                /\ l.op = loc[t].op /\ l.font = loc[t].font /\ l.ret = loc[t].ret
                /\ l.path = NoPath
                /\ l.i \in DOMAIN FullNames[loc[t].font]
<1> DEFINE m == [loc[t] EXCEPT !.i = @ + 1, !.path = NoPath]
           n == [loc[t] EXCEPT !.path = NoPath]
           names == FullNames[loc[t].font]
<1>1. loc[t] \in Local
    BY LocalType
<1>2. /\ m.op = loc[t].op /\ m.font = loc[t].font /\ m.i = loc[t].i + 1
      /\ m.ret = loc[t].ret /\ m.path = NoPath
      /\ n.op = loc[t].op /\ n.font = loc[t].font /\ n.i = loc[t].i
      /\ n.ret = loc[t].ret /\ n.path = NoPath
    BY <1>1, LocalFields
<1>3. \/ loc[t].i < Len(names) /\ Move(t, again, m)
      \/ Move(t, done, n)
    <2>1. loc[t].i \in Nat /\ Len(names) \in Nat
        BY <1>1, FontConfigAssumption DEF Local
    <2> QED
        BY <2>1 DEF NextName, LastName
<1> HIDE DEF m, n
<1>4. loc[t].i < Len(names) => loc[t].i + 1 \in DOMAIN names
    BY FontConfigAssumption
<1> QED
    BY <1>2, <1>3, <1>4

(* The search for a record with one of the full names.                     *)
LEMMA FindInstalledStep ==
    ASSUME TypeInv, UserInv, NEW t \in Thread, FindInstalled(t)
    PROVE  UserInv' /\ StoreStep
<1> DEFINE f == loc[t].font
<1>1. /\ loc[t] \in Local /\ UserLocal("find", loc[t]) /\ f \in Font
      /\ pc[t] = "find" /\ UNCHANGED <<configVars, storage>>
      /\ ConfigTypeOK /\ OneRecordPerPath /\ DOMAIN files \subseteq Path
    BY OfThread DEF FindInstalled, At, Ready
<1>2. /\ loc[t].op = "InstallFont" /\ loc[t].path = NoPath /\ loc[t].ret = "none"
      /\ FullNames[f] # <<>> => loc[t].i \in DOMAIN FullNames[f]
    BY <1>1 DEF UserLocal, InstallLabel
<1>3. Store!Serves(t, "InstallFont") /\ [s \in Thread |-> CallOf(s)][t].target = NoPath
      /\ [s \in Thread |-> CallOf(s)][t].font = f
    BY <1>1, <1>2, CallNow DEF Store!Serves, CallAt, TargetLabel
<1>4. CASE FullNames[f] = <<>> /\ Return(t, "ERR_FILE_VERIFY_FAIL")
    <2>1. /\ UserInv' /\ Fonts' = Fonts /\ Leaving' = Leaving
          /\ Store!Answer(t, "ERR_FILE_VERIFY_FAIL")
        BY <1>1, <1>4, QuietReturn
    <2>2. NamesOf(f) = {}
        BY <1>4 DEF NamesOf
    <2>3. Store!Refuse(t)
        BY <1>1, <1>3, <2>1, <2>2 DEF Store!Refuse
    <2> QED
        BY <2>1, <2>3 DEF StoreStep, Store!Next
<1>5. CASE FullNames[f] # <<>> /\ NextName(t, "find", "count")
    <2>1. PICK label, l :
                /\ label \in {"find", "count"}
                /\ Move(t, label, l)
                /\ l.op = loc[t].op /\ l.font = f /\ l.ret = loc[t].ret
                /\ l.path = NoPath
                /\ l.i \in DOMAIN FullNames[f]
        BY <1>1, <1>2, <1>5, NextNameMoves
    <2>2. UserLocal(label, l)
        BY <1>2, <2>1 DEF UserLocal, InstallLabel, UninstallLabel, TargetLabel
    <2>3. /\ UserInv' /\ Fonts' = Fonts /\ Leaving' = Leaving
          /\ Store!Become(t, CallAt(label, l))
        BY <1>1, <2>1, <2>2, Quiet
    <2>4. CallAt(label, l) = CallAt(pc[t], loc[t])
        BY <1>1, <2>1 DEF CallAt, TargetLabel
    <2> QED
        BY <2>3, <2>4, Stutter
<1>6. CASE /\ FullNames[f] # <<>> /\ HasName(FullName(t))
           /\ Move(t, "probe", [loc[t] EXCEPT !.path = GetFontFileByName(FullName(t))])
    <2> DEFINE p == GetFontFileByName(FullName(t))
               l == [loc[t] EXCEPT !.path = p]
               n == FullName(t)
    <2>1. \E r \in Records : r.path = p /\ n \in r.names
        <3> DEFINE i == Min(WithName(n))
        <3>1. DOMAIN fontlist \subseteq Nat /\ WithName(n) \subseteq DOMAIN fontlist
            BY <1>1 DEF ConfigTypeOK, WithName
        <3>2. i \in WithName(n)
            BY <1>6, <3>1, MinOfMatches DEF HasName
        <3>3. p = fontlist[i].path
            BY DEF GetFontFileByName, GetFontRecordByName, First
        <3> HIDE DEF i, p, n
        <3> QED
            BY <3>2, <3>3 DEF WithName, Records
    <2>2. /\ l.op = loc[t].op /\ l.font = f /\ l.ret = loc[t].ret /\ l.path = p
          /\ l.i = loc[t].i
          /\ Move(t, "probe", l)
        BY <1>1, <1>6, LocalFields
    <2>3. n \in NamesOf(f)
        BY <1>2, <1>6 DEF NamesOf, FullName
    <2> HIDE DEF l, p, n
    <2>4. PICK r \in Records : r.path = p /\ n \in r.names
        BY <2>1
    <2>5. Listed(p) /\ p \in Path
        <3>1. Records \subseteq FontRecordInfo
            BY <1>1 DEF Records, ConfigTypeOK
        <3>2. p \in Path
            BY <2>4, <3>1 DEF FontRecordInfo
        <3> QED
            BY <2>4, <3>2 DEF Listed
    <2>6. UserLocal("probe", l)
        BY <1>1, <1>2, <1>6, <2>2, <2>5, LocalFields
        DEF UserLocal, InstallLabel, UninstallLabel, TargetLabel
    <2>7. /\ UserInv' /\ Fonts' = Fonts /\ Leaving' = Leaving
          /\ Store!Become(t, CallAt("probe", l))
        BY <1>1, <2>2, <2>5, <2>6, Quiet
    <2>8. CallAt("probe", l) = Store!Serving("InstallFont", f, p)
        BY <1>2, <2>2 DEF CallAt, TargetLabel, Store!Serving
    <2>9. p \in DOMAIN Fonts /\ Fonts[p] = r.names
        BY <1>1, <2>4, FontsOfRecords
    <2>10. Store!ComeUpon(t, p)
        BY <1>1, <1>3, <2>3, <2>4, <2>7, <2>8, <2>9 DEF Store!ComeUpon
    <2> QED
        BY <2>7, <2>9, <2>10 DEF StoreStep, Store!Next, Store!Copies
<1> QED
    BY <1>4, <1>5, <1>6 DEF FindInstalled

(* The look at the file of that record.                                    *)
LEMMA ProbeInstalledStep ==
    ASSUME TypeInv, UserInv, NEW t \in Thread, ProbeInstalled(t)
    PROVE  UserInv' /\ StoreStep
<1> DEFINE p == loc[t].path
<1>1. /\ loc[t] \in Local /\ UserLocal("probe", loc[t]) /\ pc[t] = "probe"
      /\ UNCHANGED <<configVars, storage>>
      /\ OneRecordPerPath /\ FilesAgree
    BY OfThread DEF ProbeInstalled, At
<1>2. loc[t].op = "InstallFont" /\ p \in Path
    BY <1>1 DEF UserLocal, InstallLabel, TargetLabel
<1>3. /\ Store!Serves(t, "InstallFont")
      /\ [s \in Thread |-> CallOf(s)][t].target = p
    BY <1>1, <1>2, CallNow DEF Store!Serves, CallAt, TargetLabel
<1>4. CASE p \in DOMAIN files /\ Return(t, "ERR_INSTALLED_ALRADY")
    <2>1. /\ UserInv' /\ Fonts' = Fonts /\ Leaving' = Leaving
          /\ Store!Answer(t, "ERR_INSTALLED_ALRADY")
        BY <1>1, <1>4, QuietReturn
    <2>2. p \in DOMAIN Fonts \ Leaving
        BY <1>1, <1>4, FontsOfRecords DEF FilesAgree, FileListed, Leaving
    <2>3. Store!Refuse(t)
        BY <1>3, <2>1, <2>2 DEF Store!Refuse, Store!Copies
    <2> QED
        BY <2>1, <2>3 DEF StoreStep, Store!Next
<1>5. CASE p \notin DOMAIN files /\ Move(t, "heal", loc[t])
    <2>1. UserLocal("heal", loc[t])
        BY <1>1 DEF UserLocal, InstallLabel, UninstallLabel, TargetLabel
    <2>2. /\ UserInv' /\ Fonts' = Fonts /\ Leaving' = Leaving
          /\ Store!Become(t, CallAt("heal", loc[t]))
        BY <1>1, <1>5, <2>1, Quiet
    <2>3. CallAt("heal", loc[t]) = CallAt(pc[t], loc[t])
        BY <1>1 DEF CallAt, TargetLabel
    <2> QED
        BY <2>2, <2>3, Stutter
<1> QED
    BY <1>4, <1>5 DEF ProbeInstalled, Continue

(* What a deletion does to the abstract store: the copy is forgotten.      *)
LEMMA DeletionForgets ==
    ASSUME TypeInv, UserInv, UserCalls, NEW t \in Thread, pc[t] \in {"heal", "delete"},
           DeleteFontRecord(loc[t].path, TRUE), UNCHANGED storage,
           NEW label \in {"idle", "find", "count"}, NEW l,
           Move(t, label, l), UserLocal(label, l), l.path = NoPath
    PROVE  /\ UserInv'
           /\ loc[t].path \in Leaving
           /\ Store!Forget(loc[t].path)
           /\ Store!Become(t, CallAt(label, l))
<1> DEFINE p == loc[t].path
<1>1. /\ ConfigTypeOK /\ OneRecordPerPath /\ FilesAgree /\ ControlOK /\ UserControl
      /\ DOMAIN files \subseteq Path
    BY OfThread DEF UserInv
<1>2. /\ Listed(p)
      /\ Records' = {r \in Records : r.path # p} /\ OneRecordPerPath'
    BY <1>1, DeletedRecord DEF UserCalls
<1>3. UNCHANGED files
    BY DEF storage
<1>4. UserInv'
    <2>1. FilesAgree'
        BY <1>1, <1>2, <1>3, AgreeDelete
    <2>2. UserControl'
        BY <1>1, MoveControl
    <2> QED
        BY <1>2, <2>1, <2>2 DEF UserInv
<1>5. p \in DOMAIN Fonts /\ p \notin DOMAIN files
    BY <1>1, <1>2, FontsOfRecords DEF FilesAgree, FileGone
<1>6. Fonts' = [q \in DOMAIN Fonts \ {p} |-> Fonts[q]]
    BY <1>1, <1>2, FontsAfterDelete
<1>7. Leaving' = Leaving \ {p}
    BY <1>3, <1>6 DEF Leaving
<1> QED
    BY <1>1, <1>4, <1>5, <1>6, <1>7, CallAfter DEF Store!Forget, Store!Copies, Leaving

(* The deletion of the record of a missing file.                           *)
LEMMA HealRecordStep ==
    ASSUME TypeInv, UserInv, UserCalls, NEW t \in Thread, HealRecord(t)
    PROVE  UserInv' /\ StoreStep
<1> DEFINE p == loc[t].path
           f == loc[t].font
<1>1. /\ loc[t] \in Local /\ UserLocal("heal", loc[t]) /\ f \in Font
      /\ pc[t] = "heal" /\ UNCHANGED storage
      /\ ConfigTypeOK /\ OneRecordPerPath
    BY OfThread DEF HealRecord, At, Ready
<1>2. loc[t].op = "InstallFont" /\ p \in Path /\ loc[t].ret = "none"
    BY <1>1 DEF UserLocal, InstallLabel, TargetLabel
<1>3. /\ Store!Serves(t, "InstallFont")
      /\ [s \in Thread |-> CallOf(s)][t].target = p
      /\ [s \in Thread |-> CallOf(s)][t].font = f
    BY <1>1, <1>2, CallNow DEF Store!Serves, CallAt, TargetLabel
<1>4. CASE DeleteFontRecord(p, TRUE) /\ NextName(t, "find", "count")
    <2>1. PICK label, l :
                /\ label \in {"find", "count"}
                /\ Move(t, label, l)
                /\ l.op = loc[t].op /\ l.font = f /\ l.ret = loc[t].ret
                /\ l.path = NoPath
                /\ l.i \in DOMAIN FullNames[f]
        BY <1>1, <1>4, NextNameMoves DEF UserLocal
    <2>2. UserLocal(label, l)
        BY <1>2, <2>1 DEF UserLocal, InstallLabel, UninstallLabel, TargetLabel
    <2>3. /\ UserInv' /\ p \in Leaving /\ Store!Forget(p)
          /\ Store!Become(t, CallAt(label, l))
        BY <1>1, <1>4, <2>1, <2>2, DeletionForgets
    <2>4. CallAt(label, l) = Store!Serving("InstallFont", f, NoPath)
        BY <1>2, <2>1 DEF CallAt, TargetLabel, Store!Serving
    <2>5. Store!MakeWay(t)
        BY <1>3, <2>3, <2>4 DEF Store!MakeWay
    <2> QED
        BY <2>3, <2>5 DEF StoreStep, Store!Next
<1>5. CASE DeleteFontRecord(p, FALSE) /\ Return(t, "ERR_INSTALL_FAIL")
    <2>1. ~Listed(p) /\ UNCHANGED configVars
        BY <1>1, <1>5, DeletedRecord DEF UserCalls
    <2>2. /\ UserInv' /\ Fonts' = Fonts /\ Leaving' = Leaving
          /\ Store!Answer(t, "ERR_INSTALL_FAIL")
        BY <1>1, <1>5, <2>1, QuietReturn
    <2>3. p \notin DOMAIN Fonts /\ p # NoPath
        BY <1>1, <1>2, <2>1, FontsOfRecords, FontManagerAssumption
    <2>4. Store!Refuse(t)
        BY <1>3, <2>2, <2>3 DEF Store!Refuse, Store!Copies
    <2> QED
        BY <2>2, <2>4 DEF StoreStep, Store!Next
<1> QED
    BY <1>4, <1>5 DEF HealRecord

(* The count before the copy.                                              *)
LEMMA CheckInstalledNumStep ==
    ASSUME TypeInv, UserInv, NEW t \in Thread, CheckInstalledNum(t)
    PROVE  UserInv' /\ StoreStep
<1>1. /\ loc[t] \in Local /\ UserLocal("count", loc[t]) /\ pc[t] = "count"
      /\ UNCHANGED <<configVars, storage>> /\ ConfigTypeOK /\ OneRecordPerPath
    BY OfThread DEF CheckInstalledNum, At
<1>2. loc[t].op = "InstallFont" /\ loc[t].path = NoPath /\ loc[t].ret = "none"
    BY <1>1 DEF UserLocal, InstallLabel
<1>3. /\ Store!Serves(t, "InstallFont")
      /\ [s \in Thread |-> CallOf(s)][t].target = NoPath
    BY <1>1, <1>2, CallNow DEF Store!Serves, CallAt, TargetLabel
<1>4. CASE Len(fontlist) >= MaxInstallNum /\ Return(t, "ERR_MAX_FILE_COUNT")
    <2>1. /\ UserInv' /\ Fonts' = Fonts /\ Leaving' = Leaving
          /\ Store!Answer(t, "ERR_MAX_FILE_COUNT")
        BY <1>1, <1>4, QuietReturn
    <2>2. Store!Cardinality(DOMAIN Fonts) >= MaxInstallNum
        BY <1>1, <1>4, CopiesAreCounted, SameCount
    <2>3. Store!Refuse(t)
        BY <1>3, <2>1, <2>2 DEF Store!Refuse, Store!Copies
    <2> QED
        BY <2>1, <2>3 DEF StoreStep, Store!Next
<1>5. CASE Move(t, "copy", loc[t])
    <2>1. UserLocal("copy", loc[t])
        BY <1>1 DEF UserLocal, InstallLabel, UninstallLabel, TargetLabel
    <2>2. /\ UserInv' /\ Fonts' = Fonts /\ Leaving' = Leaving
          /\ Store!Become(t, CallAt("copy", loc[t]))
        BY <1>1, <1>5, <2>1, Quiet
    <2>3. CallAt("copy", loc[t]) = CallAt(pc[t], loc[t])
        BY <1>1 DEF CallAt, TargetLabel
    <2> QED
        BY <2>2, <2>3, Stutter
<1> QED
    BY <1>4, <1>5 DEF CheckInstalledNum, Continue, GetInstalledFontsNum

(* The copy, which the abstract store does not see before its record.      *)
LEMMA CopyFontStep ==
    ASSUME TypeInv, UserInv, UserCalls, NEW t \in Thread, CopyFont(t)
    PROVE  UserInv' /\ StoreStep
<1>1. /\ loc[t] \in Local /\ UserLocal("copy", loc[t]) /\ pc[t] = "copy"
      /\ OneRecordPerPath /\ FilesAgree /\ ControlOK /\ UserControl
    BY OfThread DEF CopyFont, At, UserInv
<1>2. loc[t].op = "InstallFont" /\ loc[t].path = NoPath /\ loc[t].ret = "none"
    BY <1>1 DEF UserLocal, InstallLabel
<1>3. /\ Store!Serves(t, "InstallFont")
      /\ [s \in Thread |-> CallOf(s)][t].target = NoPath
    BY <1>1, <1>2, CallNow DEF Store!Serves, CallAt, TargetLabel
<1>4. ASSUME NEW k \in Tag, TimeTag(t, k), files' = WithFile(DestPath(t, k), loc[t].font),
             Move(t, "insert", [loc[t] EXCEPT !.path = DestPath(t, k)]),
             UNCHANGED <<configVars, dirs>>
      PROVE  UserInv' /\ StoreStep
    <2> DEFINE p == DestPath(t, k)
               l == [loc[t] EXCEPT !.path = p]
    <2>1. p \notin Mentioned
        BY <1>4 DEF TimeTag, UserCalls
    <2>2. l.op = loc[t].op /\ l.font = loc[t].font /\ l.ret = loc[t].ret /\ l.path = p
        BY <1>1, LocalFields
    <2>3. DOMAIN files' = DOMAIN files \cup {p}
        BY <1>4 DEF WithFile
    <2>4. Move(t, "insert", l)
        BY <1>4
    <2> HIDE DEF p, l
    <2>5. UserLocal("insert", l)
        BY <1>2, <2>2 DEF UserLocal, InstallLabel, UninstallLabel, TargetLabel
    <2>6. FilesAgree'
        BY <1>1, <1>4, <2>1, <2>2, <2>3, <2>4, AgreeCopy
    <2>7. UserControl' /\ Store!Become(t, CallAt("insert", l))
        BY <1>1, <2>4, <2>5, MoveControl, CallAfter
    <2>8. OneRecordPerPath' /\ Records' = Records
        BY <1>1, <1>4 DEF OneRecordPerPath, configVars, Records
    <2>9. Fonts' = Fonts
        BY <2>8, SameFonts
    <2>10. p \notin DOMAIN Fonts
        BY <2>1 DEF Mentioned, Fonts
    <2>11. Leaving' = Leaving
        BY <2>3, <2>9, <2>10 DEF Leaving
    <2>12. CallAt("insert", l) = CallAt(pc[t], loc[t])
        BY <1>1, <1>2, <2>2 DEF CallAt, TargetLabel
    <2> QED
        BY <2>6, <2>7, <2>8, <2>9, <2>11, <2>12, Stutter DEF UserInv
<1>5. CASE Return(t, "ERR_COPY_FAIL") /\ UNCHANGED <<configVars, storage>>
    <2>1. /\ UserInv' /\ Fonts' = Fonts /\ Leaving' = Leaving
          /\ Store!Answer(t, "ERR_COPY_FAIL")
        BY <1>1, <1>5, QuietReturn
    <2>2. Store!Refuse(t)
        BY <1>3, <2>1 DEF Store!Refuse
    <2> QED
        BY <2>1, <2>2 DEF StoreStep, Store!Next
<1> QED
    BY <1>4, <1>5 DEF CopyFont, CopyFileForInstall

(* The insertion: the copy is installed, or there are too many.            *)
LEMMA InsertFontStep ==
    ASSUME TypeInv, UserInv, UserCalls, NEW t \in Thread, InsertFont(t)
    PROVE  UserInv' /\ StoreStep
<1> DEFINE p == loc[t].path
           f == loc[t].font
           r == UserRecord(p, NamesOf(f))
<1>1. /\ loc[t] \in Local /\ UserLocal("insert", loc[t]) /\ pc[t] = "insert"
      /\ f \in Font /\ p \in Path /\ UNCHANGED storage /\ configFile = "valid"
      /\ ConfigTypeOK /\ OneRecordPerPath /\ FilesAgree /\ ControlOK /\ UserControl
      /\ DOMAIN files \subseteq Path
    BY OfThread DEF InsertFont, At, Ready, UserInv
<1>2. /\ loc[t].op = "InstallFont" /\ loc[t].ret = "none"
      /\ p \in DOMAIN files /\ ~Listed(p)
    BY <1>1 DEF UserLocal, InstallLabel, FilesAgree, OwnCopy
<1>3. /\ Store!Serves(t, "InstallFont")
      /\ [s \in Thread |-> CallOf(s)][t].target = NoPath
      /\ [s \in Thread |-> CallOf(s)][t].font = f
    BY <1>1, <1>2, CallNow DEF Store!Serves, CallAt, TargetLabel
<1>4. WithPath(p) = {}
    BY <1>2 DEF Listed, Records, WithPath
<1>5. CASE /\ Len(fontlist) >= MaxInstallNum /\ UNCHANGED configVars
           /\ Move(t, "undo", [loc[t] EXCEPT !.ret = "ERR_MAX_FILE_COUNT"])
    <2> DEFINE l == [loc[t] EXCEPT !.ret = "ERR_MAX_FILE_COUNT"]
    <2>1. l.op = "InstallFont" /\ l.ret = "ERR_MAX_FILE_COUNT" /\ l.path = p
        BY <1>1, <1>2, LocalFields
    <2>2. Move(t, "undo", l)
        BY <1>5
    <2> HIDE DEF l
    <2>3. UserLocal("undo", l)
        BY <2>1 DEF UserLocal, InstallLabel, UninstallLabel, TargetLabel
    <2>4. /\ UserInv' /\ Fonts' = Fonts /\ Leaving' = Leaving
          /\ Store!Become(t, CallAt("undo", l))
        BY <1>1, <1>5, <2>1, <2>2, <2>3, Quiet
    <2>5. CallAt("undo", l) = Store!Answered("ERR_MAX_FILE_COUNT")
        BY <2>1 DEF CallAt, TargetLabel, Store!Answered
    <2>6. Store!Cardinality(DOMAIN Fonts) >= MaxInstallNum
        BY <1>1, <1>5, CopiesAreCounted, SameCount
    <2>7. Store!Refuse(t)
        BY <1>3, <2>4, <2>5, <2>6 DEF Store!Refuse, Store!Copies, Store!Answer
    <2> QED
        BY <2>4, <2>7 DEF StoreStep, Store!Next
<1>6. CASE /\ Len(fontlist) < MaxInstallNum /\ Return(t, "ERR_OK")
           /\ fontlist' = Append(fontlist, r) /\ configFile' = "valid"
    <2>1. r \in FontRecordInfo /\ r.path = p /\ r.names = NamesOf(f) /\ r.scope = "none"
        BY <1>1, NamesType DEF UserRecord, FontRecordInfo, Scope, SrcPath, Dir
    <2> HIDE DEF r
    <2>2. Records' = Records \cup {r} /\ OneRecordPerPath'
        BY <1>1, <1>2, <1>6, <2>1, RecordsAfterInsert
    <2>3. PICK l : /\ Move(t, "idle", l) /\ UserLocal("idle", l) /\ l.path = NoPath
                   /\ CallAt("idle", l) = Store!Answered("ERR_OK")
        BY <1>1, <1>6, AnswerOf
    <2>4. UNCHANGED files
        BY <1>1 DEF storage
    <2>5. FilesAgree'
        BY <1>1, <2>1, <2>2, <2>3, <2>4, AgreeInsert
    <2>6. UserControl' /\ Store!Answer(t, "ERR_OK")
        BY <1>1, <2>3, MoveControl, CallAfter DEF Store!Answer
    <2>7. Fonts' = [q \in DOMAIN Fonts \cup {p} |-> IF q = p THEN NamesOf(f) ELSE Fonts[q]]
        <3>1. Fonts' = [q \in DOMAIN Fonts \cup {r.path} |->
                            IF q = r.path THEN r.names ELSE Fonts[q]]
            BY <1>1, <1>2, <2>1, <2>2, FontsAfterInsert
        <3> QED
            BY <2>1, <3>1
    <2>8. Leaving' = Leaving
        BY <1>2, <2>4, <2>7 DEF Leaving
    <2>9. p \notin DOMAIN Fonts /\ Store!Cardinality(DOMAIN Fonts) < MaxInstallNum
        BY <1>1, <1>2, <1>6, FontsOfRecords, CopiesAreCounted, SameCount
    <2>10. Store!Accept(t, p)
        BY <1>1, <1>3, <2>6, <2>7, <2>8, <2>9 DEF Store!Accept, Store!Copies
    <2> QED
        BY <1>1, <2>2, <2>5, <2>6, <2>10 DEF StoreStep, Store!Next, UserInv
<1> HIDE DEF r
<1>7. PICK ret \in Code :
        /\ InsertFontRecordIfUnderLimit(p, NamesOf(f), ret)
        /\ \/ ret = "ERR_OK" /\ Return(t, ret)
           \/ ret # "ERR_OK" /\ Move(t, "undo", [loc[t] EXCEPT !.ret = ret])
    BY DEF InsertFont
<1>8. \/ /\ Len(fontlist) >= MaxInstallNum /\ UNCHANGED configVars
         /\ ret = "ERR_MAX_FILE_COUNT"
      \/ /\ Len(fontlist) < MaxInstallNum /\ ret = "ERR_OK"
         /\ fontlist' = Append(fontlist, r) /\ configFile' = "valid"
    BY <1>1, <1>4, <1>7 DEF InsertFontRecordIfUnderLimit, Parses, WriteToFile, UserCalls, r
<1> QED
    BY <1>5, <1>6, <1>7, <1>8

(* The copy of a refused installation is removed.                          *)
LEMMA UndoCopyStep ==
    ASSUME TypeInv, UserInv, UserCalls, NEW t \in Thread, UndoCopy(t)
    PROVE  UserInv' /\ StoreStep
<1> DEFINE p == loc[t].path
<1>1. /\ pc[t] = "undo" /\ Return(t, loc[t].ret) /\ UNCHANGED configVars
      /\ OneRecordPerPath /\ FilesAgree /\ ControlOK /\ UserControl
      /\ DOMAIN files \subseteq Path
    BY OfThread DEF UndoCopy, At, UserInv
<1>2. DOMAIN files' = DOMAIN files \ {p}
    BY DEF UndoCopy, RemoveFile, Without, UserCalls
<1>3. PICK l : /\ Move(t, "idle", l) /\ UserLocal("idle", l) /\ l.path = NoPath
               /\ CallAt("idle", l) = Store!Answered(loc[t].ret)
    BY <1>1, AnswerOf
<1>4. FilesAgree'
    BY <1>1, <1>2, <1>3, AgreeRemove
<1>5. UserControl' /\ Store!Become(t, CallAt("idle", l))
    BY <1>1, <1>3, MoveControl, CallAfter
<1>6. OneRecordPerPath' /\ Records' = Records
    BY <1>1 DEF OneRecordPerPath, configVars, Records
<1>7. Fonts' = Fonts
    BY <1>6, SameFonts
<1>8. p \notin DOMAIN Fonts
    BY <1>1, FontsOfRecords DEF FilesAgree, OwnCopy
<1>9. Leaving' = Leaving
    BY <1>2, <1>7, <1>8 DEF Leaving
<1>10. CallAt("idle", l) = CallAt(pc[t], loc[t])
    BY <1>1, <1>3 DEF CallAt, TargetLabel, Store!Answered
<1> QED
    BY <1>4, <1>5, <1>6, <1>7, <1>9, <1>10, Stutter DEF UserInv

-----------------------------------------------------------------------------
(* The steps of UninstallFont.                                             *)

(* The look-up.                                                            *)
LEMMA UninstallFontStep ==
    ASSUME TypeInv, UserInv, NEW t \in Thread, NEW n \in Name, UninstallFont(t, n)
    PROVE  UserInv' /\ StoreStep
<1> DEFINE r == GetFontRecordByName(n)
<1>1. /\ pc[t] = "idle" /\ UserLocal("idle", loc[t]) /\ UNCHANGED <<configVars, storage>>
      /\ ConfigTypeOK /\ OneRecordPerPath
    BY OfThread DEF UninstallFont, At
<1>2. Store!Serves(t, "none")
    BY <1>1, CallNow DEF Store!Serves, CallAt, UserLocal
<1>3. /\ DOMAIN Fonts = {s.path : s \in Records}
      /\ \A s \in Records : Fonts[s.path] = s.names
    BY <1>1, FontsOfRecords
<1>4. ASSUME HasName(n) PROVE r \in Records /\ n \in r.names /\ r.scope = "none"
    <2> DEFINE i == Min(WithName(n))
    <2>1. DOMAIN fontlist \subseteq Nat /\ WithName(n) \subseteq DOMAIN fontlist
        BY <1>1 DEF ConfigTypeOK, WithName
    <2>2. i \in WithName(n)
        BY <1>4, <2>1, MinOfMatches DEF HasName
    <2>3. r = fontlist[i]
        BY DEF GetFontRecordByName, First
    <2> HIDE DEF i, r
    <2> QED
        BY <1>1, <2>2, <2>3 DEF WithName, Records, OneRecordPerPath
<1> HIDE DEF r
<1>5. CASE ~HasName(n) /\ Return(t, "ERR_UNINSTALL_FILE_NOT_EXISTS")
    <2>1. /\ UserInv' /\ Fonts' = Fonts /\ Leaving' = Leaving
          /\ Store!Answer(t, "ERR_UNINSTALL_FILE_NOT_EXISTS")
        BY <1>1, <1>5, QuietReturn
    <2>2. \A c \in DOMAIN Fonts : n \notin Fonts[c]
        BY <1>3, <1>5 DEF HasName, WithName, Records
    <2>3. Store!UninstallFont(t, n)
        BY <1>2, <2>1, <2>2 DEF Store!UninstallFont, Store!Copies
    <2> QED
        BY <2>1, <2>3 DEF StoreStep, Store!Next
<1>6. CASE /\ HasName(n)
           /\ Move(t, "remove", [Begin("UninstallFont", NoFont, NoUrl, Root)
                                   EXCEPT !.path = r.path])
    <2> DEFINE p == r.path
               l == [Begin("UninstallFont", NoFont, NoUrl, Root) EXCEPT !.path = p]
    <2>1. l.op = "UninstallFont" /\ l.font = NoFont /\ l.path = p /\ l.ret = "none"
        BY CallFields
    <2>2. Move(t, "remove", l)
        BY <1>6
    <2> HIDE DEF l
    <2>3. Listed(p) /\ p \in Path /\ p \in DOMAIN Fonts /\ n \in Fonts[p]
        <3>1. Records \subseteq FontRecordInfo
            BY <1>1 DEF Records, ConfigTypeOK
        <3>2. p \in Path
            BY <1>4, <1>6, <3>1 DEF FontRecordInfo
        <3> QED
            BY <1>3, <1>4, <1>6, <3>2 DEF Listed
    <2> HIDE DEF p
    <2>4. UserLocal("remove", l)
        BY <2>1, <2>3 DEF UserLocal, InstallLabel, UninstallLabel, TargetLabel
    <2>5. /\ UserInv' /\ Fonts' = Fonts /\ Leaving' = Leaving
          /\ Store!Become(t, CallAt("remove", l))
        BY <1>1, <2>1, <2>2, <2>3, <2>4, Quiet
    <2>6. CallAt("remove", l) = Store!Serving("UninstallFont", NoFont, p)
        BY <2>1 DEF CallAt, TargetLabel, Store!Serving
    <2>7. Store!UninstallFont(t, n)
        BY <1>2, <2>3, <2>5, <2>6 DEF Store!UninstallFont, Store!Copies
    <2> QED
        BY <2>5, <2>7 DEF StoreStep, Store!Next
<1> QED
    BY <1>4, <1>5, <1>6 DEF UninstallFont, r

(* The removal of the file: the copy is installed no longer.               *)
LEMMA RemoveFontStep ==
    ASSUME TypeInv, UserInv, UserCalls, NEW t \in Thread, RemoveFont(t)
    PROVE  UserInv' /\ StoreStep
<1> DEFINE p == loc[t].path
<1>1. /\ pc[t] = "remove" /\ UserLocal("remove", loc[t])
      /\ OneRecordPerPath /\ FilesAgree /\ ControlOK /\ UserControl
      /\ DOMAIN files \subseteq Path
    BY OfThread DEF RemoveFont, At, UserInv
<1>2. /\ DOMAIN files' = DOMAIN files \ {p} /\ Move(t, "delete", loc[t])
      /\ UNCHANGED configVars
    BY DEF RemoveFont, RemoveThen, RemoveFile, Without, Continue, UserCalls
<1>3. UserLocal("delete", loc[t])
    BY <1>1 DEF UserLocal, InstallLabel, UninstallLabel, TargetLabel
<1>4. FilesAgree'
    BY <1>1, <1>2, AgreeRemove
<1>5. UserControl' /\ Store!Become(t, CallAt("delete", loc[t]))
    BY <1>1, <1>2, <1>3, MoveControl, CallAfter
<1>6. OneRecordPerPath' /\ Records' = Records
    BY <1>1, <1>2 DEF OneRecordPerPath, configVars, Records
<1>7. Fonts' = Fonts
    BY <1>6, SameFonts
<1>8. CallAt("delete", loc[t]) = CallAt(pc[t], loc[t])
    BY <1>1 DEF CallAt, TargetLabel
<1>9. UserInv'
    BY <1>4, <1>5, <1>6 DEF UserInv
<1>10. CASE p \notin DOMAIN Fonts
    <2>1. Leaving' = Leaving
        BY <1>2, <1>7, <1>10 DEF Leaving
    <2> QED
        BY <1>5, <1>7, <1>8, <1>9, <2>1, Stutter
<1>11. CASE p \in DOMAIN Fonts
    <2>1. Leaving' = Leaving \cup {p}
        BY <1>2, <1>7, <1>11 DEF Leaving
    <2>2. /\ Store!Serves(t, "UninstallFont")
          /\ [s \in Thread |-> CallOf(s)][t].target = p
        BY <1>1, CallNow
        DEF Store!Serves, CallAt, TargetLabel, UserLocal, UninstallLabel
    <2>3. [s \in Thread |-> CallOf(s)]' = [s \in Thread |-> CallOf(s)]
        BY <1>5, <1>8, CallNow DEF Store!Become
    <2>4. Store!Remove(t)
        BY <1>7, <1>11, <2>1, <2>2, <2>3 DEF Store!Remove, Store!Copies
    <2> QED
        BY <1>9, <2>4 DEF StoreStep, Store!Next
<1> QED
    BY <1>10, <1>11

(* The deletion of the record, in which one call only succeeds.            *)
LEMMA DeleteFontStep ==
    ASSUME TypeInv, UserInv, UserCalls, NEW t \in Thread, DeleteFont(t)
    PROVE  UserInv' /\ StoreStep
<1> DEFINE p == loc[t].path
<1>1. /\ pc[t] = "delete" /\ UserLocal("delete", loc[t]) /\ UNCHANGED storage
      /\ ConfigTypeOK /\ OneRecordPerPath /\ ControlOK
    BY OfThread DEF DeleteFont, At
<1>2. /\ Store!Serves(t, "UninstallFont")
      /\ [s \in Thread |-> CallOf(s)][t].target = p
    BY <1>1, CallNow
    DEF Store!Serves, CallAt, TargetLabel, UserLocal, UninstallLabel
<1>3. CASE DeleteFontRecord(p, TRUE) /\ Return(t, "ERR_OK")
    <2>1. PICK l : /\ Move(t, "idle", l) /\ UserLocal("idle", l) /\ l.path = NoPath
                   /\ CallAt("idle", l) = Store!Answered("ERR_OK")
        BY <1>1, <1>3, AnswerOf
    <2>2. /\ UserInv' /\ p \in Leaving /\ Store!Forget(p)
          /\ Store!Become(t, CallAt("idle", l))
        BY <1>1, <1>3, <2>1, DeletionForgets
    <2>3. Store!Uninstalled(t)
        BY <1>2, <2>1, <2>2 DEF Store!Uninstalled, Store!Answer
    <2> QED
        BY <2>2, <2>3 DEF StoreStep, Store!Next
<1>4. CASE DeleteFontRecord(p, FALSE) /\ Return(t, "ERR_UNINSTALL_FAIL")
    <2>1. ~Listed(p) /\ UNCHANGED configVars
        BY <1>1, <1>4, DeletedRecord DEF UserCalls
    <2>2. /\ UserInv' /\ Fonts' = Fonts /\ Leaving' = Leaving
          /\ Store!Answer(t, "ERR_UNINSTALL_FAIL")
        BY <1>1, <1>4, <2>1, QuietReturn
    <2>3. p \notin DOMAIN Fonts
        BY <1>1, <2>1, FontsOfRecords
    <2>4. Store!Uninstalled(t)
        BY <1>2, <2>2, <2>3 DEF Store!Uninstalled, Store!Copies
    <2> QED
        BY <2>2, <2>4 DEF StoreStep, Store!Next
<1> QED
    BY <1>3, <1>4 DEF DeleteFont

-----------------------------------------------------------------------------
(* The theorems.                                                           *)

(* Only the steps above are taken.                                         *)
LEMMA UserSteps ==
    ASSUME TypeInv, UserInv, UserCalls, Next
    PROVE  \E t \in Thread :
            \/ \E f \in Font : InstallFont(t, f)
            \/ \E n \in Name : UninstallFont(t, n)
            \/ FindInstalled(t) \/ ProbeInstalled(t) \/ HealRecord(t)
            \/ CheckInstalledNum(t) \/ CopyFont(t) \/ InsertFont(t) \/ UndoCopy(t)
            \/ RemoveFont(t) \/ DeleteFont(t)
<1>1. ~Crash
    BY DEF Crash, UserCalls
<1>2. PICK t \in Thread : Call(t) \/ Step(t)
    BY <1>1 DEF Next
<1>3. CASE Call(t)
    <2>1. \A f \in Font, u \in Url, id \in Client : ~InstallScopeFont(t, f, u, id)
        BY DEF InstallScopeFont, StartInstall, Start, UserCalls
    <2>2. \A u \in Url, token \in Token : ~UninstallScopeFont(t, u, token)
        BY DEF UninstallScopeFont, UserCalls
    <2>3. \A op \in UserCleanup \cup {"CleanupAppScopeFonts"} : \A id : ~Cleanup(t, op, id)
        BY DEF Cleanup, UserCleanup, UserCalls
    <2>4. ~CleanupScopeFontDirs(t)
        BY DEF CleanupScopeFontDirs, UserCalls
    <2> QED
        BY <1>3, <2>1, <2>2, <2>3, <2>4 DEF Call
<1>4. CASE Step(t)
    <2>1. pc[t] \in {"idle"} \cup InstallLabel \cup UninstallLabel
        BY OfThread DEF UserLocal
    <2> QED
        BY <1>4, <2>1
        DEF Step, At, InstallLabel, UninstallLabel, CreateConfig, FillConfig, UpdateConfig,
            CheckUrl, CheckTotal, CheckNames, InitScopeDir, CopyScopeFont, InsertScopeFont,
            RemoveScopeFont, DeleteScopeFont, CleanFile, CleanRecord, CleanDirs
<1> QED
    BY <1>2, <1>3, <1>4

(* Every step keeps the invariant and is a step of the abstract store, or  *)
(* leaves it alone.                                                        *)
LEMMA StepImplements ==
    ASSUME TypeInv, UserInv, UserCalls, [Next]_vars
    PROVE  UserInv' /\ StoreStep
<1>1. CASE Next
    BY <1>1, UserSteps, InstallFontStep, UninstallFontStep, FindInstalledStep,
       ProbeInstalledStep, HealRecordStep, CheckInstalledNumStep, CopyFontStep,
       InsertFontStep, UndoCopyStep, RemoveFontStep, DeleteFontStep
<1>2. CASE UNCHANGED vars
    <2>1. UNCHANGED <<configFile, fontlist, version, files, dirs, pc, loc>>
        BY <1>2 DEF vars, configVars, storage, control
    <2>2. Records' = Records /\ UserInv'
        BY <2>1 DEF Records, UserInv, OneRecordPerPath, UserControl, FilesAgree, OwnCopy,
            FileGone, FileListed, DiskAgrees, NoOrphanFile, NoDanglingRecord, Listed
    <2>3. [t \in Thread |-> CallOf(t)]' = [t \in Thread |-> CallOf(t)]
        BY <2>1 DEF CallOf
    <2> QED
        BY <2>1, <2>2, <2>3, SameFonts DEF StoreStep, Store!storeVars
<1> QED
    BY <1>1, <1>2

(* The empty store.                                                        *)
LEMMA InitImplements ==
    ASSUME Init, UserCalls
    PROVE  UserInv /\ Store!Init
<1>1. /\ configFile = "valid" /\ fontlist = <<>> /\ files = << >>
      /\ pc = [t \in Thread |-> "idle"] /\ loc = [t \in Thread |-> Idle]
    BY DEF Init, InitStore, UserCalls
<1>2. Idle.op = "none" /\ Idle.font = NoFont /\ Idle.path = NoPath /\ Idle.ret = "none"
    BY DEF Idle
<1>3. Records = {} /\ DOMAIN files = {}
    BY <1>1 DEF Records
<1>4. OneRecordPerPath
    BY <1>1 DEF OneRecordPerPath
<1>5. UserControl
    BY <1>1, <1>2 DEF UserControl, UserLocal, InstallLabel, UninstallLabel, TargetLabel
<1>6. FilesAgree
    BY <1>1, <1>3 DEF FilesAgree, OwnCopy, FileGone, FileListed, DiskAgrees, NoOrphanFile,
        NoDanglingRecord
<1>7. Fonts = << >> /\ Leaving = {}
    BY <1>3 DEF Fonts, Leaving
<1>8. [t \in Thread |-> CallOf(t)] = [t \in Thread |-> Store!Answered("none")]
    BY <1>1, <1>2 DEF CallOf, Store!Answered
<1> QED
    BY <1>4, <1>5, <1>6, <1>7, <1>8 DEF UserInv, Store!Init

(* Whatever the threads do, a font file and its record come and go         *)
(* together but for the calls under way (InstallFont, UninstallFont).      *)
THEOREM UserFilesAgree == UserCalls => (Spec => []DiskAgrees)
<1> SUFFICES ASSUME UserCalls PROVE Spec => []DiskAgrees
    OBVIOUS
<1>1. Spec => []TypeInv
    BY TypeInvariant
<1>2. Init => UserInv
    BY InitImplements
<1>3. TypeInv /\ UserInv /\ [Next]_vars => UserInv'
    BY StepImplements
<1>4. UserInv => DiskAgrees
    BY DEF UserInv, FilesAgree
<1> QED
    BY <1>1, <1>2, <1>3, <1>4, PTL DEF Spec

(* FontManager implements FontStore: the answers of overlapping user-level *)
(* calls are those of the abstract store.                                  *)
THEOREM UserCallsImplementStore == UserCalls => (Spec => ImplementsFontStore)
<1> SUFFICES ASSUME UserCalls PROVE Spec => Store!Spec
    BY DEF ImplementsFontStore
<1>1. Spec => []TypeInv
    BY TypeInvariant
<1>2. Init => UserInv /\ Store!Init
    BY InitImplements
<1>3. TypeInv /\ UserInv /\ [Next]_vars => UserInv' /\ [Store!Next]_(Store!storeVars)
    BY StepImplements DEF StoreStep
<1> QED
    BY <1>1, <1>2, <1>3, PTL DEF Spec, Store!Spec
=============================================================================
