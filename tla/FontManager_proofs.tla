------------------------- MODULE FontManager_proofs -------------------------
(***************************************************************************)
(* Proofs about FontManager: what the operations of FontConfig do to the   *)
(* types and to the number of the records, the type invariant, and the     *)
(* bound on the number of installed fonts that the installations keep in   *)
(* spite of the checks they do not repeat.                                 *)
(***************************************************************************)
EXTENDS FontManager, FiniteSetTheorems, SequenceTheorems, WellFoundedInduction,
        TLAPS

-----------------------------------------------------------------------------
(* The operations of FontConfig.                                           *)

(* The first of some matches is one of them, and none is before it.        *)
LEMMA MinOfMatches ==
    ASSUME NEW I \in SUBSET Nat, I # {}
    PROVE  Min(I) \in I /\ \A j \in I : Min(I) =< j
<1> DEFINE R == OpToRel(<, Nat)
<1>1. \E x \in I : \A y \in I : ~ (<<y, x>> \in R)
    BY NatLessThanWellFounded, WFMin, Zenon
<1>2. \A x, y \in Nat : y < x => <<y, x>> \in R
    BY DEF OpToRel
<1> HIDE DEF R
<1>3. \A x, y \in Nat : ~ (<<y, x>> \in R) => x =< y
    BY <1>2
<1>4. \E x \in I : \A y \in I : x =< y
    BY <1>1, <1>3
<1> QED
    BY <1>4 DEF Min

(* cJSON_DeleteItemFromArray takes exactly one element out.                *)
LEMMA RemoveAtType ==
    ASSUME NEW S, NEW s \in Seq(S), NEW i \in DOMAIN s
    PROVE  /\ RemoveAt(s, i) \in Seq(S)
           /\ Len(RemoveAt(s, i)) = Len(s) - 1
<1> DEFINE a == SubSeq(s, 1, i - 1)
           b == SubSeq(s, i + 1, Len(s))
<1>1. i \in 1 .. Len(s) /\ Len(s) \in Nat /\ \A j \in 1 .. Len(s) : s[j] \in S
    OBVIOUS
<1>2. a \in Seq(S) /\ Len(a) = i - 1
    BY <1>1, SubSeqProperties
<1>3. b \in Seq(S) /\ Len(b) = Len(s) - i
    BY <1>1, SubSeqProperties
<1>4. RemoveAt(s, i) = a \o b
    BY DEF RemoveAt
<1> HIDE DEF a, b
<1>5. a \o b \in Seq(S) /\ Len(a \o b) = Len(a) + Len(b)
    BY <1>2, <1>3, ConcatProperties
<1> QED
    BY <1>1, <1>2, <1>3, <1>4, <1>5

(* A deletion from the array moves the records after it down by one.       *)
LEMMA RemoveAtElements ==
    ASSUME NEW S, NEW s \in Seq(S), NEW i \in DOMAIN s
    PROVE  \A j \in 1 .. Len(s) - 1 :
                RemoveAt(s, i)[j] = IF j < i THEN s[j] ELSE s[j + 1]
<1> DEFINE a == SubSeq(s, 1, i - 1)
           b == SubSeq(s, i + 1, Len(s))
<1>1. i \in 1 .. Len(s) /\ Len(s) \in Nat /\ i \in Nat
    OBVIOUS
<1>2. /\ a \in Seq(S) /\ Len(a) = i - 1
      /\ \A j \in 1 .. i - 1 : a[j] = s[j]
    BY <1>1, SubSeqProperties
<1>3. /\ b \in Seq(S) /\ Len(b) = Len(s) - i
      /\ \A j \in 1 .. Len(s) - i : b[j] = s[i + j]
    BY <1>1, SubSeqProperties
<1>4. RemoveAt(s, i) = a \o b
    BY DEF RemoveAt
<1> HIDE DEF a, b
<1>5. \A j \in 1 .. Len(a) + Len(b) :
        (a \o b)[j] = IF j <= Len(a) THEN a[j] ELSE b[j - Len(a)]
    BY <1>2, <1>3, ConcatProperties
<1>6. ASSUME NEW j \in 1 .. Len(s) - 1
      PROVE  (a \o b)[j] = IF j < i THEN s[j] ELSE s[j + 1]
    <2>1. j \in 1 .. Len(a) + Len(b) /\ j \in Nat
        BY <1>1, <1>2, <1>3
    <2>2. CASE j < i
        BY <1>1, <1>2, <1>5, <2>1, <2>2
    <2>3. CASE ~ (j < i)
        <3>1. (a \o b)[j] = b[j - (i - 1)]
            BY <1>1, <1>2, <1>5, <2>1, <2>3
        <3>2. j - (i - 1) \in 1 .. Len(s) - i /\ i + (j - (i - 1)) = j + 1
            BY <1>1, <2>1, <2>3
        <3> QED
            BY <1>3, <2>3, <3>1, <3>2
    <2> QED
        BY <2>2, <2>3
<1> QED
    BY <1>4, <1>6

(* The record that a search finds is one of the file.                      *)
LEMMA FirstIsRecord ==
    ASSUME ConfigTypeOK, NEW I \in SUBSET DOMAIN fontlist, I # {}
    PROVE  First(I) \in Records /\ First(I) \in FontRecordInfo
<1>1. DOMAIN fontlist \subseteq Nat
    BY DEF ConfigTypeOK
<1>2. Min(I) \in I
    BY <1>1, MinOfMatches
<1>3. \A i \in DOMAIN fontlist : fontlist[i] \in FontRecordInfo
    BY DEF ConfigTypeOK
<1> QED
    BY <1>2, <1>3 DEF First, Records

(* The getters return records of the file.                                 *)
LEMMA FoundRecords ==
    ASSUME ConfigTypeOK
    PROVE  /\ \A n : HasName(n) => /\ GetFontRecordByName(n) \in FontRecordInfo
                                   /\ GetFontFileByName(n) \in Path
           /\ \A u : HasUrl(u) => GetFontRecordByUrl(u) \in FontRecordInfo
           /\ Records \subseteq FontRecordInfo
<1>1. \A n : WithName(n) \subseteq DOMAIN fontlist
    BY DEF WithName
<1>2. \A u : WithUrl(u) \subseteq DOMAIN fontlist
    BY DEF WithUrl
<1>3. \A r \in FontRecordInfo : r.path \in Path
    BY DEF FontRecordInfo
<1>4. Records \subseteq FontRecordInfo
    BY DEF Records, ConfigTypeOK
<1> QED
    BY <1>1, <1>2, <1>3, <1>4, FirstIsRecord
       DEF HasName, HasUrl, GetFontRecordByName, GetFontFileByName, GetFontRecordByUrl

(* Whatever becomes of a rewrite, the file keeps its type, and it has at   *)
(* most the records it had or was to have.                                 *)
LEMMA WriteType ==
    ASSUME ConfigTypeOK, NEW list \in Seq(FontRecordInfo), NEW ver \in {"none", "1", "7.0"},
           NEW ok \in BOOLEAN, WriteToFile(list, ver, ok)
    PROVE  /\ ConfigTypeOK'
           /\ \/ Len(fontlist') = Len(list)
              \/ Len(fontlist') = 0
              \/ UNCHANGED fontlist
<1>1. CASE configFile' = "valid" /\ fontlist' = list /\ version' = ver
    BY <1>1 DEF ConfigTypeOK
<1>2. CASE UNCHANGED configVars
    BY <1>2 DEF ConfigTypeOK, configVars
<1>3. CASE Truncated
    BY <1>3 DEF ConfigTypeOK, Truncated
<1> QED
    BY <1>1, <1>2, <1>3 DEF WriteToFile

(* The record InstallFont writes is a record of the file.                  *)
LEMMA UserRecordType ==
    ASSUME NEW path \in Path, NEW names \in SUBSET Name
    PROVE  UserRecord(path, names) \in FontRecordInfo
BY DEF UserRecord, FontRecordInfo, Dir, Scope, SrcPath

(* InsertFontRecordIfUnderLimit adds a record only below the limit.        *)
LEMMA InsertFontRecordType ==
    ASSUME ConfigTypeOK, NEW path \in Path, NEW names \in SUBSET Name, NEW ret,
           InsertFontRecordIfUnderLimit(path, names, ret)
    PROVE  /\ ConfigTypeOK'
           /\ Len(fontlist') <= Len(fontlist) \/ Len(fontlist') <= MaxInstallNum
<1> DEFINE r == UserRecord(path, names)
           list == Append(fontlist, r)
<1>1. r \in FontRecordInfo
    BY UserRecordType
<1> HIDE DEF r
<1>2. fontlist \in Seq(FontRecordInfo) /\ version \in {"none", "1", "7.0"}
    BY DEF ConfigTypeOK
<1>3. list \in Seq(FontRecordInfo) /\ Len(list) = Len(fontlist) + 1
    BY <1>1, <1>2
<1>4. MaxInstallNum \in Nat /\ Len(fontlist) \in Nat
    BY <1>2, FontConfigAssumption
<1>5. CASE UNCHANGED configVars
    BY <1>4, <1>5 DEF ConfigTypeOK, configVars
<1>6. CASE /\ Len(fontlist) < MaxInstallNum
           /\ \E ok \in BOOLEAN : WriteToFile(list, version, ok)
    <2> HIDE DEF list
    <2>1. PICK ok \in BOOLEAN : WriteToFile(list, version, ok)
        BY <1>6
    <2>2. /\ ConfigTypeOK'
          /\ Len(fontlist') = Len(list) \/ Len(fontlist') = 0 \/ UNCHANGED fontlist
        BY <1>2, <1>3, <2>1, WriteType
    <2> QED
        BY <1>3, <1>4, <1>6, <2>2
<1> QED
    BY <1>5, <1>6 DEF InsertFontRecordIfUnderLimit, r

(* InsertScopeFontRecord adds one record whatever the number of records.   *)
LEMMA InsertScopeFontRecordType ==
    ASSUME ConfigTypeOK, NEW record \in FontRecordInfo, NEW ok \in BOOLEAN,
           InsertScopeFontRecord(record, ok)
    PROVE  ConfigTypeOK' /\ Len(fontlist') <= Len(fontlist) + 1
<1> DEFINE list == Append(fontlist, record)
<1>1. fontlist \in Seq(FontRecordInfo) /\ version \in {"none", "1", "7.0"}
    BY DEF ConfigTypeOK
<1>2. list \in Seq(FontRecordInfo) /\ Len(list) = Len(fontlist) + 1
    BY <1>1
<1>3. Len(fontlist) \in Nat
    BY <1>1
<1>4. CASE UNCHANGED configVars
    BY <1>3, <1>4 DEF ConfigTypeOK, configVars
<1>5. CASE WriteToFile(list, version, ok)
    <2> HIDE DEF list
    <2>1. /\ ConfigTypeOK'
          /\ Len(fontlist') = Len(list) \/ Len(fontlist') = 0 \/ UNCHANGED fontlist
        BY <1>1, <1>2, <1>5, WriteType
    <2> QED
        BY <1>2, <1>3, <2>1
<1> QED
    BY <1>4, <1>5 DEF InsertScopeFontRecord, Refuse

(* A deletion takes at most one record away.                               *)
LEMMA DeleteFirstType ==
    ASSUME ConfigTypeOK, NEW I \in SUBSET DOMAIN fontlist, NEW ok \in BOOLEAN,
           DeleteFirst(I, ok)
    PROVE  ConfigTypeOK' /\ Len(fontlist') <= Len(fontlist)
<1>1. /\ fontlist \in Seq(FontRecordInfo) /\ version \in {"none", "1", "7.0"}
      /\ Len(fontlist) \in Nat /\ DOMAIN fontlist \subseteq Nat
    BY DEF ConfigTypeOK
<1>2. CASE UNCHANGED configVars
    BY <1>1, <1>2 DEF ConfigTypeOK, configVars
<1>3. CASE I # {} /\ WriteToFile(RemoveAt(fontlist, Min(I)), version, ok)
    <2> DEFINE list == RemoveAt(fontlist, Min(I))
    <2>1. Min(I) \in I
        BY <1>1, <1>3, MinOfMatches
    <2>2. Min(I) \in DOMAIN fontlist
        BY <2>1
    <2>3. list \in Seq(FontRecordInfo) /\ Len(list) = Len(fontlist) - 1
        BY <1>1, <2>2, RemoveAtType
    <2> HIDE DEF list
    <2>4. WriteToFile(list, version, ok)
        BY <1>3 DEF list
    <2>5. /\ ConfigTypeOK'
          /\ Len(fontlist') = Len(list) \/ Len(fontlist') = 0 \/ UNCHANGED fontlist
        BY <1>1, <2>3, <2>4, WriteType
    <2> QED
        BY <1>1, <2>3, <2>5
<1> QED
    BY <1>2, <1>3 DEF DeleteFirst, Refuse

(* Both deletions, by path and by srcPath, are of that kind.               *)
LEMMA DeleteRecordType ==
    ASSUME ConfigTypeOK, NEW ok \in BOOLEAN, NEW x,
           DeleteFontRecord(x, ok) \/ DeleteScopeFontRecordByUrl(x, ok)
    PROVE  ConfigTypeOK' /\ Len(fontlist') <= Len(fontlist)
<1>1. WithPath(x) \subseteq DOMAIN fontlist /\ WithUrl(x) \subseteq DOMAIN fontlist
    BY DEF WithPath, WithUrl
<1> QED
    BY <1>1, DeleteFirstType DEF DeleteFontRecord, DeleteScopeFontRecordByUrl

(* RefreshFullNames rewrites names only: as many records, of their type.   *)
LEMMA RefreshType ==
    ASSUME ConfigTypeOK, NEW read, read \in [DOMAIN read -> Font]
    PROVE  /\ RefreshFullNames(read) \in Seq(FontRecordInfo)
           /\ Len(RefreshFullNames(read)) = Len(fontlist)
<1>1. \A f \in Font : NamesOf(f) \subseteq Name
    BY FontConfigAssumption DEF NamesOf
<1>2. /\ \A i \in DOMAIN fontlist : fontlist[i] \in FontRecordInfo
      /\ Len(fontlist) \in Nat /\ DOMAIN fontlist = 1 .. Len(fontlist)
    BY DEF ConfigTypeOK
<1>3. ASSUME NEW r \in FontRecordInfo, NEW n \in SUBSET Name
      PROVE  [r EXCEPT !.names = n] \in FontRecordInfo
    BY DEF FontRecordInfo
<1>4. ASSUME NEW i \in DOMAIN fontlist
      PROVE  RefreshFullNames(read)[i] \in FontRecordInfo
    <2> DEFINE real == SandBoxPathToRealPath(fontlist[i].path)
               n == IF real \in DOMAIN read THEN NamesOf(read[real]) ELSE {}
    <2>1. n \in SUBSET Name
        BY <1>1
    <2>2. RefreshFullNames(read)[i] = [fontlist[i] EXCEPT !.names = n]
        BY DEF RefreshFullNames
    <2> HIDE DEF n
    <2> QED
        BY <1>2, <1>3, <2>1, <2>2
<1>5. RefreshFullNames(read) \in [1 .. Len(fontlist) -> FontRecordInfo]
    BY <1>2, <1>4 DEF RefreshFullNames
<1> QED
    BY <1>2, <1>5

(* CheckAndUpdateFontRecord leaves the number of records as it is, or the  *)
(* file unreadable.                                                        *)
LEMMA UpdateType ==
    ASSUME ConfigTypeOK, files \in [DOMAIN files -> Font],
           NEW ok \in BOOLEAN, CheckAndUpdateFontRecord(files, ok)
    PROVE  ConfigTypeOK' /\ Len(fontlist') <= Len(fontlist)
<1> DEFINE list(read) == RefreshFullNames(read)
<1>1. ASSUME NEW read \in Readable(files)
      PROVE  list(read) \in Seq(FontRecordInfo) /\ Len(list(read)) = Len(fontlist)
    <2>1. read \in [DOMAIN read -> Font]
        BY <1>1 DEF Readable
    <2> QED
        BY <2>1, RefreshType
<1> HIDE DEF list
<1>2. fontlist \in Seq(FontRecordInfo) /\ Len(fontlist) \in Nat
    BY DEF ConfigTypeOK
<1>3. CASE UNCHANGED configVars
    BY <1>2, <1>3 DEF ConfigTypeOK, configVars
<1>4. ASSUME NEW read \in Readable(files), WriteToFile(list(read), "7.0", ok)
      PROVE  ConfigTypeOK' /\ Len(fontlist') <= Len(fontlist)
    <2>1. /\ ConfigTypeOK'
          /\ Len(fontlist') = Len(list(read)) \/ Len(fontlist') = 0 \/ UNCHANGED fontlist
        BY <1>1, <1>4, WriteType
    <2> QED
        BY <1>1, <1>2, <2>1
<1> QED
    BY <1>3, <1>4 DEF CheckAndUpdateFontRecord, Refuse, list

(* A configuration that is created holds no record.                        *)
LEMMA CreateType ==
    ASSUME CreateFontConfig \/ (FillFontConfig /\ ~UNCHANGED configVars)
    PROVE  ConfigTypeOK' /\ Len(fontlist') = 0
<1>1. fontlist' = <<>>
    BY DEF CreateFontConfig, FillFontConfig, Truncated
<1>2. <<>> \in Seq(FontRecordInfo) /\ Len(<<>>) = 0
    OBVIOUS
<1>3. fontlist' \in Seq(FontRecordInfo) /\ Len(fontlist') = 0
    BY <1>1, <1>2
<1>4. /\ configFile' \in {"missing", "valid", "broken"}
      /\ version' \in {"none", "1", "7.0"}
      /\ configFile' # "valid" => fontlist' = <<>> /\ version' = "none"
    BY DEF CreateFontConfig, FillFontConfig, Truncated
<1> QED
    BY <1>3, <1>4 DEF ConfigTypeOK

-----------------------------------------------------------------------------
(* Types of FontManager.                                                   *)

(* The types alone are not inductive.  What an action writes comes from    *)
(* the local variables of its thread, and those are set by the actions     *)
(* before it: Ready says what a label may rely on.                         *)
Ready(label, l) ==
    /\ label \in {"create", "fill", "find", "probe", "heal", "count", "copy",
                  "insert", "undo", "update", "url", "total", "names", "mkdir",
                  "copyScope", "insertScope"} => l.font \in Font
    /\ label \in {"insert", "insertScope"} => l.path \in Path
    /\ label \in {"update", "url", "total", "names", "mkdir"} => l.id \in AppId
    /\ label \in {"create", "fill"} => l.op = "InstallFont" \/ l.id \in AppId

ControlOK ==
    /\ pc \in [Thread -> Label]
    /\ loc \in [Thread -> Local]
    /\ \A t \in Thread : Ready(pc[t], loc[t])

StorageOK ==
    /\ DOMAIN files \subseteq Path /\ files \in [DOMAIN files -> Font]
    /\ dirs \subseteq AppId

TypeInv == ConfigTypeOK /\ StorageOK /\ ControlOK

-----------------------------------------------------------------------------
(* Moves of a thread.                                                      *)

(* A move changes the label and the local variables of its thread only.    *)
LEMMA Moves ==
    ASSUME ControlOK, NEW t \in Thread, NEW label, NEW l, Move(t, label, l)
    PROVE  /\ pc'[t] = label /\ loc'[t] = l
           /\ \A s \in Thread \ {t} : pc'[s] = pc[s] /\ loc'[s] = loc[s]
BY DEF Move, ControlOK

(* A move to a label with all it relies on keeps the control well formed.  *)
LEMMA MoveType ==
    ASSUME ControlOK, NEW t \in Thread, NEW label \in Label, NEW l \in Local,
           Ready(label, l), Move(t, label, l)
    PROVE  ControlOK'
<1>1. pc' = [pc EXCEPT ![t] = label] /\ loc' = [loc EXCEPT ![t] = l]
    BY DEF Move
<1>2. pc' \in [Thread -> Label] /\ loc' \in [Thread -> Local]
    BY <1>1 DEF ControlOK
<1>3. ASSUME NEW s \in Thread PROVE Ready(pc'[s], loc'[s])
    <2>1. CASE s = t
        BY <1>1, <2>1 DEF ControlOK
    <2>2. CASE s # t
        <3>1. pc'[s] = pc[s] /\ loc'[s] = loc[s]
            BY <1>1, <2>2 DEF ControlOK
        <3> QED
            BY <3>1 DEF ControlOK
    <2> QED
        BY <2>1, <2>2
<1> QED
    BY <1>2, <1>3 DEF ControlOK

(* A step that keeps its local variables and goes on to a label they       *)
(* suffice for.                                                            *)
LEMMA ContinueType ==
    ASSUME ControlOK, NEW t \in Thread, NEW label \in Label,
           Ready(label, loc[t]), Continue(t, label)
    PROVE  ControlOK'
<1>1. loc[t] \in Local
    BY DEF ControlOK
<1> QED
    BY <1>1, MoveType DEF Continue

(* An assignment to one local variable.                                    *)
LEMMA SetPath ==
    ASSUME NEW l \in Local, NEW p \in Path \cup {NoPath}
    PROVE  LET m == [l EXCEPT !.path = p]
           IN  /\ m \in Local
               /\ m.path = p
               /\ m.font = l.font /\ m.id = l.id /\ m.op = l.op
BY DEF Local

(* Taking another full name leaves the other local variables alone.        *)
LEMMA SetIndex ==
    ASSUME NEW l \in Local, NEW n \in Nat
    PROVE  LET m == [l EXCEPT !.i = n]
           IN  /\ m \in Local
               /\ m.font = l.font /\ m.id = l.id /\ m.op = l.op
BY DEF Local

(* Remembering the error of a failed insertion leaves the others alone.    *)
LEMMA SetRet ==
    ASSUME NEW l \in Local, NEW code \in Code
    PROVE  LET m == [l EXCEPT !.ret = code]
           IN  /\ m \in Local
               /\ m.font = l.font /\ m.id = l.id /\ m.op = l.op
BY DEF Local

(* A thread between two operations has well-typed local variables.         *)
LEMMA IdleType == Idle \in Local
BY DEF Idle, Local, Dir, SrcPath, Code

(* The return of an operation with any error code forgets its local        *)
(* variables.                                                              *)
LEMMA ReturnType ==
    ASSUME ControlOK, NEW t \in Thread, NEW code \in Code, Return(t, code)
    PROVE  ControlOK'
<1> DEFINE l == [Idle EXCEPT !.ret = code]
<1>1. l \in Local
    BY IdleType, SetRet
<1>2. Ready("idle", l) /\ "idle" \in Label
    BY DEF Ready, Label
<1> HIDE DEF l
<1>3. Move(t, "idle", l)
    BY DEF Return, l
<1> QED
    BY <1>1, <1>2, <1>3, MoveType

(* The arguments of an operation.                                          *)
LEMMA SetArgument ==
    ASSUME NEW l \in Local
    PROVE  /\ \A x \in Operation : LET m == [l EXCEPT !.op = x] IN
                /\ m \in Local
                /\ m.op = x /\ m.font = l.font /\ m.id = l.id
           /\ \A x \in Font \cup {NoFont} : LET m == [l EXCEPT !.font = x] IN
                /\ m \in Local
                /\ m.op = l.op /\ m.font = x /\ m.id = l.id
           /\ \A x \in SrcPath : LET m == [l EXCEPT !.url = x] IN
                /\ m \in Local
                /\ m.op = l.op /\ m.font = l.font /\ m.id = l.id
           /\ \A x \in Dir : LET m == [l EXCEPT !.id = x] IN
                /\ m \in Local
                /\ m.op = l.op /\ m.font = l.font /\ m.id = x
           /\ \A x \in SUBSET FontRecordInfo : LET m == [l EXCEPT !.todo = x] IN
                /\ m \in Local
                /\ m.op = l.op /\ m.font = l.font /\ m.id = l.id
<1>1. \A x \in Operation : LET m == [l EXCEPT !.op = x] IN
        m \in Local /\ m.op = x /\ m.font = l.font /\ m.id = l.id
    BY DEF Local
<1>2. \A x \in Font \cup {NoFont} : LET m == [l EXCEPT !.font = x] IN
        m \in Local /\ m.op = l.op /\ m.font = x /\ m.id = l.id
    BY DEF Local
<1>3. \A x \in SrcPath : LET m == [l EXCEPT !.url = x] IN
        m \in Local /\ m.op = l.op /\ m.font = l.font /\ m.id = l.id
    BY DEF Local
<1>4. \A x \in Dir : LET m == [l EXCEPT !.id = x] IN
        m \in Local /\ m.op = l.op /\ m.font = l.font /\ m.id = x
    BY DEF Local
<1>5. \A x \in SUBSET FontRecordInfo : LET m == [l EXCEPT !.todo = x] IN
        m \in Local /\ m.op = l.op /\ m.font = l.font /\ m.id = l.id
    BY DEF Local
<1> QED
    BY <1>1, <1>2, <1>3, <1>4, <1>5

(* The first step of an operation sets several local variables of an idle  *)
(* thread.                                                                 *)
LEMMA BeginType ==
    ASSUME NEW op \in Operation, NEW f \in Font \cup {NoFont}, NEW u \in SrcPath,
           NEW id \in Dir
    PROVE  LET m == Begin(op, f, u, id)
           IN  m \in Local /\ m.op = op /\ m.font = f /\ m.id = id
<1> DEFINE a == [Idle EXCEPT !.op = op]
           b == [a EXCEPT !.font = f]
           c == [b EXCEPT !.url = u]
           d == [c EXCEPT !.id = id]
<1>1. Begin(op, f, u, id) = d
    BY DEF Begin
<1>2. a \in Local /\ a.op = op
    BY IdleType, SetArgument
<1> HIDE DEF a
<1>3. b \in Local /\ b.op = op /\ b.font = f
    BY <1>2, SetArgument
<1> HIDE DEF b
<1>4. c \in Local /\ c.op = op /\ c.font = f
    BY <1>3, SetArgument
<1> HIDE DEF c
<1>5. d \in Local /\ d.op = op /\ d.font = f /\ d.id = id
    BY <1>4, SetArgument
<1> HIDE DEF d
<1> QED
    BY <1>1, <1>5

(* NextName takes the next name, or the next label.                        *)
LEMMA NextNameType ==
    ASSUME ControlOK, NEW t \in Thread, NEW again \in Label, NEW done \in Label,
           \A l \in Local : /\ l.font = loc[t].font
                            /\ l.id = loc[t].id
                            /\ l.op = loc[t].op
                => Ready(again, l) /\ Ready(done, l),
           NextName(t, again, done)
    PROVE  ControlOK'
<1> DEFINE l == [loc[t] EXCEPT !.i = @ + 1]
           m == [loc[t] EXCEPT !.path = NoPath]
           n == [l EXCEPT !.path = NoPath]
<1>1. loc[t] \in Local /\ loc[t].i \in Nat
    BY DEF ControlOK, Local
<1>2. /\ l \in Local
      /\ l.font = loc[t].font /\ l.id = loc[t].id /\ l.op = loc[t].op
    BY <1>1, SetIndex
<1>3. [loc[t] EXCEPT !.i = @ + 1, !.path = NoPath] = n
    OBVIOUS
<1> HIDE DEF l
<1>4. /\ m \in Local
      /\ m.font = loc[t].font /\ m.id = loc[t].id /\ m.op = loc[t].op
    BY <1>1, SetPath
<1>5. /\ n \in Local
      /\ n.font = loc[t].font /\ n.id = loc[t].id /\ n.op = loc[t].op
    BY <1>2, SetPath
<1>6. Move(t, again, n) \/ Move(t, done, m)
    BY <1>3 DEF NextName
<1> HIDE DEF m, n
<1>7. Ready(again, n) /\ Ready(done, m)
    BY <1>4, <1>5
<1> QED
    BY <1>4, <1>5, <1>6, <1>7, MoveType

-----------------------------------------------------------------------------
(* Every step keeps the types.                                             *)

(* What the local variables of a thread are.                               *)
LEMMA LocalType ==
    ASSUME TypeInv, NEW t \in Thread
    PROVE  /\ loc[t] \in Local /\ Ready(pc[t], loc[t])
           /\ loc[t].ret \in Code /\ loc[t].url \in SrcPath /\ loc[t].id \in Dir
           /\ loc[t].todo \subseteq FontRecordInfo
           /\ loc[t].op \in Operation \cup {"none"}
BY DEF TypeInv, ControlOK, Local

(* A step of the configuration leaves the files and directories well       *)
(* typed.                                                                  *)
LEMMA SameStorage ==
    ASSUME StorageOK, UNCHANGED storage
    PROVE  StorageOK'
BY DEF StorageOK, storage

(* A step of the file system leaves the configuration well typed.          *)
LEMMA SameConfig ==
    ASSUME ConfigTypeOK, UNCHANGED configVars
    PROVE  ConfigTypeOK'
BY DEF ConfigTypeOK, configVars

(* A new file, and fewer files, are well typed.                            *)
LEMMA FilesType ==
    ASSUME StorageOK
    PROVE  /\ \A p \in Path, f \in Font :
                files' = WithFile(p, f) /\ UNCHANGED dirs => StorageOK'
           /\ \A P : files' = Without(P) /\ dirs' \subseteq dirs => StorageOK'
<1>1. ASSUME NEW p \in Path, NEW f \in Font, files' = WithFile(p, f), UNCHANGED dirs
      PROVE  StorageOK'
    <2>1. DOMAIN files' = DOMAIN files \cup {p}
        BY <1>1 DEF WithFile
    <2>2. \A q \in DOMAIN files' : files'[q] \in Font
        BY <1>1 DEF WithFile, StorageOK
    <2>3. files' = [q \in DOMAIN files' |-> files'[q]]
        BY <1>1 DEF WithFile
    <2> QED
        BY <1>1, <2>1, <2>2, <2>3 DEF StorageOK
<1>2. ASSUME NEW P, files' = Without(P), dirs' \subseteq dirs
      PROVE  StorageOK'
    <2>1. DOMAIN files' = DOMAIN files \ P
        BY <1>2 DEF Without
    <2>2. \A q \in DOMAIN files' : files'[q] \in Font
        BY <1>2 DEF Without, StorageOK
    <2>3. files' = [q \in DOMAIN files' |-> files'[q]]
        BY <1>2 DEF Without
    <2> QED
        BY <1>2, <2>1, <2>2, <2>3 DEF StorageOK
<1> QED
    BY <1>1, <1>2

(* RemoveFile, whether it succeeds or not, leaves the files well typed.    *)
LEMMA RemoveType ==
    ASSUME StorageOK, NEW p, NEW ok, RemoveFile(p, ok), UNCHANGED dirs
    PROVE  StorageOK'
<1>1. CASE files' = Without({p})
    BY <1>1, FilesType
<1>2. CASE UNCHANGED files
    BY <1>2 DEF StorageOK
<1> QED
    BY <1>1, <1>2 DEF RemoveFile

(* FontToolSet::GetFontFullName yields full names.                         *)
LEMMA NamesType ==
    ASSUME NEW f \in Font
    PROVE  NamesOf(f) \in SUBSET Name
BY FontConfigAssumption DEF NamesOf

(* CheckAndInitInstallPath, the beginning of both kinds of installation.   *)
LEMMA StartInstallType ==
    ASSUME TypeInv, NEW t \in Thread, NEW f \in Font, NEW u \in SrcPath, NEW id \in Dir,
           NEW op \in {"InstallFont", "InstallScopeFont"},
           op = "InstallFont" \/ id \in AppId,
           StartInstall(t, op, f, u, id)
    PROVE  TypeInv'
<1> DEFINE l == Begin(op, f, u, id)
           label == IF configFile = "missing" THEN "create" ELSE AfterInit(op)
<1>1. ConfigTypeOK' /\ StorageOK'
    BY SameStorage, SameConfig DEF StartInstall, TypeInv
<1>2. CASE Start(t, op, f, u, id, label)
    <2>1. op \in Operation /\ f \in Font \cup {NoFont}
        BY DEF Operation
    <2>2. l \in Local /\ l.op = op /\ l.font = f /\ l.id = id
        BY <2>1, BeginType
    <2>3. Move(t, label, l)
        BY <1>2 DEF Start
    <2> HIDE DEF l
    <2>4. label \in Label /\ Ready(label, l)
        BY <2>2 DEF Label, Ready, AfterInit
    <2> HIDE DEF label
    <2> QED
        BY <1>1, <2>2, <2>3, <2>4, MoveType DEF TypeInv
<1>3. ASSUME NEW code \in {"ERR_FILE_NOT_EXISTS", "ERR_SYSTEM_ERROR"}, Return(t, code)
      PROVE  TypeInv'
    <2>1. code \in Code
        BY DEF Code
    <2> QED
        BY <1>1, <1>3, <2>1, ReturnType DEF TypeInv
<1> QED
    BY <1>2, <1>3 DEF StartInstall, InitError

(* CheckFontConfigPath, the two steps in which a missing file is created.  *)
LEMMA StoreCreation ==
    ASSUME TypeInv, NEW t \in Thread, CreateConfig(t) \/ FillConfig(t)
    PROVE  TypeInv'
<1>1. ConfigTypeOK' /\ StorageOK'
    BY CreateType, SameConfig, SameStorage DEF CreateConfig, FillConfig, TypeInv
<1>2. CASE CreateConfig(t)
    <2>1. "fill" \in Label /\ Ready("fill", loc[t])
        BY <1>2, LocalType DEF CreateConfig, At, Ready, Label
    <2> QED
        BY <1>1, <1>2, <2>1, ContinueType DEF TypeInv, CreateConfig
<1>3. CASE FillConfig(t)
    <2> DEFINE label == AfterInit(loc[t].op)
    <2>1. label \in Label /\ Ready(label, loc[t])
        BY <1>3, LocalType DEF FillConfig, At, Ready, Label, AfterInit
    <2> HIDE DEF label
    <2>2. CASE Continue(t, label)
        BY <1>1, <2>1, <2>2, ContinueType DEF TypeInv
    <2>3. CASE Return(t, InitError(loc[t].op))
        <3>1. InitError(loc[t].op) \in Code
            BY DEF InitError, Code
        <3> QED
            BY <1>1, <2>3, <3>1, ReturnType DEF TypeInv
    <2> QED
        BY <1>3, <2>2, <2>3 DEF FillConfig, label
<1> QED
    BY <1>2, <1>3

(* The copy: its path is that of a record of the thread's operation.       *)
LEMMA CopyType ==
    ASSUME TypeInv, NEW t \in Thread, NEW next \in {"insert", "insertScope"},
           pc[t] \in {"copy", "copyScope"},
           CopyFileForInstall(t, next)
    PROVE  TypeInv'
<1>1. loc[t] \in Local /\ loc[t].font \in Font /\ loc[t].id \in Dir
    BY LocalType DEF Ready
<1>2. CASE \E k \in Tag :
            /\ files' = WithFile(DestPath(t, k), loc[t].font)
            /\ Move(t, next, [loc[t] EXCEPT !.path = DestPath(t, k)])
            /\ UNCHANGED <<configVars, dirs>>
    <2>1. PICK k \in Tag :
            /\ files' = WithFile(DestPath(t, k), loc[t].font)
            /\ Move(t, next, [loc[t] EXCEPT !.path = DestPath(t, k)])
            /\ UNCHANGED <<configVars, dirs>>
        BY <1>2
    <2> DEFINE p == DestPath(t, k)
               l == [loc[t] EXCEPT !.path = p]
    <2>2. p \in Path
        BY <1>1 DEF DestPath, Path
    <2> HIDE DEF p
    <2>3. l \in Local /\ l.path \in Path /\ l.font \in Font
        BY <1>1, <2>2, SetPath
    <2>4. Move(t, next, l)
        BY <2>1 DEF p
    <2> HIDE DEF l
    <2>5. next \in Label /\ Ready(next, l)
        BY <2>3 DEF Ready, Label
    <2>6. ControlOK'
        BY <2>3, <2>4, <2>5, MoveType DEF TypeInv
    <2>7. StorageOK'
        BY <1>1, <2>1, <2>2, FilesType DEF TypeInv, p
    <2>8. ConfigTypeOK'
        BY <2>1, SameConfig DEF TypeInv
    <2> QED
        BY <2>6, <2>7, <2>8 DEF TypeInv
<1>3. CASE Return(t, "ERR_COPY_FAIL") /\ UNCHANGED <<configVars, storage>>
    <2>1. "ERR_COPY_FAIL" \in Code
        BY DEF Code
    <2> QED
        BY <1>3, <2>1, ReturnType, SameConfig, SameStorage DEF TypeInv
<1> QED
    BY <1>2, <1>3 DEF CopyFileForInstall

(* The steps of InstallFont.                                               *)
LEMMA InstallStep ==
    ASSUME TypeInv, NEW t \in Thread,
           \/ FindInstalled(t) \/ ProbeInstalled(t) \/ HealRecord(t)
           \/ CheckInstalledNum(t) \/ CopyFont(t) \/ InsertFont(t) \/ UndoCopy(t)
    PROVE  TypeInv'
<1> USE DEF At
<1>1. /\ loc[t] \in Local /\ Ready(pc[t], loc[t]) /\ loc[t].ret \in Code
      /\ ConfigTypeOK /\ StorageOK /\ ControlOK
    BY LocalType DEF TypeInv
<1>2. ASSUME NEW code \in Code, Return(t, code) PROVE ControlOK'
    BY <1>1, <1>2, ReturnType
<1>3. {"ERR_FILE_VERIFY_FAIL", "ERR_INSTALLED_ALRADY", "ERR_INSTALL_FAIL",
       "ERR_MAX_FILE_COUNT", "ERR_OK"} \subseteq Code
    BY DEF Code
<1>4. CASE FindInstalled(t)
    <2>1. ConfigTypeOK' /\ StorageOK'
        BY <1>1, <1>4, SameConfig, SameStorage DEF FindInstalled
    <2>2. CASE Return(t, "ERR_FILE_VERIFY_FAIL")
        BY <1>2, <1>3, <2>1, <2>2 DEF TypeInv
    <2>3. CASE NextName(t, "find", "count")
        <3>1. "find" \in Label /\ "count" \in Label
            BY DEF Label
        <3>2. \A l \in Local : l.font = loc[t].font => Ready("find", l) /\ Ready("count", l)
            BY <1>1, <1>4 DEF FindInstalled, Ready
        <3> QED
            BY <1>1, <2>1, <2>3, <3>1, <3>2, NextNameType DEF TypeInv
    <2>4. CASE /\ HasName(FullName(t))
               /\ Move(t, "probe",
                       [loc[t] EXCEPT !.path = GetFontFileByName(FullName(t))])
        <3> DEFINE p == GetFontFileByName(FullName(t))
                   l == [loc[t] EXCEPT !.path = p]
        <3>1. p \in Path
            BY <1>1, <2>4, FoundRecords
        <3> HIDE DEF p
        <3>2. l \in Local /\ l.font = loc[t].font
            BY <1>1, <3>1, SetPath
        <3>3. Move(t, "probe", l)
            BY <2>4 DEF p
        <3> HIDE DEF l
        <3>4. "probe" \in Label /\ Ready("probe", l)
            BY <1>1, <1>4, <3>2 DEF Label, Ready, FindInstalled
        <3> QED
            BY <1>1, <2>1, <3>2, <3>3, <3>4, MoveType DEF TypeInv
    <2> QED
        BY <1>4, <2>2, <2>3, <2>4 DEF FindInstalled
<1>5. CASE ProbeInstalled(t)
    <2>1. ConfigTypeOK' /\ StorageOK'
        BY <1>1, <1>5, SameConfig, SameStorage DEF ProbeInstalled
    <2>2. "heal" \in Label /\ Ready("heal", loc[t])
        BY <1>1, <1>5 DEF Label, Ready, ProbeInstalled
    <2>3. ControlOK'
        BY <1>1, <1>2, <1>3, <1>5, <2>2, ContinueType DEF ProbeInstalled
    <2> QED
        BY <2>1, <2>3 DEF TypeInv
<1>6. CASE HealRecord(t)
    <2>1. ConfigTypeOK' /\ StorageOK'
        BY <1>1, <1>6, DeleteRecordType, SameStorage DEF HealRecord
    <2>2. "find" \in Label /\ "count" \in Label
        BY DEF Label
    <2>3. \A l \in Local : l.font = loc[t].font => Ready("find", l) /\ Ready("count", l)
        BY <1>1, <1>6 DEF HealRecord, Ready
    <2>4. CASE NextName(t, "find", "count")
        BY <1>1, <2>1, <2>2, <2>3, <2>4, NextNameType DEF TypeInv
    <2>5. CASE Return(t, "ERR_INSTALL_FAIL")
        BY <1>2, <1>3, <2>1, <2>5 DEF TypeInv
    <2> QED
        BY <1>6, <2>4, <2>5 DEF HealRecord
<1>7. CASE CheckInstalledNum(t)
    <2>1. ConfigTypeOK' /\ StorageOK'
        BY <1>1, <1>7, SameConfig, SameStorage DEF CheckInstalledNum
    <2>2. "copy" \in Label /\ Ready("copy", loc[t])
        BY <1>1, <1>7 DEF Label, Ready, CheckInstalledNum
    <2>3. ControlOK'
        BY <1>1, <1>2, <1>3, <1>7, <2>2, ContinueType DEF CheckInstalledNum
    <2> QED
        BY <2>1, <2>3 DEF TypeInv
<1>8. CASE CopyFont(t)
    BY <1>8, CopyType DEF CopyFont
<1>9. CASE InsertFont(t)
    <2>1. PICK ret \in Code :
            /\ InsertFontRecordIfUnderLimit(loc[t].path, NamesOf(loc[t].font), ret)
            /\ \/ ret = "ERR_OK" /\ Return(t, ret)
               \/ ret # "ERR_OK" /\ Move(t, "undo", [loc[t] EXCEPT !.ret = ret])
        BY <1>9 DEF InsertFont
    <2>2. loc[t].font \in Font /\ loc[t].path \in Path
        BY <1>1, <1>9 DEF InsertFont, Ready
    <2>3. ConfigTypeOK'
        BY <1>1, <2>1, <2>2, NamesType, InsertFontRecordType
    <2>4. StorageOK'
        BY <1>1, <1>9, SameStorage DEF InsertFont
    <2>5. CASE Return(t, ret)
        BY <1>2, <2>3, <2>4, <2>5 DEF TypeInv
    <2>6. CASE Move(t, "undo", [loc[t] EXCEPT !.ret = ret])
        <3> DEFINE l == [loc[t] EXCEPT !.ret = ret]
        <3>1. l \in Local /\ l.font \in Font
            BY <1>1, <2>2, SetRet
        <3> HIDE DEF l
        <3>2. "undo" \in Label /\ Ready("undo", l)
            BY <3>1 DEF Label, Ready
        <3>3. Move(t, "undo", l)
            BY <2>6 DEF l
        <3> QED
            BY <1>1, <2>3, <2>4, <3>1, <3>2, <3>3, MoveType DEF TypeInv
    <2> QED
        BY <2>1, <2>5, <2>6
<1>10. CASE UndoCopy(t)
    <2>1. ConfigTypeOK' /\ StorageOK'
        BY <1>1, <1>10, SameConfig, RemoveType DEF UndoCopy
    <2>2. ControlOK'
        BY <1>1, <1>2, <1>10 DEF UndoCopy
    <2> QED
        BY <2>1, <2>2 DEF TypeInv
<1> QED
    BY <1>4, <1>5, <1>6, <1>7, <1>8, <1>9, <1>10

(* The steps of InstallScopeFont.                                          *)
LEMMA InstallScopeStep ==
    ASSUME TypeInv, NEW t \in Thread,
           \/ UpdateConfig(t) \/ CheckUrl(t) \/ CheckTotal(t) \/ CheckNames(t)
           \/ InitScopeDir(t) \/ CopyScopeFont(t) \/ InsertScopeFont(t)
    PROVE  TypeInv'
<1> USE DEF At
<1>1. /\ loc[t] \in Local /\ Ready(pc[t], loc[t]) /\ loc[t].ret \in Code
      /\ loc[t].url \in SrcPath /\ loc[t].id \in Dir
      /\ ConfigTypeOK /\ StorageOK /\ ControlOK
    BY LocalType DEF TypeInv
<1>2. ASSUME NEW code \in Code, Return(t, code) PROVE ControlOK'
    BY <1>1, <1>2, ReturnType
<1>3. {"ERR_FILE_VERIFY_FAIL", "ERR_INSTALLED_ALRADY", "ERR_SYSTEM_ERROR",
       "ERR_MAX_FILE_COUNT", "ERR_OK"} \subseteq Code
    BY DEF Code
<1>4. CASE UpdateConfig(t)
    <2>1. files \in [DOMAIN files -> Font]
        BY <1>1 DEF StorageOK
    <2>2. ConfigTypeOK' /\ StorageOK'
        BY <1>1, <1>4, <2>1, UpdateType, SameStorage DEF UpdateConfig
    <2>3. "url" \in Label /\ Ready("url", loc[t])
        BY <1>1, <1>4 DEF Label, Ready, UpdateConfig
    <2>4. ControlOK'
        BY <1>1, <1>2, <1>3, <1>4, <2>3, ContinueType DEF UpdateConfig
    <2> QED
        BY <2>2, <2>4 DEF TypeInv
<1>5. CASE CheckUrl(t)
    <2>1. ConfigTypeOK' /\ StorageOK'
        BY <1>1, <1>5, SameConfig, SameStorage DEF CheckUrl
    <2>2. "total" \in Label /\ Ready("total", loc[t])
        BY <1>1, <1>5 DEF Label, Ready, CheckUrl
    <2>3. ControlOK'
        BY <1>1, <1>2, <1>3, <1>5, <2>2, ContinueType DEF CheckUrl
    <2> QED
        BY <2>1, <2>3 DEF TypeInv
<1>6. CASE CheckTotal(t)
    <2>1. ConfigTypeOK' /\ StorageOK'
        BY <1>1, <1>6, SameConfig, SameStorage DEF CheckTotal
    <2>2. "names" \in Label /\ Ready("names", loc[t])
        BY <1>1, <1>6 DEF Label, Ready, CheckTotal
    <2>3. ControlOK'
        BY <1>1, <1>2, <1>3, <1>6, <2>2, ContinueType DEF CheckTotal
    <2> QED
        BY <2>1, <2>3 DEF TypeInv
<1>7. CASE CheckNames(t)
    <2>1. ConfigTypeOK' /\ StorageOK'
        BY <1>1, <1>7, SameConfig, SameStorage DEF CheckNames
    <2>2. "names" \in Label /\ "mkdir" \in Label
        BY DEF Label
    <2>3. \A l \in Local : l.font = loc[t].font /\ l.id = loc[t].id
            => Ready("names", l) /\ Ready("mkdir", l)
        BY <1>1, <1>7 DEF CheckNames, Ready
    <2>4. CASE NextName(t, "names", "mkdir")
        BY <1>1, <2>1, <2>2, <2>3, <2>4, NextNameType DEF TypeInv
    <2>5. CASE Return(t, "ERR_INSTALLED_ALRADY")
        BY <1>2, <1>3, <2>1, <2>5 DEF TypeInv
    <2> QED
        BY <1>7, <2>4, <2>5 DEF CheckNames
<1>8. CASE InitScopeDir(t)
    <2>1. loc[t].id \in AppId
        BY <1>1, <1>8 DEF InitScopeDir, Ready
    <2>2. ConfigTypeOK' /\ StorageOK'
        BY <1>1, <1>8, <2>1, SameConfig DEF InitScopeDir, StorageOK
    <2>3. "copyScope" \in Label /\ Ready("copyScope", loc[t])
        BY <1>1, <1>8 DEF Label, Ready, InitScopeDir
    <2>4. ControlOK'
        BY <1>1, <1>2, <1>3, <1>8, <2>3, ContinueType DEF InitScopeDir
    <2> QED
        BY <2>2, <2>4 DEF TypeInv
<1>9. CASE CopyScopeFont(t)
    BY <1>9, CopyType DEF CopyScopeFont
<1>10. CASE InsertScopeFont(t)
    <2>1. PICK ok \in BOOLEAN :
            /\ InsertScopeFontRecord(ScopeRecord(t), ok)
            /\ \/ ok /\ Return(t, "ERR_OK")
               \/ ~ok /\ Move(t, "undo", [loc[t] EXCEPT !.ret = "ERR_SYSTEM_ERROR"])
        BY <1>10 DEF InsertScopeFont
    <2>2. loc[t].font \in Font /\ loc[t].path \in Path
        BY <1>1, <1>10 DEF InsertScopeFont, Ready
    <2>3. loc[t].id.scope \in Scope
        BY <1>1 DEF Dir, AppId, Root, MakeAppIdentifier, Scope
    <2>4. ScopeRecord(t) \in FontRecordInfo
        BY <1>1, <2>2, <2>3, NamesType DEF ScopeRecord, FontRecordInfo
    <2>5. ConfigTypeOK'
        BY <1>1, <2>1, <2>4, InsertScopeFontRecordType
    <2>6. StorageOK'
        BY <1>1, <1>10, SameStorage DEF InsertScopeFont
    <2>7. CASE Return(t, "ERR_OK")
        BY <1>2, <1>3, <2>5, <2>6, <2>7 DEF TypeInv
    <2>8. CASE Move(t, "undo", [loc[t] EXCEPT !.ret = "ERR_SYSTEM_ERROR"])
        <3> DEFINE l == [loc[t] EXCEPT !.ret = "ERR_SYSTEM_ERROR"]
        <3>1. l \in Local /\ l.font \in Font
            BY <1>1, <1>3, <2>2, SetRet
        <3> HIDE DEF l
        <3>2. "undo" \in Label /\ Ready("undo", l)
            BY <3>1 DEF Label, Ready
        <3>3. Move(t, "undo", l)
            BY <2>8 DEF l
        <3> QED
            BY <1>1, <2>5, <2>6, <3>1, <3>2, <3>3, MoveType DEF TypeInv
    <2> QED
        BY <2>1, <2>7, <2>8
<1> QED
    BY <1>4, <1>5, <1>6, <1>7, <1>8, <1>9, <1>10

(* The calls and steps of UninstallFont and UninstallScopeFont.            *)
LEMMA RemoveThenType ==
    ASSUME TypeInv, NEW t \in Thread, NEW next \in {"delete", "deleteScope"},
           RemoveThen(t, next)
    PROVE  TypeInv'
<1>1. ConfigTypeOK' /\ StorageOK'
    BY SameConfig, RemoveType DEF RemoveThen, TypeInv
<1>2. next \in Label /\ Ready(next, loc[t]) /\ "ERR_UNINSTALL_REMOVE_FAIL" \in Code
    BY DEF Label, Ready, Code
<1>3. ControlOK'
    BY <1>2, ContinueType, ReturnType DEF RemoveThen, TypeInv
<1> QED
    BY <1>1, <1>3 DEF TypeInv

(* The steps of UninstallFont and UninstallScopeFont after the lookup.     *)
LEMMA UninstallStep ==
    ASSUME TypeInv, NEW t \in Thread,
           \/ RemoveFont(t) \/ DeleteFont(t)
           \/ RemoveScopeFont(t) \/ DeleteScopeFont(t)
    PROVE  TypeInv'
<1>1. CASE RemoveFont(t) \/ RemoveScopeFont(t)
    BY <1>1, RemoveThenType DEF RemoveFont, RemoveScopeFont
<1>2. CASE DeleteFont(t) \/ DeleteScopeFont(t)
    <2>1. ConfigTypeOK' /\ StorageOK'
        BY <1>2, DeleteRecordType, SameStorage DEF DeleteFont, DeleteScopeFont, TypeInv
    <2>2. PICK code : code \in Code /\ Return(t, code)
        BY <1>2 DEF DeleteFont, DeleteScopeFont, Code
    <2>3. ControlOK'
        BY <2>2, ReturnType DEF TypeInv
    <2> QED
        BY <2>1, <2>3 DEF TypeInv
<1> QED
    BY <1>1, <1>2

(* The lookups of UninstallFont and UninstallScopeFont.                    *)
LEMMA UninstallCall ==
    ASSUME TypeInv, NEW t \in Thread,
           \/ \E n \in Name : UninstallFont(t, n)
           \/ \E u \in Url, token \in Token : UninstallScopeFont(t, u, token)
    PROVE  TypeInv'
<1>1. ConfigTypeOK' /\ StorageOK'
    BY SameConfig, SameStorage DEF UninstallFont, UninstallScopeFont, TypeInv
<1>2. ASSUME NEW code \in {"ERR_UNINSTALL_FILE_NOT_EXISTS", "ERR_SCOPE_FONT_NOT_FOUND"},
             Return(t, code)
      PROVE  TypeInv'
    <2>1. code \in Code
        BY DEF Code
    <2> QED
        BY <1>1, <1>2, <2>1, ReturnType DEF TypeInv
<1>3. ASSUME NEW op \in {"UninstallFont", "UninstallScopeFont"}, NEW u \in SrcPath,
             NEW id \in Dir, NEW p \in Path, NEW label \in {"remove", "removeScope"},
             Move(t, label, [Begin(op, NoFont, u, id) EXCEPT !.path = p])
      PROVE  TypeInv'
    <2> DEFINE l == Begin(op, NoFont, u, id)
               m == [l EXCEPT !.path = p]
    <2>1. op \in Operation /\ NoFont \in Font \cup {NoFont}
        BY DEF Operation
    <2>2. l \in Local
        BY <2>1, BeginType
    <2> HIDE DEF l
    <2>3. m \in Local
        BY <2>2, SetPath
    <2>4. Move(t, label, m)
        BY <1>3 DEF l
    <2> HIDE DEF m
    <2>5. label \in Label /\ Ready(label, m)
        BY DEF Label, Ready
    <2> QED
        BY <1>1, <2>3, <2>4, <2>5, MoveType DEF TypeInv
<1>4. ASSUME NEW n \in Name, UninstallFont(t, n) PROVE TypeInv'
    <2> DEFINE r == GetFontRecordByName(n)
    <2>1. CASE Return(t, "ERR_UNINSTALL_FILE_NOT_EXISTS")
        BY <1>2, <2>1
    <2>2. CASE /\ HasName(n)
               /\ Move(t, "remove", [Begin("UninstallFont", NoFont, NoUrl, Root)
                                       EXCEPT !.path = r.path])
        <3>1. r.path \in Path
            BY <2>2, FoundRecords DEF TypeInv, GetFontFileByName
        <3>2. NoUrl \in SrcPath /\ Root \in Dir
            BY DEF SrcPath, Dir
        <3> HIDE DEF r
        <3> QED
            BY <1>3, <2>2, <3>1, <3>2
    <2> QED
        BY <1>4, <2>1, <2>2 DEF UninstallFont
<1>5. ASSUME NEW u \in Url, NEW token \in Token, UninstallScopeFont(t, u, token)
      PROVE  TypeInv'
    <2> DEFINE r == GetFontRecordByUrl(u)
               id == MakeAppIdentifier(r.scope, token)
    <2>1. CASE Return(t, "ERR_SCOPE_FONT_NOT_FOUND")
        BY <1>2, <2>1
    <2>2. CASE /\ HasUrl(u)
               /\ Owns(token, r)
               /\ Move(t, "removeScope",
                       [Begin("UninstallScopeFont", NoFont, u, id) EXCEPT !.path = r.path])
        <3>1. r \in FontRecordInfo
            BY <2>2, FoundRecords DEF TypeInv
        <3>2. r.path \in Path /\ id \in Dir
            BY <2>2, <3>1 DEF FontRecordInfo, Owns
        <3>3. u \in SrcPath
            BY DEF SrcPath
        <3> HIDE DEF r, id
        <3> QED
            BY <1>3, <2>2, <3>2, <3>3
    <2> QED
        BY <1>5, <2>1, <2>2 DEF UninstallScopeFont
<1> QED
    BY <1>4, <1>5

(* The calls and steps of the cleanups.                                    *)
LEMMA CleanupCall ==
    ASSUME TypeInv, NEW t \in Thread, NEW op, NEW id \in Dir,
           op \in UserCleanup \cup {"CleanupAppScopeFonts"}, Cleanup(t, op, id)
    PROVE  TypeInv'
<1> DEFINE l == Begin(op, NoFont, NoUrl, id)
           m == [l EXCEPT !.todo = Snapshot(op, id)]
<1>1. op \in Operation /\ NoUrl \in SrcPath /\ NoFont \in Font \cup {NoFont}
    BY DEF Operation, SrcPath
<1>2. Snapshot(op, id) \in SUBSET FontRecordInfo
    <2>1. Records \subseteq FontRecordInfo
        BY FoundRecords DEF TypeInv
    <2> QED
        BY <2>1 DEF Snapshot, UserCleanup, GetFontRecordsByAppId, GetScopeFontRecords,
                    GetAppScopeFontRecords
<1>3. l \in Local
    BY <1>1, BeginType
<1> HIDE DEF l
<1>4. m \in Local
    BY <1>2, <1>3, SetArgument
<1>5. Move(t, "clean", m)
    BY DEF Cleanup, l
<1> HIDE DEF m
<1>6. "clean" \in Label /\ Ready("clean", m)
    BY DEF Label, Ready
<1>7. ControlOK'
    BY <1>4, <1>5, <1>6, MoveType DEF TypeInv
<1> QED
    BY <1>7, SameConfig, SameStorage DEF Cleanup, TypeInv

(* The snapshot and the steps of the cleanups.                             *)
LEMMA CleanupStep ==
    ASSUME TypeInv, NEW t \in Thread,
           CleanFile(t) \/ CleanRecord(t) \/ CleanDirs(t)
    PROVE  TypeInv'
<1>1. /\ loc[t] \in Local /\ loc[t].todo \subseteq FontRecordInfo
      /\ ConfigTypeOK /\ StorageOK /\ ControlOK
    BY LocalType DEF TypeInv
<1>2. CASE CleanFile(t)
    <2>1. PICK r \in loc[t].todo :
            /\ \E ok \in BOOLEAN : RemoveFile(r.path, ok)
            /\ Move(t, "deleteClean", [loc[t] EXCEPT !.todo = @ \ {r},
                                            !.path = r.path, !.url = r.srcPath])
        BY <1>2 DEF CleanFile
    <2> DEFINE a == [loc[t] EXCEPT !.todo = @ \ {r}]
               b == [a EXCEPT !.path = r.path]
               c == [b EXCEPT !.url = r.srcPath]
    <2>2. r.path \in Path /\ r.srcPath \in SrcPath
        BY <1>1 DEF FontRecordInfo
    <2>3. [loc[t] EXCEPT !.todo = @ \ {r}, !.path = r.path, !.url = r.srcPath] = c
        OBVIOUS
    <2>4. loc[t].todo \ {r} \in SUBSET FontRecordInfo
        BY <1>1
    <2>5. a \in Local
        BY <1>1, <2>4, SetArgument
    <2> HIDE DEF a
    <2>6. b \in Local
        BY <2>2, <2>5, SetPath
    <2> HIDE DEF b
    <2>7. c \in Local
        BY <2>2, <2>6, SetArgument
    <2> HIDE DEF c
    <2>8. "deleteClean" \in Label /\ Ready("deleteClean", c)
        BY DEF Label, Ready
    <2>9. ControlOK'
        BY <1>1, <2>1, <2>3, <2>7, <2>8, MoveType
    <2>10. ConfigTypeOK' /\ StorageOK'
        BY <1>1, <1>2, <2>1, SameConfig, RemoveType DEF CleanFile
    <2> QED
        BY <2>9, <2>10 DEF TypeInv
<1>3. CASE CleanRecord(t)
    <2>1. ConfigTypeOK' /\ StorageOK'
        BY <1>1, <1>3, DeleteRecordType, SameStorage DEF CleanRecord
    <2>2. "clean" \in Label /\ Ready("clean", loc[t])
        BY DEF Label, Ready
    <2>3. ControlOK'
        BY <1>1, <1>3, <2>2, ContinueType DEF CleanRecord
    <2> QED
        BY <2>1, <2>3 DEF TypeInv
<1>4. CASE CleanDirs(t)
    <2>1. ConfigTypeOK' /\ StorageOK'
        BY <1>1, <1>4, SameConfig, FilesType DEF CleanDirs, DeleteDirs
    <2>2. "ERR_OK" \in Code
        BY DEF Code
    <2>3. ControlOK'
        BY <1>1, <1>4, <2>2, ReturnType DEF CleanDirs
    <2> QED
        BY <2>1, <2>3 DEF TypeInv
<1> QED
    BY <1>2, <1>3, <1>4

(* A crash of the service ends every operation and may truncate the file.  *)
LEMMA CrashType ==
    ASSUME TypeInv, Crash
    PROVE  TypeInv'
<1>1. StorageOK'
    BY SameStorage DEF Crash, TypeInv
<1>2. ConfigTypeOK'
    <2>1. CASE Truncated
        BY <2>1, CreateType DEF CreateFontConfig
    <2>2. CASE UNCHANGED configVars
        BY <2>2, SameConfig DEF TypeInv
    <2> QED
        BY <2>1, <2>2 DEF Crash
<1>3. ControlOK'
    <2>1. "idle" \in Label /\ Ready("idle", Idle)
        BY DEF Label, Ready
    <2> QED
        BY <2>1, IdleType DEF Crash, ControlOK
<1> QED
    BY <1>1, <1>2, <1>3 DEF TypeInv

(* The states of the store at a start are well typed.                      *)
LEMMA InitType ==
    ASSUME Init
    PROVE  TypeInv
<1>1. ControlOK
    <2>1. "idle" \in Label /\ Ready("idle", Idle)
        BY DEF Label, Ready
    <2> QED
        BY <2>1, IdleType DEF Init, ControlOK
<1>2. CASE /\ configFile \in {"missing", "valid"} /\ fontlist = <<>>
           /\ version = IF configFile = "valid" THEN "7.0" ELSE "none"
           /\ files = << >>
    <2>1. fontlist \in Seq(FontRecordInfo)
        BY <1>2
    <2>2. ConfigTypeOK
        BY <1>2, <2>1 DEF ConfigTypeOK
    <2>3. DOMAIN files = {} /\ files \in [DOMAIN files -> Font]
        BY <1>2
    <2>4. StorageOK
        BY <2>3 DEF StorageOK, Init
    <2> QED
        BY <1>1, <2>2, <2>4 DEF TypeInv
<1>3. CASE \E f \in Font : \E names \in SUBSET NamesOf(f) :
            /\ configFile = "valid" /\ version = "1"
            /\ fontlist = <<UserRecord(OldPath(f), names)>>
            /\ files = [p \in {OldPath(f)} |-> f]
    <2>1. PICK f \in Font : \E names \in SUBSET NamesOf(f) :
            /\ configFile = "valid" /\ version = "1"
            /\ fontlist = <<UserRecord(OldPath(f), names)>>
            /\ files = [p \in {OldPath(f)} |-> f]
        BY <1>3
    <2> PICK names \in SUBSET NamesOf(f) :
            /\ configFile = "valid" /\ version = "1"
            /\ fontlist = <<UserRecord(OldPath(f), names)>>
            /\ files = [p \in {OldPath(f)} |-> f]
        BY <2>1
    <2>2. OldPath(f) \in Path
        <3>1. (CHOOSE k \in Tag : TRUE) \in Tag /\ (CHOOSE t \in Thread : TRUE) \in Thread
            BY FontConfigAssumption
        <3> QED
            BY <3>1 DEF OldPath, Path, Dir
    <2>3. names \in SUBSET Name
        BY NamesType
    <2>4. UserRecord(OldPath(f), names) \in FontRecordInfo
        BY <2>2, <2>3, UserRecordType
    <2>5. ConfigTypeOK
        BY <2>1, <2>4 DEF ConfigTypeOK
    <2>6. StorageOK
        BY <2>1, <2>2 DEF StorageOK, Init
    <2> QED
        BY <1>1, <2>5, <2>6 DEF TypeInv
<1> QED
    BY <1>2, <1>3 DEF Init, InitStore

(* Every step of the store keeps the types.                                *)
LEMMA NextType ==
    ASSUME TypeInv, [Next]_vars
    PROVE  TypeInv'
<1>1. ASSUME NEW t \in Thread, Call(t) PROVE TypeInv'
    <2>1. ASSUME NEW f \in Font, InstallFont(t, f) PROVE TypeInv'
        <3>1. NoUrl \in SrcPath /\ Root \in Dir
            BY DEF SrcPath, Dir
        <3> QED
            BY <2>1, <3>1, StartInstallType DEF InstallFont
    <2>2. ASSUME NEW f \in Font, NEW u \in Url, NEW id \in Client,
                 InstallScopeFont(t, f, u, id)
          PROVE  TypeInv'
        <3>1. u \in SrcPath /\ id \in Dir /\ id \in AppId
            BY FontManagerAssumption DEF SrcPath, Dir
        <3> QED
            BY <2>2, <3>1, StartInstallType DEF InstallScopeFont
    <2>3. ASSUME NEW token \in Token,
                 Cleanup(t, "CleanupAppScopeFonts", MakeAppIdentifier("app", token))
          PROVE  TypeInv'
        <3>1. MakeAppIdentifier("app", token) \in Dir
            BY DEF MakeAppIdentifier, Dir, AppId
        <3> QED
            BY <2>3, <3>1, CleanupCall
    <2>4. ASSUME NEW op \in UserCleanup, Cleanup(t, op, Root) PROVE TypeInv'
        <3>1. Root \in Dir
            BY DEF Dir
        <3> QED
            BY <2>4, <3>1, CleanupCall
    <2>5. ASSUME CleanupScopeFontDirs(t) PROVE TypeInv'
        <3>1. ConfigTypeOK' /\ StorageOK'
            BY <2>5, SameConfig DEF CleanupScopeFontDirs, TypeInv, StorageOK
        <3>2. "ERR_OK" \in Code
            BY DEF Code
        <3>3. ControlOK'
            BY <2>5, <3>2, ReturnType DEF CleanupScopeFontDirs, TypeInv
        <3> QED
            BY <3>1, <3>3 DEF TypeInv
    <2> QED
        BY <1>1, <2>1, <2>2, <2>3, <2>4, <2>5, UninstallCall DEF Call
<1>2. ASSUME NEW t \in Thread, Step(t) PROVE TypeInv'
    BY <1>2, StoreCreation, InstallStep, InstallScopeStep, UninstallStep, CleanupStep
       DEF Step
<1>3. CASE UNCHANGED vars
    BY <1>3 DEF vars, configVars, storage, control, TypeInv, ConfigTypeOK, StorageOK,
                ControlOK
<1> QED
    BY <1>1, <1>2, <1>3, CrashType DEF Next

(* The types, and what the local variables hold at each label, are         *)
(* invariant.                                                              *)
THEOREM TypeInvariant == Spec => []TypeInv
<1>1. TypeInv /\ [Next]_vars => TypeInv'
    BY NextType
<1> QED
    BY <1>1, InitType, PTL DEF Spec

(* The configuration file, the font files on disk and the local variables  *)
(* of every operation keep their types: no interleaving, failure or crash  *)
(* inserts a record without a path that CopyFileForInstall made, or makes  *)
(* a directory for anything but an application.                            *)
THEOREM TypeCorrect == Spec => []TypeOK
<1>1. TypeInv => TypeOK
    BY DEF TypeInv, StorageOK, ControlOK, TypeOK
<1> QED
    BY <1>1, TypeInvariant, PTL

-----------------------------------------------------------------------------
(* The bound on the number of installed fonts.                             *)

(* A thread that has counted the fonts for a scope install, and has not    *)
(* inserted its record yet, holds a place that the count does not show.    *)
(* The number of records is bounded because a thread holds one place at a  *)
(* time: records and places together stay within the limit for all threads *)
(* but the one whose count was the last to succeed.                        *)
Holding == {"names", "mkdir", "copyScope", "insertScope"}
Reserving == {t \in Thread : pc[t] \in Holding}

PlacesInv ==
    Len(fontlist) + Cardinality(Reserving) <= MaxInstallNum + Cardinality(Thread) - 1

(* Sets of threads are finite, and there is a thread.                      *)
LEMMA ThreadSets ==
    ASSUME NEW S \in SUBSET Thread
    PROVE  /\ IsFiniteSet(S) /\ Cardinality(S) \in Nat
           /\ Cardinality(Thread) \in Nat /\ Cardinality(Thread) >= 1
           /\ Cardinality(S) <= Cardinality(Thread)
           /\ \A t \in Thread \ S : Cardinality(S) <= Cardinality(Thread) - 1
           /\ \A T \in SUBSET S : Cardinality(T) <= Cardinality(S)
           /\ \A t \in S : \A T \in SUBSET (S \ {t}) :
                Cardinality(T) <= Cardinality(S) - 1
<1>1. IsFiniteSet(Thread) /\ Thread # {} /\ Cardinality(Thread) \in Nat
    BY FontConfigAssumption, FS_CardinalityType
<1>2. Cardinality(Thread) # 0
    BY <1>1, FS_EmptySet
<1>3. ASSUME NEW A \in SUBSET Thread, NEW B \in SUBSET A
      PROVE  /\ IsFiniteSet(A) /\ Cardinality(A) \in Nat
             /\ Cardinality(B) <= Cardinality(A)
    <2>1. IsFiniteSet(A) /\ Cardinality(A) \in Nat
        BY <1>1, FS_Subset, FS_CardinalityType
    <2> QED
        BY <2>1, FS_Subset
<1>4. ASSUME NEW A \in SUBSET Thread, NEW t \in A, NEW B \in SUBSET (A \ {t})
      PROVE  Cardinality(B) <= Cardinality(A) - 1
    <2>1. IsFiniteSet(A)
        BY <1>3
    <2>2. Cardinality(A \ {t}) = Cardinality(A) - 1
        BY <2>1, FS_RemoveElement
    <2>3. Cardinality(B) <= Cardinality(A \ {t})
        BY <1>3
    <2> QED
        BY <2>2, <2>3
<1>5. ASSUME NEW t \in Thread \ S PROVE Cardinality(S) <= Cardinality(Thread) - 1
    <2>1. S \in SUBSET (Thread \ {t})
        OBVIOUS
    <2> QED
        BY <1>4, <2>1
<1> QED
    BY <1>1, <1>2, <1>3, <1>4, <1>5

(* The four ways in which a step keeps the sum.                            *)
LEMMA PlacesKept ==
    ASSUME ConfigTypeOK, ConfigTypeOK', PlacesInv,
           \/ Len(fontlist') <= Len(fontlist) /\ Reserving' \subseteq Reserving
           \/ Len(fontlist') < MaxInstallNum
           \/ /\ Len(fontlist') <= Len(fontlist) + 1
              /\ \E t \in Reserving : Reserving' \subseteq Reserving \ {t}
           \/ Len(fontlist') <= MaxInstallNum /\ \E t \in Thread : t \notin Reserving'
    PROVE  PlacesInv'
<1> DEFINE R == Reserving
           Q == Reserving'
           n == Cardinality(Thread)
<1>1. R \in SUBSET Thread /\ Q \in SUBSET Thread
    BY DEF Reserving
<1>2. Len(fontlist) \in Nat /\ Len(fontlist') \in Nat /\ MaxInstallNum \in Nat
    BY FontConfigAssumption DEF ConfigTypeOK
<1>3. Len(fontlist) + Cardinality(R) <= MaxInstallNum + n - 1
    BY DEF PlacesInv
<1>4. \/ Len(fontlist') <= Len(fontlist) /\ Q \subseteq R
      \/ Len(fontlist') < MaxInstallNum
      \/ Len(fontlist') <= Len(fontlist) + 1 /\ \E t \in R : Q \subseteq R \ {t}
      \/ Len(fontlist') <= MaxInstallNum /\ \E t \in Thread : t \notin Q
    OBVIOUS
<1> HIDE DEF R, Q
<1>5. /\ Cardinality(R) \in Nat /\ Cardinality(Q) \in Nat /\ n \in Nat
      /\ Cardinality(Q) <= n
    BY <1>1, ThreadSets
<1>6. Len(fontlist') + Cardinality(Q) <= MaxInstallNum + n - 1
    <2>1. CASE Len(fontlist') <= Len(fontlist) /\ Q \subseteq R
        <3>1. Cardinality(Q) <= Cardinality(R)
            BY <1>1, <2>1, ThreadSets
        <3> HIDE DEF n
        <3> QED
            BY <1>2, <1>3, <1>5, <2>1, <3>1
    <2>2. CASE Len(fontlist') < MaxInstallNum
        <3> HIDE DEF n
        <3> QED
            BY <1>2, <1>5, <2>2
    <2>3. CASE Len(fontlist') <= Len(fontlist) + 1 /\ \E t \in R : Q \subseteq R \ {t}
        <3>1. Cardinality(Q) <= Cardinality(R) - 1
            BY <1>1, <2>3, ThreadSets
        <3> HIDE DEF n
        <3> QED
            BY <1>2, <1>3, <1>5, <2>3, <3>1
    <2>4. CASE Len(fontlist') <= MaxInstallNum /\ \E t \in Thread : t \notin Q
        <3>1. Cardinality(Q) <= n - 1
            BY <1>1, <2>4, ThreadSets
        <3> HIDE DEF n
        <3> QED
            BY <1>2, <1>5, <2>4, <3>1
    <2> QED
        BY <1>4, <2>1, <2>2, <2>3, <2>4
<1> QED
    BY <1>6 DEF PlacesInv, Q

(* What a move does to the set of the threads that hold a place.           *)
LEMMA MoveReserving ==
    ASSUME ControlOK, NEW t \in Thread, NEW label, NEW l, Move(t, label, l)
    PROVE  /\ label \notin Holding => Reserving' \subseteq Reserving \ {t}
           /\ pc[t] \in Holding => Reserving' \subseteq Reserving
<1>1. pc \in [Thread -> Label] /\ pc' = [pc EXCEPT ![t] = label]
    BY DEF ControlOK, Move
<1>2. pc'[t] = label /\ \A s \in Thread \ {t} : pc'[s] = pc[s]
    BY <1>1
<1> QED
    BY <1>2 DEF Reserving

(* A move of a thread that gains no place.                                 *)
LEMMA MovePlaces ==
    ASSUME ConfigTypeOK, ConfigTypeOK', ControlOK, PlacesInv,
           Len(fontlist') <= Len(fontlist),
           NEW t \in Thread, NEW label, NEW l, Move(t, label, l),
           label \notin Holding \/ pc[t] \in Holding
    PROVE  PlacesInv'
<1>1. Reserving' \subseteq Reserving
    BY MoveReserving
<1> QED
    BY <1>1, PlacesKept

(* A step that leaves the configuration alone adds no record.              *)
LEMMA SameLength ==
    ASSUME ConfigTypeOK, UNCHANGED configVars
    PROVE  ConfigTypeOK' /\ Len(fontlist') <= Len(fontlist)
<1>1. Len(fontlist) \in Nat /\ fontlist' = fontlist
    BY DEF ConfigTypeOK, configVars
<1> QED
    BY <1>1, SameConfig

(* The first step of an operation of FontManager takes no place.           *)
LEMMA CallPlaces ==
    ASSUME TypeInv, PlacesInv, NEW t \in Thread, Call(t)
    PROVE  PlacesInv'
<1>1. UNCHANGED configVars
    BY DEF Call, InstallFont, InstallScopeFont, StartInstall, UninstallFont,
           UninstallScopeFont, Cleanup, CleanupScopeFontDirs
<1>2. \E label \in {"idle", "create", "find", "update", "remove", "removeScope", "clean"} :
        \E l : Move(t, label, l)
    BY DEF Call, InstallFont, InstallScopeFont, StartInstall, Start, AfterInit, Return,
           UninstallFont, UninstallScopeFont, Cleanup, CleanupScopeFontDirs
<1>3. PICK label \in {"idle", "create", "find", "update", "remove", "removeScope",
                      "clean"} : \E l : Move(t, label, l)
    BY <1>2
<1>4. PICK l : Move(t, label, l)
    BY <1>3
<1>5. label \notin Holding
    BY DEF Holding
<1> QED
    BY <1>1, <1>4, <1>5, SameLength, MovePlaces DEF TypeInv

(* The three steps that touch the sum: the count, and the two insertions.  *)
LEMMA CheckTotalPlaces ==
    ASSUME TypeInv, PlacesInv, NEW t \in Thread, CheckTotal(t)
    PROVE  PlacesInv'
<1>1. ConfigTypeOK' /\ Len(fontlist') <= Len(fontlist) /\ fontlist' = fontlist
    BY SameLength DEF CheckTotal, TypeInv, configVars
<1>2. CASE Len(fontlist) < MaxInstallNum
    BY <1>1, <1>2, PlacesKept DEF TypeInv
<1>3. CASE \E code \in Code : Return(t, code)
    <2>1. "idle" \notin Holding
        BY DEF Holding
    <2> QED
        BY <1>1, <1>3, <2>1, MovePlaces DEF TypeInv, Return
<1> QED
    BY <1>2, <1>3 DEF CheckTotal, GetTotalInstalledFontsNum, Code

(* InsertFontRecordIfUnderLimit counts again under the lock and takes no   *)
(* place above the limit.                                                  *)
LEMMA InsertFontPlaces ==
    ASSUME TypeInv, PlacesInv, NEW t \in Thread, InsertFont(t)
    PROVE  PlacesInv'
<1>1. PICK ret \in Code :
        /\ InsertFontRecordIfUnderLimit(loc[t].path, NamesOf(loc[t].font), ret)
        /\ \/ ret = "ERR_OK" /\ Return(t, ret)
           \/ ret # "ERR_OK" /\ Move(t, "undo", [loc[t] EXCEPT !.ret = ret])
    BY DEF InsertFont
<1>2. loc[t].font \in Font /\ loc[t].path \in Path
    BY LocalType DEF InsertFont, At, Ready
<1>3. /\ ConfigTypeOK'
      /\ Len(fontlist') <= Len(fontlist) \/ Len(fontlist') <= MaxInstallNum
    BY <1>1, <1>2, NamesType, InsertFontRecordType DEF TypeInv
<1>4. PICK label \in {"idle", "undo"} : \E l : Move(t, label, l)
    BY <1>1 DEF Return
<1>5. label \notin Holding
    BY DEF Holding
<1>6. Reserving' \subseteq Reserving \ {t}
    <2>1. PICK l : Move(t, label, l)
        BY <1>4
    <2> QED
        BY <2>1, <1>5, MoveReserving DEF TypeInv
<1> QED
    BY <1>3, <1>6, PlacesKept DEF TypeInv

(* InsertScopeFontRecord turns the place its thread held into a record.    *)
LEMMA InsertScopeFontPlaces ==
    ASSUME TypeInv, PlacesInv, NEW t \in Thread, InsertScopeFont(t)
    PROVE  PlacesInv'
<1>1. PICK ok \in BOOLEAN :
        /\ InsertScopeFontRecord(ScopeRecord(t), ok)
        /\ \/ ok /\ Return(t, "ERR_OK")
           \/ ~ok /\ Move(t, "undo", [loc[t] EXCEPT !.ret = "ERR_SYSTEM_ERROR"])
    BY DEF InsertScopeFont
<1>2. TypeInv'
    BY InstallScopeStep
<1>3. Len(fontlist') <= Len(fontlist) + 1
    <2>1. loc[t].font \in Font /\ loc[t].path \in Path
        BY LocalType DEF InsertScopeFont, At, Ready
    <2>2. loc[t].id \in Dir /\ loc[t].url \in SrcPath
        BY LocalType
    <2>3. loc[t].id.scope \in Scope
        BY <2>2 DEF Dir, AppId, Root, MakeAppIdentifier, Scope
    <2>4. ScopeRecord(t) \in FontRecordInfo
        BY <2>1, <2>2, <2>3, NamesType DEF ScopeRecord, FontRecordInfo
    <2> QED
        BY <1>1, <2>4, InsertScopeFontRecordType DEF TypeInv
<1>4. PICK label \in {"idle", "undo"} : \E l : Move(t, label, l)
    BY <1>1 DEF Return
<1>5. label \notin Holding /\ t \in Reserving
    BY DEF Holding, Reserving, InsertScopeFont, At
<1>6. Reserving' \subseteq Reserving \ {t}
    <2>1. PICK l : Move(t, label, l)
        BY <1>4
    <2> QED
        BY <2>1, <1>5, MoveReserving DEF TypeInv
<1> QED
    BY <1>2, <1>3, <1>5, <1>6, PlacesKept DEF TypeInv

(* No other step of an operation adds a record.                            *)
LEMMA OtherLength ==
    ASSUME TypeInv, NEW t \in Thread, Step(t), ~InsertFont(t), ~InsertScopeFont(t)
    PROVE  ConfigTypeOK' /\ Len(fontlist') <= Len(fontlist)
<1>1. CASE UNCHANGED configVars
    BY <1>1, SameLength DEF TypeInv
<1>2. CASE CreateConfig(t) \/ FillConfig(t)
    <2>1. UNCHANGED configVars \/ (ConfigTypeOK' /\ Len(fontlist') = 0)
        BY <1>2, CreateType DEF CreateConfig, FillConfig
    <2>2. Len(fontlist) \in Nat
        BY DEF TypeInv, ConfigTypeOK
    <2> QED
        BY <1>1, <2>1, <2>2
<1>3. CASE \E ok \in BOOLEAN : \E x :
            DeleteFontRecord(x, ok) \/ DeleteScopeFontRecordByUrl(x, ok)
    BY <1>3, DeleteRecordType DEF TypeInv
<1>4. CASE \E ok \in BOOLEAN : CheckAndUpdateFontRecord(files, ok)
    BY <1>4, UpdateType DEF TypeInv, StorageOK
<1>5. CASE FindInstalled(t) \/ ProbeInstalled(t) \/ CheckInstalledNum(t) \/ CheckTotal(t)
           \/ CopyFont(t) \/ UndoCopy(t) \/ RemoveFont(t) \/ CheckUrl(t)
           \/ CheckNames(t) \/ InitScopeDir(t) \/ CopyScopeFont(t)
           \/ RemoveScopeFont(t) \/ CleanFile(t) \/ CleanDirs(t)
    BY <1>1, <1>5 DEF FindInstalled, ProbeInstalled, CheckInstalledNum, CheckTotal, CopyFont,
       CopyFileForInstall, UndoCopy, RemoveFont, RemoveThen, CheckUrl, CheckNames,
       InitScopeDir, CopyScopeFont, RemoveScopeFont, CleanFile, CleanDirs
<1>6. CASE HealRecord(t) \/ DeleteFont(t) \/ DeleteScopeFont(t) \/ CleanRecord(t)
    BY <1>3, <1>6 DEF HealRecord, DeleteFont, DeleteScopeFont, CleanRecord
<1>7. CASE UpdateConfig(t)
    BY <1>4, <1>7 DEF UpdateConfig
<1> QED
    BY <1>2, <1>5, <1>6, <1>7 DEF Step

(* Nor does one gain a place, but for the count.                           *)
LEMMA OtherPlaces ==
    ASSUME TypeInv, PlacesInv, NEW t \in Thread, Step(t),
           ~CheckTotal(t), ~InsertFont(t), ~InsertScopeFont(t)
    PROVE  PlacesInv'
<1> USE DEF At
<1>1. ConfigTypeOK' /\ Len(fontlist') <= Len(fontlist)
    BY OtherLength
<1>2. \E label, l : Move(t, label, l) /\ (label \notin Holding \/ pc[t] \in Holding)
    <2>1. CASE \/ CheckNames(t) \/ InitScopeDir(t) \/ CopyScopeFont(t)
        <3>1. pc[t] \in Holding
            BY <2>1 DEF CheckNames, InitScopeDir, CopyScopeFont, Holding
        <3>2. \E label, l : Move(t, label, l)
            BY <2>1 DEF CheckNames, InitScopeDir, CopyScopeFont, CopyFileForInstall,
               NextName, Continue, Return
        <3> QED
            BY <3>1, <3>2
    <2>2. CASE \E label \in Label \ Holding : \E l : Move(t, label, l)
        BY <2>2
    <2>3. {"idle", "fill", "find", "probe", "heal", "count", "copy", "insert", "update",
           "url", "total", "delete", "deleteScope", "clean", "deleteClean"}
            \subseteq Label \ Holding
        BY DEF Label, Holding
    <2>4. CASE CreateConfig(t) \/ FillConfig(t) \/ UpdateConfig(t) \/ CheckUrl(t)
        BY <2>2, <2>3, <2>4 DEF CreateConfig, FillConfig, UpdateConfig, CheckUrl,
           AfterInit, Continue, Return
    <2>5. CASE FindInstalled(t) \/ ProbeInstalled(t) \/ HealRecord(t)
               \/ CheckInstalledNum(t) \/ CopyFont(t) \/ UndoCopy(t)
        BY <2>2, <2>3, <2>5 DEF FindInstalled, ProbeInstalled, HealRecord,
           CheckInstalledNum, CopyFont, CopyFileForInstall, UndoCopy, NextName,
           Continue, Return
    <2>6. CASE RemoveFont(t) \/ DeleteFont(t) \/ RemoveScopeFont(t) \/ DeleteScopeFont(t)
        BY <2>2, <2>3, <2>6 DEF RemoveFont, RemoveThen, DeleteFont, RemoveScopeFont,
           DeleteScopeFont, Continue, Return
    <2>7. CASE CleanFile(t) \/ CleanRecord(t) \/ CleanDirs(t)
        BY <2>2, <2>3, <2>7 DEF CleanFile, CleanRecord, CleanDirs, Continue, Return
    <2> QED
        BY <2>1, <2>4, <2>5, <2>6, <2>7 DEF Step
<1> QED
    BY <1>1, <1>2, MovePlaces DEF TypeInv

(* A crash gives back the places of all threads.                           *)
LEMMA CrashPlaces ==
    ASSUME TypeInv, PlacesInv, Crash
    PROVE  PlacesInv'
<1>1. TypeInv'
    BY CrashType
<1>2. Reserving' = {}
    BY DEF Crash, Reserving, Holding
<1>3. Len(fontlist) \in Nat
    BY DEF TypeInv, ConfigTypeOK
<1>4. Len(fontlist') <= Len(fontlist)
    <2>1. CASE Truncated
        BY <1>3, <2>1 DEF Truncated
    <2>2. CASE UNCHANGED configVars
        BY <2>2, SameLength DEF TypeInv
    <2> QED
        BY <2>1, <2>2 DEF Crash
<1> QED
    BY <1>1, <1>2, <1>4, PlacesKept DEF TypeInv

(* At a start no place is held.                                            *)
LEMMA InitPlaces ==
    ASSUME Init
    PROVE  PlacesInv
<1>1. Reserving = {}
    BY DEF Init, Reserving, Holding
<1>2. Cardinality(Reserving) = 0
    BY <1>1, FS_EmptySet
<1>3. Len(fontlist) <= 1 /\ Len(fontlist) \in Nat
    <2>1. CASE fontlist = <<>>
        BY <2>1
    <2>2. CASE \E r : fontlist = <<r>>
        BY <2>2
    <2> QED
        BY <2>1, <2>2 DEF Init, InitStore
<1>4. Cardinality(Thread) \in Nat /\ Cardinality(Thread) >= 1
    BY ThreadSets
<1>5. MaxInstallNum \in Nat /\ MaxInstallNum >= 1
    BY FontConfigAssumption
<1> QED
    BY <1>2, <1>3, <1>4, <1>5 DEF PlacesInv

(* Every step keeps records and held places within the bound.              *)
LEMMA NextPlaces ==
    ASSUME TypeInv, PlacesInv, [Next]_vars
    PROVE  PlacesInv'
<1>1. CASE UNCHANGED vars
    <2>1. UNCHANGED <<fontlist, pc>>
        BY <1>1 DEF vars, configVars, control
    <2>2. Reserving' = Reserving
        BY <2>1 DEF Reserving
    <2> QED
        BY <2>1, <2>2 DEF PlacesInv
<1> QED
    BY <1>1, CallPlaces, CheckTotalPlaces, InsertFontPlaces, InsertScopeFontPlaces,
       OtherPlaces, CrashPlaces DEF Next

(* Whatever the interleaving of user-level and scope installs, uninstalls, *)
(* cleanups, failures and crashes, the unchecked insertion of scope fonts  *)
(* exceeds MAX_INSTALL_NUM by fewer fonts than the service has threads.    *)
THEOREM OvershootIsBounded == Spec => []LimitOvershoot
<1>1. TypeInv /\ PlacesInv /\ [Next]_vars => PlacesInv'
    BY NextPlaces
<1>2. TypeInv /\ PlacesInv => LimitOvershoot
    <2> SUFFICES ASSUME TypeInv, PlacesInv PROVE LimitOvershoot
        OBVIOUS
    <2>1. Reserving \in SUBSET Thread
        BY DEF Reserving
    <2>2. Cardinality(Reserving) \in Nat /\ Cardinality(Thread) \in Nat
        BY <2>1, ThreadSets
    <2>3. Len(fontlist) \in Nat /\ MaxInstallNum \in Nat
        BY FontConfigAssumption DEF TypeInv, ConfigTypeOK
    <2> QED
        BY <2>2, <2>3 DEF PlacesInv, LimitOvershoot
<1> QED
    BY <1>1, <1>2, InitPlaces, TypeInvariant, PTL DEF Spec

-----------------------------------------------------------------------------
(* Without scope installs the limit itself holds.                          *)

(* Where the threads may stand when InstallScopeFont is not called.        *)
NoScopeInstall ==
    \A t \in Thread :
        /\ pc[t] \notin Holding \cup {"update", "url", "total"}
        /\ pc[t] \in {"create", "fill"} => loc[t].op = "InstallFont"

UserLevelInv == NoScopeInstall /\ WithinLimit

(* Without InstallScopeFont no thread comes to the label of a scope        *)
(* installation.                                                           *)
LEMMA MoveNoScope ==
    ASSUME ControlOK, NoScopeInstall, NEW t \in Thread, NEW label, NEW l, Move(t, label, l),
           label \notin Holding \cup {"update", "url", "total"},
           label \in {"create", "fill"} => l.op = "InstallFont"
    PROVE  NoScopeInstall'
<1>1. /\ pc \in [Thread -> Label] /\ pc' = [pc EXCEPT ![t] = label]
      /\ loc \in [Thread -> Local] /\ loc' = [loc EXCEPT ![t] = l]
    BY DEF ControlOK, Move
<1>2. /\ pc'[t] = label /\ loc'[t] = l
      /\ \A s \in Thread \ {t} : pc'[s] = pc[s] /\ loc'[s] = loc[s]
    BY <1>1
<1> QED
    BY <1>2 DEF NoScopeInstall

(* Without InstallScopeFont every step keeps the records within the limit. *)
LEMMA NextUserLevel ==
    ASSUME "InstallScopeFont" \notin Op, TypeInv, UserLevelInv, [Next]_vars
    PROVE  UserLevelInv'
<1> USE DEF At, Holding
<1>1. /\ ConfigTypeOK /\ ControlOK /\ NoScopeInstall
      /\ Len(fontlist) \in Nat /\ MaxInstallNum \in Nat /\ Len(fontlist) <= MaxInstallNum
    BY FontConfigAssumption DEF TypeInv, UserLevelInv, WithinLimit, ConfigTypeOK
<1>2. ASSUME NEW t \in Thread, NEW label \in {"idle", "fill", "find", "probe", "heal",
                 "count", "copy", "insert", "undo", "remove", "delete", "removeScope",
                 "deleteScope", "clean", "deleteClean"},
             NEW l, Move(t, label, l), label = "fill" => l.op = "InstallFont"
      PROVE  NoScopeInstall'
    BY <1>1, <1>2, MoveNoScope
<1>3. ASSUME NEW t \in Thread, Call(t) PROVE UserLevelInv'
    <2>1. UNCHANGED configVars
        BY <1>3 DEF Call, InstallFont, InstallScopeFont, StartInstall, UninstallFont,
           UninstallScopeFont, Cleanup, CleanupScopeFontDirs
    <2>2. WithinLimit'
        BY <1>1, <2>1 DEF WithinLimit, configVars
    <2>3. ASSUME NEW f \in Font, InstallFont(t, f) PROVE NoScopeInstall'
        <3>1. CASE \E code \in Code : Return(t, code)
            BY <1>2, <3>1 DEF Return
        <3>2. CASE \E label \in {"create", "find"} :
                        Move(t, label, Begin("InstallFont", f, NoUrl, Root))
            <4>1. f \in Font \cup {NoFont} /\ NoUrl \in SrcPath /\ Root \in Dir
                  /\ "InstallFont" \in Operation
                BY DEF SrcPath, Dir, Operation
            <4>2. Begin("InstallFont", f, NoUrl, Root).op = "InstallFont"
                BY <4>1, BeginType
            <4> QED
                BY <1>1, <3>2, <4>2, MoveNoScope
        <3> QED
            BY <2>3, <3>1, <3>2 DEF InstallFont, StartInstall, Start, AfterInit, InitError, Code
    <2>4. ~ \E f \in Font, u \in Url, id \in Client : InstallScopeFont(t, f, u, id)
        BY DEF InstallScopeFont, StartInstall, Start
    <2>5. CASE \E label \in {"idle", "remove", "removeScope", "clean"} : \E l : Move(t, label, l)
        BY <1>2, <2>2, <2>5 DEF UserLevelInv
    <2>6. CASE \/ \E n \in Name : UninstallFont(t, n)
               \/ \E u \in Url, token \in Token : UninstallScopeFont(t, u, token)
               \/ (\E op, id : Cleanup(t, op, id)) \/ CleanupScopeFontDirs(t)
        BY <2>2, <2>5, <2>6 DEF UserLevelInv, UninstallFont, UninstallScopeFont, Cleanup,
           CleanupScopeFontDirs, Return
    <2> QED
        BY <1>3, <2>2, <2>3, <2>4, <2>5, <2>6 DEF Call, UserLevelInv
<1>4. ASSUME NEW t \in Thread, Step(t) PROVE UserLevelInv'
    <2>1. /\ pc[t] \notin {"names", "mkdir", "copyScope", "insertScope", "update", "url",
                           "total"}
          /\ pc[t] \in {"create", "fill"} => loc[t].op = "InstallFont"
        BY <1>1 DEF NoScopeInstall
    <2>2. ~ (\/ UpdateConfig(t) \/ CheckUrl(t) \/ CheckTotal(t) \/ CheckNames(t)
             \/ InitScopeDir(t) \/ CopyScopeFont(t) \/ InsertScopeFont(t))
        BY <2>1 DEF UpdateConfig, CheckUrl, CheckTotal, CheckNames, InitScopeDir,
           CopyScopeFont, InsertScopeFont
    <2>3. WithinLimit'
        <3>1. CASE InsertFont(t)
            <4>1. loc[t].font \in Font /\ loc[t].path \in Path
                BY <3>1, LocalType DEF InsertFont, Ready
            <4>2. Len(fontlist') <= Len(fontlist) \/ Len(fontlist') <= MaxInstallNum
                BY <1>1, <3>1, <4>1, NamesType, InsertFontRecordType DEF InsertFont
            <4>3. TypeInv'
                BY <3>1, InstallStep
            <4> QED
                BY <1>1, <4>2, <4>3 DEF WithinLimit, TypeInv, ConfigTypeOK
        <3>2. CASE ~InsertFont(t)
            <4>1. ConfigTypeOK' /\ Len(fontlist') <= Len(fontlist)
                BY <1>4, <2>2, <3>2, OtherLength
            <4> QED
                BY <1>1, <4>1 DEF WithinLimit, ConfigTypeOK
        <3> QED
            BY <3>1, <3>2
    <2>4. CASE \E label \in {"idle", "find", "probe", "heal", "count", "copy", "insert",
                             "undo", "delete", "deleteScope", "clean", "deleteClean"} :
                 \E l : Move(t, label, l)
        BY <1>2, <2>3, <2>4 DEF UserLevelInv
    <2>5. CASE CreateConfig(t)
        BY <1>2, <2>1, <2>3, <2>5 DEF CreateConfig, Continue, UserLevelInv
    <2>6. CASE FillConfig(t)
        BY <2>1, <2>4, <2>6 DEF FillConfig, Continue, Return, AfterInit
    <2>7. CASE FindInstalled(t) \/ ProbeInstalled(t) \/ HealRecord(t)
               \/ CheckInstalledNum(t) \/ CopyFont(t) \/ InsertFont(t) \/ UndoCopy(t)
        BY <2>4, <2>7 DEF FindInstalled, ProbeInstalled, HealRecord, CheckInstalledNum,
           CopyFont, CopyFileForInstall, InsertFont, UndoCopy, NextName, Continue, Return
    <2>8. CASE RemoveFont(t) \/ DeleteFont(t) \/ RemoveScopeFont(t) \/ DeleteScopeFont(t)
        BY <2>4, <2>8 DEF RemoveFont, RemoveThen, DeleteFont, RemoveScopeFont,
           DeleteScopeFont, Continue, Return
    <2>9. CASE CleanFile(t) \/ CleanRecord(t) \/ CleanDirs(t)
        BY <2>4, <2>9 DEF CleanFile, CleanRecord, CleanDirs, Continue, Return
    <2> QED
        BY <1>4, <2>2, <2>5, <2>6, <2>7, <2>8, <2>9 DEF Step
<1>5. CASE Crash
    <2>1. NoScopeInstall'
        BY <1>5 DEF Crash, NoScopeInstall
    <2>2. WithinLimit'
        BY <1>1, <1>5 DEF Crash, Truncated, configVars, WithinLimit
    <2> QED
        BY <2>1, <2>2 DEF UserLevelInv
<1>6. CASE UNCHANGED vars
    BY <1>6 DEF vars, configVars, control, UserLevelInv, NoScopeInstall, WithinLimit
<1> QED
    BY <1>3, <1>4, <1>5, <1>6 DEF Next

(* User-level installs, which InsertFontRecordIfUnderLimit counts again    *)
(* under the lock, never exceed MAX_INSTALL_NUM, whatever else goes on     *)
(* besides and whatever fails.                                             *)
THEOREM UserLevelLimit == "InstallScopeFont" \notin Op => (Spec => []WithinLimit)
<1> SUFFICES ASSUME "InstallScopeFont" \notin Op PROVE Spec => []WithinLimit
    OBVIOUS
<1>1. Init => UserLevelInv
    <2> SUFFICES ASSUME Init PROVE UserLevelInv
        OBVIOUS
    <2>1. NoScopeInstall
        BY DEF Init, NoScopeInstall, Holding
    <2>2. Len(fontlist) <= 1
        <3>1. CASE fontlist = <<>>
            BY <3>1
        <3>2. CASE \E r : fontlist = <<r>>
            BY <3>2
        <3> QED
            BY <3>1, <3>2 DEF Init, InitStore
    <2>3. MaxInstallNum \in Nat /\ MaxInstallNum >= 1
        BY FontConfigAssumption
    <2>4. Len(fontlist) \in Nat
        BY InitType DEF TypeInv, ConfigTypeOK
    <2> QED
        BY <2>1, <2>2, <2>3, <2>4 DEF UserLevelInv, WithinLimit
<1>2. TypeInv /\ UserLevelInv /\ [Next]_vars => UserLevelInv'
    BY NextUserLevel
<1>3. UserLevelInv => WithinLimit
    BY DEF UserLevelInv
<1> QED
    BY <1>1, <1>2, <1>3, TypeInvariant, PTL DEF Spec
=============================================================================
