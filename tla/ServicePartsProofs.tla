-------------------------- MODULE ServicePartsProofs --------------------------
(***************************************************************************)
(* Proofs about the parts of the service that share no state: whatever     *)
(* ServiceParts does, each part follows its own specification, and so what *)
(* is invariant in a part is invariant here.  The parts are treated one by *)
(* one: version resources (no prefix), the database (S), the log (L) and   *)
(* the conversion of paths (P), each with an inductive invariant that says *)
(* what its steps so far have left behind for the next one.                *)
(***************************************************************************)
EXTENDS ServiceParts, TLAPS, FiniteSetTheorems, SequenceTheorems, WellFoundedInduction

\* Whichever part runs, every part behaves as its module says.
LEMMA EachPart == PartsSpec => Spec /\ P!Spec /\ S!Spec /\ L!Spec
<1>1. PartsInit => Init /\ P!Init /\ S!Init /\ L!Init
  BY DEF PartsInit, InfoIdle, PathIdle, LogIdle
<1>2. [PartsNext]_<<part, vars, pathVars, sqlVars, logVars>>
        => [Next]_vars /\ [P!Next]_P!vars /\ [S!Next]_S!vars /\ [L!Next]_L!vars
  BY DEF PartsNext, pathVars, sqlVars, logVars, P!vars, S!vars, S!disk, L!vars
<1> QED  BY <1>1, <1>2, PTL DEF PartsSpec, Spec, P!Spec, S!Spec, L!Spec

-----------------------------------------------------------------------------
(* VersionInfo: the invariant says what each search has left behind for the *)
(* next one, the table it has found its text in, or that no fallback holds  *)
(* it.                                                                      *)

Key == {"ProductName", "CompanyName", "ProductVersion", "FileVersion"}

\* No fallback holds a text for the key.
Missing(key) == \A t \in Range(Fallbacks) : texts[t][key] = None

\* The texts are those of the tables they are said to come from.
Attributed ==
  /\ origin.product = None => info.product = Empty
  /\ origin.company # None => info.company = texts[origin.company]["CompanyName"]
  /\ pc \in {"size", "translation", "product"} => origin.product = None
  /\ pc \in {"size", "translation", "product", "company"} => origin.company = None
  /\ pc \notin {"decide", "done"} => origin.version = None

\* What is known once a text was searched for.
AfterProduct == origin.product = None => Missing("ProductName")
AfterCompany ==
  /\ origin.company = None => Missing("CompanyName")
  /\ origin.product # None /\ texts[origin.product]["CompanyName"] # None
       => origin.company = origin.product
  /\ origin.product = None
       => \/ info.company = Microsoft
          \/ \E t \in Range(Fallbacks) : texts[t]["CompanyName"] # Microsoft
AfterVersion ==
  origin.version = None => Missing("ProductVersion") /\ Missing("FileVersion")

Searched ==
  /\ pc = "company" => /\ AfterProduct
                       /\ origin.product # None => lang = origin.product
                       /\ origin.product = None => lang \in Range(Fallbacks)
  /\ pc \in {"version", "file", "decide"} \/ accepted => AfterProduct /\ AfterCompany
  /\ pc = "version" => (origin.company # None => lang = origin.company)
  /\ pc = "file" =>
       /\ Missing("ProductVersion")
       /\ origin.company # None => texts[origin.company]["ProductVersion"] = None
  /\ pc = "decide" \/ accepted => AfterVersion
  /\ accepted => pc = "done" /\ ~Refuse(info)

VersionInv == TypeOK /\ Attributed /\ OneTable /\ Searched

-----------------------------------------------------------------------------
(* Searches *)

\* Among numbers there is a least one.
LEMMA LeastExists ==
  ASSUME NEW K, K \subseteq Nat, K # {}
  PROVE  \E k \in K : \A j \in K : k <= j
<1> DEFINE R == {p \in Nat \X Nat : p[1] < p[2]}
<1>1. IsWellFoundedOn(R, Nat)
  BY NatLessThanWellFounded DEF OpToRel
<1>2. \A x, y \in Nat : <<y, x>> \notin R => x <= y
  OBVIOUS
<1> HIDE DEF R
<1>3. PICK x \in K : \A y \in K : <<y, x>> \notin R
  BY <1>1, WFMin
<1>4. \A y \in K : x <= y
  BY <1>2, <1>3
<1> QED  BY <1>4

\* The caller's table is tried first, and then every fallback.
LEMMA TriesProperties ==
  ASSUME TypeOK
  PROVE  /\ Len(Tries) \in Nat \ {0} /\ DOMAIN Tries = 1..Len(Tries)
         /\ Tries[1] = lang
         /\ \A t \in Range(Fallbacks) : \E k \in DOMAIN Tries : Tries[k] = t
         /\ \A k \in DOMAIN Tries : Tries[k] \in Tables
         /\ Tries[Len(Tries)] \in Range(Fallbacks)
<1>1. /\ Fallbacks \in Seq(Tables) /\ <<lang>> \in Seq(Tables) /\ Len(<<lang>>) = 1
      /\ Len(Fallbacks) \in Nat /\ Fallbacks # <<>>
  BY VersionAssumption DEF TypeOK
<1>2. Len(Fallbacks) # 0
  BY <1>1
<1>3. /\ Tries \in Seq(Tables) /\ Len(Tries) = 1 + Len(Fallbacks) /\ Tries[1] = lang
      /\ \A k \in 1..Len(Fallbacks) : Tries[k + 1] = Fallbacks[k]
  BY <1>1 DEF Tries
<1>4. DOMAIN Tries = 1..(1 + Len(Fallbacks)) /\ DOMAIN Fallbacks = 1..Len(Fallbacks)
  BY <1>1, <1>3
<1>5. \A t \in Range(Fallbacks) : \E k \in DOMAIN Tries : Tries[k] = t
  <2> TAKE t \in Range(Fallbacks)
  <2>1. PICK k \in 1..Len(Fallbacks) : t = Fallbacks[k]
    BY <1>4 DEF Range
  <2>2. k + 1 \in DOMAIN Tries /\ Tries[k + 1] = t
    BY <1>1, <1>3, <1>4, <2>1
  <2> QED  BY <2>2
<1>6. Tries[Len(Tries)] \in Range(Fallbacks)
  BY <1>1, <1>2, <1>3, <1>4 DEF Range
<1>7. \A k \in DOMAIN Tries : Tries[k] \in Tables
  BY <1>3
<1> QED  BY <1>1, <1>3, <1>4, <1>5, <1>6, <1>7

\* A search finds a table that holds the text, the caller's if that does, and
\* fails only if neither the caller's table nor a fallback holds it.
LEMMA SearchProperties ==
  ASSUME TypeOK, NEW key \in Key
  PROVE  /\ Found(key) =>
              /\ FoundIn(key) \in Tables /\ texts[FoundIn(key)][key] # None
              /\ texts[lang][key] # None => FoundIn(key) = lang
         /\ ~Found(key) => texts[lang][key] = None /\ Missing(key)
<1> DEFINE H == Holding(key)
<1>1. H \subseteq Nat /\ H = {k \in DOMAIN Tries : texts[Tries[k]][key] # None}
  BY TriesProperties DEF Holding
<1>2. ASSUME Found(key)
      PROVE  /\ FoundIn(key) \in Tables /\ texts[FoundIn(key)][key] # None
             /\ texts[lang][key] # None => FoundIn(key) = lang
  <2> DEFINE least == CHOOSE k \in H : \A j \in H : k <= j
  <2>1. least \in H /\ \A j \in H : least <= j
    BY <1>1, <1>2, LeastExists DEF Found
  <2>2. FoundIn(key) = Tries[least]
    BY DEF FoundIn
  <2> HIDE DEF least
  <2>3. texts[lang][key] # None => 1 \in H
    BY <1>1, TriesProperties
  <2>4. 1 \in H => least = 1
    BY <1>1, <2>1, TriesProperties
  <2> QED  BY <1>1, <2>1, <2>2, <2>3, <2>4, TriesProperties
<1>3. ASSUME ~Found(key) PROVE texts[lang][key] = None /\ Missing(key)
  BY <1>1, <1>3, TriesProperties DEF Found, Missing
<1> QED  BY <1>2, <1>3

-----------------------------------------------------------------------------
(* The steps *)

\* What TypeOK says of the texts.
LEMMA TextTypes ==
  ASSUME TypeOK, NEW t \in Tables
  PROVE  /\ texts[t]["ProductName"] \in Products \cup {None}
         /\ texts[t]["CompanyName"] \in Companies \cup {None}
         /\ texts[t]["ProductVersion"] \in Versions \cup {None}
         /\ texts[t]["FileVersion"] \in Versions \cup {None}
  BY DEF TypeOK, Table

LEMMA VersionInit == Init => VersionInv
  BY VersionAssumption
  DEF Init, VersionInv, TypeOK, Attributed, OneTable, Searched, Field

LEMMA ReadKeeps == VersionInv /\ (ReadResource \/ ReadTranslation) => VersionInv'
  BY VersionAssumption
  DEF VersionInv, TypeOK, Attributed, OneTable, Searched, ReadResource, ReadTranslation,
      AfterProduct, AfterCompany, AfterVersion, Missing

\* A product was found in the table that is tried first from now on, or
\* is missing and a fallback is.
LEMMA FetchProductKeeps == VersionInv /\ FetchProduct => VersionInv'
<1> SUFFICES ASSUME VersionInv, FetchProduct PROVE VersionInv'
  OBVIOUS
<1> DEFINE key == "ProductName"
           t == FoundIn(key)
<1>1. TypeOK /\ key \in Key
  BY DEF VersionInv, Key
<1>2. /\ pc = "product" /\ pc' = "company" /\ UNCHANGED <<texts, translation, accepted>>
      /\ ~accepted /\ origin.product = None /\ origin.company = None
      /\ origin.version = None /\ info.product = Empty
  BY DEF VersionInv, FetchProduct, QueryVersionInfo, Attributed, Searched
<1>3. CASE Found(key)
  <2>1. /\ t \in Tables /\ texts[t][key] # None /\ texts[t][key] \in Products
    BY <1>1, <1>3, SearchProperties, TextTypes
  <2>2. /\ lang' = t /\ info' = [info EXCEPT !["product"] = texts[t][key]]
        /\ origin' = [origin EXCEPT !["product"] = t]
    BY <1>3 DEF FetchProduct, QueryVersionInfo, LeaveLanguage, Put
  <2> HIDE DEF t
  <2> QED  BY <1>1, <1>2, <2>1, <2>2, VersionAssumption
    DEF VersionInv, TypeOK, Attributed, OneTable, Searched, AfterProduct, Field
<1>4. CASE ~Found(key)
  <2>1. /\ lang' = Tries[Len(Tries)] /\ UNCHANGED <<info, origin>>
    BY <1>4 DEF FetchProduct, QueryVersionInfo, LeaveLanguage
  <2>2. Tries[Len(Tries)] \in Tables \cap Range(Fallbacks) /\ Missing(key)
    BY <1>1, <1>4, SearchProperties, TriesProperties
  <2> QED  BY <1>1, <1>2, <2>1, <2>2
    DEF VersionInv, TypeOK, Attributed, OneTable, Searched, AfterProduct, Missing
<1> QED  BY <1>3, <1>4

\* The company of a program that has a product's name is that table's.
LEMMA FetchCompanyKeeps == VersionInv /\ FetchCompany => VersionInv'
<1> SUFFICES ASSUME VersionInv, FetchCompany PROVE VersionInv'
  OBVIOUS
<1> DEFINE key == "CompanyName"
           t == FoundIn(key)
<1>1. TypeOK /\ key \in Key
  BY DEF VersionInv, Key
<1>2. /\ pc = "company" /\ pc' = "version" /\ UNCHANGED <<texts, translation, accepted>>
      /\ ~accepted /\ origin.company = None /\ origin.version = None /\ AfterProduct
      /\ origin.product = None => info.product = Empty
      /\ origin.product # None => lang = origin.product
      /\ origin.product = None => lang \in Range(Fallbacks)
  BY DEF VersionInv, FetchCompany, QueryVersionInfo, Attributed, Searched
<1>3. CASE Found(key)
  <2>1. /\ t \in Tables /\ texts[t][key] # None /\ texts[t][key] \in Companies
        /\ texts[lang][key] # None => t = lang
    BY <1>1, <1>3, SearchProperties, TextTypes
  <2>2. /\ lang' = t /\ info' = [info EXCEPT !["company"] = texts[t][key]]
        /\ origin' = [origin EXCEPT !["company"] = t]
    BY <1>3 DEF FetchCompany, QueryVersionInfo, LeaveLanguage, Put
  <2>3. origin.product = None =>
          \/ texts[t][key] = Microsoft
          \/ \E u \in Range(Fallbacks) : texts[u][key] # Microsoft
    BY <1>2, <2>1, VersionAssumption
  <2> HIDE DEF t
  <2>4. t # None => origin'.company # None
    BY <1>1, <2>2 DEF TypeOK, Field
  <2> QED  BY <1>1, <1>2, <2>1, <2>2, <2>3, VersionAssumption
    DEF VersionInv, TypeOK, Attributed, OneTable, Searched, AfterProduct, AfterCompany,
        Missing, Field
<1>4. CASE ~Found(key)
  <2>1. /\ lang' = Tries[Len(Tries)] /\ UNCHANGED <<info, origin>>
    BY <1>4 DEF FetchCompany, QueryVersionInfo, LeaveLanguage
  <2>2. /\ Tries[Len(Tries)] \in Tables \cap Range(Fallbacks) /\ Missing(key)
        /\ texts[lang][key] = None
    BY <1>1, <1>4, SearchProperties, TriesProperties
  <2>3. \E u \in Range(Fallbacks) : texts[u][key] # Microsoft
    BY <2>2, VersionAssumption DEF Missing
  <2> QED  BY <1>1, <1>2, <2>1, <2>2, <2>3
    DEF VersionInv, TypeOK, Attributed, OneTable, Searched, AfterProduct, AfterCompany, Missing
<1> QED  BY <1>3, <1>4

\* The version is the company's table's, if that has one.
LEMMA FetchVersionKeeps == VersionInv /\ FetchVersion => VersionInv'
<1> SUFFICES ASSUME VersionInv, FetchVersion PROVE VersionInv'
  OBVIOUS
<1> DEFINE key == "ProductVersion"
           t == FoundIn(key)
<1>1. TypeOK /\ key \in Key
  BY DEF VersionInv, Key
<1>2. /\ pc = "version" /\ UNCHANGED <<texts, translation, accepted>>
      /\ ~accepted /\ origin.version = None /\ AfterProduct /\ AfterCompany
      /\ origin.product = None => info.product = Empty
      /\ origin.company # None => lang = origin.company
      /\ origin.company # None => info.company = texts[origin.company]["CompanyName"]
  BY DEF VersionInv, FetchVersion, QueryVersionInfo, Attributed, Searched
<1>3. CASE Found(key)
  <2>1. /\ t \in Tables /\ texts[t][key] # None /\ texts[t][key] \in Versions
        /\ texts[lang][key] # None => t = lang
    BY <1>1, <1>3, SearchProperties, TextTypes
  <2>2. /\ lang' = t /\ info' = [info EXCEPT !["version"] = texts[t][key]]
        /\ origin' = [origin EXCEPT !["version"] = t] /\ pc' = "decide"
    BY <1>3 DEF FetchVersion, QueryVersionInfo, LeaveLanguage, Put
  <2> HIDE DEF t
  <2>3. TypeOK'
    BY <1>1, <1>2, <2>1, <2>2 DEF TypeOK, Field
  <2>4. /\ origin'["product"] = origin["product"] /\ origin'["company"] = origin["company"]
        /\ origin'["version"] = t
        /\ info'["product"] = info["product"] /\ info'["company"] = info["company"]
    BY <1>1, <2>2 DEF TypeOK, Field
  <2>5. t # None
    BY <2>1, VersionAssumption
  <2>6. Attributed' /\ OneTable'
    BY <1>2, <2>1, <2>2, <2>4 DEF VersionInv, Attributed, OneTable
  <2>7. (AfterProduct /\ AfterCompany /\ AfterVersion)'
    BY <1>2, <2>4, <2>5 DEF AfterProduct, AfterCompany, AfterVersion, Missing
  <2>8. Searched'
    BY <1>2, <2>2, <2>7 DEF Searched
  <2> QED  BY <2>3, <2>6, <2>8 DEF VersionInv
<1>4. CASE ~Found(key)
  <2>1. /\ lang' = Tries[Len(Tries)] /\ UNCHANGED <<info, origin>> /\ pc' = "file"
    BY <1>4 DEF FetchVersion, QueryVersionInfo, LeaveLanguage
  <2>2. /\ Tries[Len(Tries)] \in Tables \cap Range(Fallbacks) /\ Missing(key)
        /\ texts[lang][key] = None
    BY <1>1, <1>4, SearchProperties, TriesProperties
  <2> QED  BY <1>1, <1>2, <2>1, <2>2
    DEF VersionInv, TypeOK, Attributed, OneTable, Searched, AfterProduct, AfterCompany, Missing
<1> QED  BY <1>3, <1>4

\* The file's version stands in where no table that is tried has the product's.
LEMMA FetchFileVersionKeeps == VersionInv /\ FetchFileVersion => VersionInv'
<1> SUFFICES ASSUME VersionInv, FetchFileVersion PROVE VersionInv'
  OBVIOUS
<1> DEFINE key == "FileVersion"
           t == FoundIn(key)
<1>1. TypeOK /\ key \in Key
  BY DEF VersionInv, Key
<1>2. /\ pc = "file" /\ pc' = "decide" /\ UNCHANGED <<texts, translation, accepted>>
      /\ ~accepted /\ origin.version = None /\ AfterProduct /\ AfterCompany
      /\ Missing("ProductVersion")
      /\ origin.company # None => texts[origin.company]["ProductVersion"] = None
      /\ origin.product = None => info.product = Empty
      /\ origin.company # None => info.company = texts[origin.company]["CompanyName"]
  BY DEF VersionInv, FetchFileVersion, QueryVersionInfo, Attributed, Searched
<1>3. CASE Found(key)
  <2>1. /\ t \in Tables /\ texts[t][key] # None /\ texts[t][key] \in Versions
    BY <1>1, <1>3, SearchProperties, TextTypes
  <2>2. /\ lang' = t /\ info' = [info EXCEPT !["version"] = texts[t][key]]
        /\ origin' = [origin EXCEPT !["version"] = t]
    BY <1>3 DEF FetchFileVersion, QueryVersionInfo, LeaveLanguage, Put
  <2> HIDE DEF t
  <2>3. TypeOK'
    BY <1>1, <1>2, <2>1, <2>2 DEF TypeOK, Field
  <2>4. /\ origin'["product"] = origin["product"] /\ origin'["company"] = origin["company"]
        /\ origin'["version"] = t
        /\ info'["product"] = info["product"] /\ info'["company"] = info["company"]
    BY <1>1, <2>2 DEF TypeOK, Field
  <2>5. t # None
    BY <2>1, VersionAssumption
  <2>6. Attributed' /\ OneTable'
    BY <1>2, <2>1, <2>2, <2>4 DEF VersionInv, Attributed, OneTable
  <2>7. (AfterProduct /\ AfterCompany /\ AfterVersion)'
    BY <1>2, <2>4, <2>5 DEF AfterProduct, AfterCompany, AfterVersion, Missing
  <2>8. Searched'
    BY <1>2, <2>2, <2>7 DEF Searched
  <2> QED  BY <2>3, <2>6, <2>8 DEF VersionInv
<1>4. CASE ~Found(key)
  <2>1. /\ lang' = Tries[Len(Tries)] /\ UNCHANGED <<info, origin>>
    BY <1>4 DEF FetchFileVersion, QueryVersionInfo, LeaveLanguage
  <2>2. Tries[Len(Tries)] \in Tables \cap Range(Fallbacks) /\ Missing(key)
    BY <1>1, <1>4, SearchProperties, TriesProperties
  <2> QED  BY <1>1, <1>2, <2>1, <2>2
    DEF VersionInv, TypeOK, Attributed, OneTable, Searched, AfterProduct, AfterCompany,
        AfterVersion, Missing
<1> QED  BY <1>3, <1>4

LEMMA DecideKeeps == VersionInv /\ Decide => VersionInv'
  BY DEF VersionInv, TypeOK, Attributed, OneTable, Searched, Decide, Refuse, AfterProduct,
         AfterCompany, AfterVersion, Missing

LEMMA VersionKeeps == VersionInv /\ [Next]_vars => VersionInv'
<1>1. VersionInv /\ UNCHANGED vars => VersionInv'
  BY DEF VersionInv, TypeOK, Attributed, OneTable, Searched, vars, AfterProduct, AfterCompany,
         AfterVersion, Missing, Refuse
<1> QED  BY <1>1, ReadKeeps, FetchProductKeeps, FetchCompanyKeeps, FetchVersionKeeps,
            FetchFileVersionKeeps, DecideKeeps DEF Next

-----------------------------------------------------------------------------
(* Theorems *)

LEMMA VersionInvariant == Spec => []VersionInv
  BY VersionInit, VersionKeeps, PTL DEF Spec

\* The variables keep their types: the search never leaves the caller's language
\* at a table that does not exist, and the Software gets texts of its kinds only.
THEOREM VersionTyped == Spec => []TypeOK
<1>1. VersionInv => TypeOK
  BY DEF VersionInv
<1> QED  BY <1>1, VersionInvariant, PTL

\* Whatever texts a version resource holds, in whatever tables, each text comes
\* from the table of the one before it if that table has it, no fallback's text is
\* overlooked, and Microsoft's products other than Office are refused
\* (GetFileFullVersionInfo, QueryVersionInfo, InsertSoftware).  Nothing is said of a
\* resource that has none of the texts: it is accepted, with empty fields.
THEOREM ProgramDescribed == PartsSpec => []DescribesProgram
<1>1. VersionInv => NothingOverlooked
  BY DEF VersionInv, Searched, NothingOverlooked, AfterProduct, AfterCompany, AfterVersion, Missing
<1>2. VersionInv => MicrosoftRefused
  <2> SUFFICES ASSUME VersionInv, accepted PROVE MicrosoftRefused
    BY DEF MicrosoftRefused
  <2>1. AfterProduct /\ AfterCompany /\ ~Refuse(info)
    BY DEF VersionInv, Searched
  <2>2. CASE origin.product = None
    <3>1. info.product # Office
      BY <2>2, VersionAssumption DEF VersionInv, Attributed
    <3> QED  BY <2>1, <2>2, <3>1 DEF AfterCompany, Refuse, MicrosoftRefused
  <2>3. CASE origin.product # None
    <3> SUFFICES ASSUME texts[origin.product].CompanyName = Microsoft
                 PROVE  info.product = Office
      BY <2>3 DEF MicrosoftRefused
    <3>1. Microsoft # None
      BY VersionAssumption
    <3>2. origin.company = origin.product
      BY <2>1, <2>3, <3>1 DEF AfterCompany
    <3> QED  BY <2>1, <2>3, <3>2 DEF VersionInv, Attributed, Refuse
  <2> QED  BY <2>2, <2>3
<1>3. VersionInv => OneTable
  BY DEF VersionInv
<1>4. VersionInv => DescribesProgram
  BY <1>1, <1>2, <1>3 DEF DescribesProgram
<1> QED  BY <1>4, VersionInvariant, EachPart, PTL

-----------------------------------------------------------------------------
(* SqlConnect: what each step of LoadDriver and Connect has left behind *)

SqlTyped ==
  /\ s_pc \in {"out", "open", "symbol", "connection", "app", "asset", "max", "ready",
               "failed", "exit", "end"}
  /\ library \in BOOLEAN /\ driver_ \in BOOLEAN /\ conn_ \in BOOLEAN
  /\ tables \subseteq {"app", "asset"} /\ max_software_id_ \in Nat

\* There is a highest id, if there is one at all.
IdsBounded == \E n \in Nat : ids \subseteq 1..n

\* Nothing exists before the library is open, and nothing closes it behind the
\* driver; until the driver manager goes, a connection has its driver.
Loaded ==
  /\ s_pc \in {"out", "open"} => ~library
  /\ s_pc \in {"out", "open", "symbol"} => ~driver_ /\ ~conn_
  /\ s_pc = "connection" => ~conn_
  /\ s_pc \in {"symbol", "connection", "app", "asset", "max", "ready"} => library
  /\ driver_ \/ conn_ => library
  /\ s_pc \in {"app", "asset", "max", "ready", "failed"} => (conn_ => driver_)
  /\ s_pc = "failed" => (library => driver_)

\* Connect goes on only as long as its statements succeed.
Connected ==
  /\ s_pc \in {"asset", "max", "ready"} => conn_ /\ "app" \in tables
  /\ s_pc \in {"max", "ready"} => "asset" \in tables
  /\ s_pc = "ready" => \A id \in ids : id <= max_software_id_

SqlInv == SqlTyped /\ IdsBounded /\ Loaded /\ Connected

\* The greatest of some numbers below a bound.
LEMMA GreatestExists ==
  ASSUME NEW n \in Nat, NEW K, K \subseteq 1..n, K # {}
  PROVE  \E k \in K : \A j \in K : k >= j
<1> DEFINE D == {n - k : k \in K}
<1>1. D \subseteq Nat /\ D # {}
  <2>1. PICK k \in K : TRUE
    OBVIOUS
  <2>2. n - k \in D
    BY <2>1
  <2>3. \A k0 \in 1..n : n - k0 \in Nat
    OBVIOUS
  <2> QED  BY <2>2, <2>3
<1>2. PICK d \in D : \A e \in D : d <= e
  BY <1>1, LeastExists
<1>3. PICK k \in K : d = n - k
  BY <1>2
<1>4. \A j \in K : n - j \in D
  OBVIOUS
<1>5. \A j \in K : n - k <= n - j
  BY <1>2, <1>3, <1>4
<1>6. \A j \in K : k >= j
  <2> HIDE DEF D
  <2> QED  BY <1>5
<1> QED  BY <1>6

\* The highest id is one of them, or 0 of none.
LEMMA HighestIdIsHighest ==
  ASSUME IdsBounded
  PROVE  S!HighestId \in Nat /\ \A id \in ids : id <= S!HighestId
<1>1. PICK n \in Nat : ids \subseteq 1..n
  BY DEF IdsBounded
<1>2. CASE ids = {}
  BY <1>2 DEF S!HighestId
<1>3. CASE ids # {}
  <2>1. PICK m : m = S!Max(ids) /\ m \in ids /\ \A id \in ids : m >= id
    BY <1>1, <1>3, GreatestExists DEF S!Max
  <2>2. S!HighestId = m
    BY <1>3, <2>1 DEF S!HighestId
  <2>3. \A id \in ids : id \in 1..n /\ m >= id /\ m \in 1..n
    BY <1>1, <2>1
  <2> QED  BY <2>1, <2>2, <2>3
<1> QED  BY <1>2, <1>3

LEMMA SqlInit == S!Init => SqlInv
<1> SUFFICES ASSUME S!Init PROVE SqlInv
  OBVIOUS
<1>1. ids \subseteq 1..0
  BY DEF S!Init
<1> QED  BY <1>1 DEF S!Init, SqlInv, SqlTyped, IdsBounded, Loaded, Connected

\* The steps of DriverManager, and the ends of the process.
LEMMA LibraryKeeps ==
  ASSUME SqlInv,
         \/ S!Begin \/ S!OpenFails \/ S!Open \/ S!NoSymbol \/ S!CreateDriver
         \/ S!GetConnection \/ S!DestroyManager \/ S!DestroyHelper \/ S!Crash
  PROVE  SqlInv'
<1>1. UNCHANGED <<tables, ids>>
  BY DEF S!Begin, S!OpenFails, S!Open, S!NoSymbol, S!CreateDriver, S!GetConnection,
         S!DestroyManager, S!DestroyHelper, S!Crash, S!disk
<1>2. IdsBounded'
  BY <1>1 DEF SqlInv, IdsBounded
<1>3. (SqlTyped /\ Connected)'
  <2>1. s_pc' \in {"out", "open", "symbol", "connection", "app", "failed", "exit", "end"}
    BY DEF S!Begin, S!OpenFails, S!Open, S!NoSymbol, S!CreateDriver, S!GetConnection,
           S!DestroyManager, S!DestroyHelper, S!Crash, S!From
  <2>2. library' \in BOOLEAN /\ driver_' \in BOOLEAN /\ conn_' \in BOOLEAN
    BY Zenon
    DEF SqlInv, SqlTyped, S!Begin, S!OpenFails, S!Open, S!NoSymbol, S!CreateDriver,
        S!GetConnection, S!DestroyManager, S!DestroyHelper, S!Crash
  <2>3. max_software_id_' \in {max_software_id_, 0}
    BY DEF S!Begin, S!OpenFails, S!Open, S!NoSymbol, S!CreateDriver, S!GetConnection,
           S!DestroyManager, S!DestroyHelper, S!Crash
  <2> QED  BY <1>1, <2>1, <2>2, <2>3 DEF SqlInv, SqlTyped, Connected
<1>4. Loaded'
  <2>1. CASE S!Begin \/ S!OpenFails \/ S!Open
    BY <2>1 DEF SqlInv, SqlTyped, Loaded, S!Begin, S!OpenFails, S!Open, S!From
  <2>2. CASE S!NoSymbol
    BY <2>2 DEF SqlInv, SqlTyped, Loaded, S!NoSymbol, S!From
  <2>3. CASE S!CreateDriver \/ S!GetConnection
    BY <2>3 DEF SqlInv, SqlTyped, Loaded, S!CreateDriver, S!GetConnection, S!From
  <2>4. CASE S!DestroyManager \/ S!DestroyHelper
    BY <2>4 DEF SqlInv, SqlTyped, Loaded, S!DestroyManager, S!DestroyHelper, S!From
  <2>5. CASE S!Crash
    BY <2>5 DEF Loaded, S!Crash
  <2> QED  BY <2>1, <2>2, <2>3, <2>4, <2>5
<1> QED  BY <1>2, <1>3, <1>4 DEF SqlInv

\* The statements of Connect, and one that throws.
LEMMA ConnectKeeps ==
  SqlInv /\ (\/ S!CreateTable("app", "asset") \/ S!CreateTable("asset", "max")
             \/ S!ReadHighest \/ S!Throw)
    => SqlInv'
<1>1. SqlInv /\ (S!CreateTable("app", "asset") \/ S!CreateTable("asset", "max") \/ S!Throw)
        => SqlInv'
  BY DEF SqlInv, SqlTyped, IdsBounded, Loaded, Connected, S!CreateTable, S!Throw, S!From,
         S!disk
<1>2. ASSUME SqlInv, S!ReadHighest PROVE SqlInv'
  <2>1. S!HighestId \in Nat /\ \A id \in ids : id <= S!HighestId
    BY <1>2, HighestIdIsHighest DEF SqlInv
  <2>2. /\ s_pc = "max" /\ s_pc' = "ready" /\ max_software_id_' = S!HighestId
        /\ UNCHANGED <<library, driver_, conn_, tables, ids>>
    BY <1>2 DEF S!ReadHighest, S!From, S!disk
  <2> QED  BY <1>2, <2>1, <2>2 DEF SqlInv, SqlTyped, IdsBounded, Loaded, Connected
<1> QED  BY <1>1, <1>2

\* A new id is above all the others, whether its row gets into the table or not.
LEMMA InsertKeeps == SqlInv /\ S!InsertSoftware => SqlInv'
<1> SUFFICES ASSUME SqlInv, S!InsertSoftware PROVE SqlInv'
  OBVIOUS
<1>1. /\ s_pc = "ready" /\ UNCHANGED <<s_pc, library, driver_, conn_, tables>>
      /\ max_software_id_' = max_software_id_ + 1
      /\ ids' \subseteq ids \cup {max_software_id_ + 1}
  BY DEF S!InsertSoftware
<1>2. max_software_id_ \in Nat /\ \A id \in ids : id <= max_software_id_
  BY <1>1 DEF SqlInv, SqlTyped, Connected
<1>3. PICK n \in Nat : ids \subseteq 1..n
  BY DEF SqlInv, IdsBounded
<1>4. ids' \subseteq 1..(n + max_software_id_ + 1) /\ n + max_software_id_ + 1 \in Nat
  BY <1>1, <1>2, <1>3
<1>5. IdsBounded'
  BY <1>4 DEF IdsBounded
<1>6. \A id \in ids' : id <= max_software_id_'
  BY <1>1, <1>2, <1>3
<1> QED  BY <1>1, <1>2, <1>5, <1>6 DEF SqlInv, SqlTyped, Loaded, Connected

LEMMA SqlInvariant == S!Spec => []SqlInv
<1>1. SqlInv /\ UNCHANGED S!vars => SqlInv'
  BY DEF SqlInv, SqlTyped, IdsBounded, Loaded, Connected, S!vars, S!disk
<1>2. SqlInv /\ [S!Next]_S!vars => SqlInv'
  BY <1>1, LibraryKeeps, ConnectKeeps, InsertKeeps DEF S!Next
<1> QED  BY <1>2, SqlInit, PTL DEF S!Spec

\* When SqlHelper::Connect has returned true, both tables exist and no id that
\* InsertSoftware will make is taken, whatever earlier processes left undone.
THEOREM ConnectMakesReady == PartsSpec => []ReadyToRecord
<1>1. SqlInv => ReadyToRecord
  BY DEF SqlInv, SqlTyped, Connected, ReadyToRecord, S!ReadyToRecord
<1> QED  BY <1>1, SqlInvariant, EachPart, PTL

\* The SQL driver's code stays mapped to the last destructor of its objects, and
\* DriverManager does not keep a library that is of no use.
THEOREM LibraryIsHeldRight == PartsSpec => []LibraryHeldRight
<1>1. SqlInv => LibraryHeldRight
  BY DEF SqlInv, Loaded, LibraryHeldRight, S!LibraryHeldRight, S!CodeMapped,
         S!FailedLoadReleased
<1> QED  BY <1>1, SqlInvariant, EachPart, PTL

-----------------------------------------------------------------------------
(* Logging: who is writing, and what it has written so far *)

Piece == Threads \X {"time", "text"}

LogTyped ==
  /\ mutex \in Threads \cup {None} /\ done \in [Threads -> Nat]
  /\ l_pc \in [Threads -> {"idle", "destroy", "prefix", "text", "flush"}]
  /\ streams \in [Threads -> Seq(BOOLEAN)]
  /\ file \in Seq(Piece) /\ buffered \in Seq(Piece)

\* A LogStream that was moved goes before the one that has its text.
Streams ==
  \A t \in Threads :
    /\ l_pc[t] = "idle" => Len(streams[t]) = 0
    /\ l_pc[t] = "destroy" => \/ Len(streams[t]) = 1 /\ streams[t][1] = FALSE
                              \/ /\ Len(streams[t]) = 2 /\ streams[t][1] = TRUE
                                 /\ streams[t][2] = FALSE
    /\ l_pc[t] \in {"prefix", "text", "flush"} => Len(streams[t]) = 1

\* Only the mutex's holder writes, and it does not leave a line half written.
OneWriter ==
  /\ \A t \in Threads : l_pc[t] \in {"prefix", "text", "flush"} <=> mutex = t
  /\ mutex = None => Len(buffered) = 0
  /\ \A t \in Threads :
       /\ l_pc[t] = "prefix" => Len(buffered) = 0
       /\ l_pc[t] = "text" => Len(buffered) = 1
       /\ l_pc[t] = "flush" => Len(buffered) = 2 /\ buffered[2] = <<t, "text">>
       /\ l_pc[t] \in {"text", "flush"} => buffered[1] = <<t, "time">>

\* Each text stands behind its own time.
Paired(log) ==
  \A k \in DOMAIN log :
    /\ log[k][2] = IF k % 2 = 1 THEN "time" ELSE "text"
    /\ k % 2 = 0 => log[k][1] = log[k - 1][1]

FileWhole == Paired(file) /\ Len(file) % 2 = 0

\* The file has every line of a thread but the one that it is about to write.
Texts(t) == {k \in DOMAIN file : file[k] = <<t, "text">>}
Counted ==
  \A t \in Threads :
    Cardinality(Texts(t)) + (IF l_pc[t] = "idle" THEN 0 ELSE 1) = done[t]

LogInv == LogTyped /\ Streams /\ OneWriter /\ FileWhole /\ Counted

\* The log is read in pairs.
LEMMA EvenAndOdd ==
  ASSUME NEW n \in Nat, n % 2 = 0
  PROVE  /\ (n + 1) % 2 = 1 /\ (n + 2) % 2 = 0
         /\ \A k \in 1..n : k % 2 = 0 => k - 1 \in 1..n
<1>1. (n + 1) % 2 = 1 /\ (n + 2) % 2 = 0
  OBVIOUS
<1>2. ASSUME NEW k \in 1..n, k % 2 = 0 PROVE k - 1 \in 1..n
  BY <1>2
<1> QED  BY <1>1, <1>2

\* Where a thread's texts are.
LEMMA TextsFinite ==
  ASSUME LogTyped, NEW t
  PROVE  /\ Len(file) \in Nat /\ DOMAIN file = 1..Len(file)
         /\ Texts(t) \subseteq 1..Len(file) /\ IsFiniteSet(Texts(t))
         /\ Cardinality(Texts(t)) \in Nat
<1>1. file \in Seq(Piece)
  BY DEF LogTyped
<1>2. Len(file) \in Nat /\ DOMAIN file = 1..Len(file)
  BY <1>1
<1>3. Texts(t) \subseteq 1..Len(file)
  BY <1>2 DEF Texts
<1>4. IsFiniteSet(1..Len(file))
  BY <1>2, FS_Interval
<1> QED  BY <1>2, <1>3, <1>4, FS_Subset, FS_CardinalityType

LEMMA LogInit == L!Init => LogInv
<1> SUFFICES ASSUME L!Init PROVE LogInv
  OBVIOUS
<1>1. \A t \in Threads : Texts(t) = {}
  BY DEF L!Init, Texts
<1>2. Cardinality({}) = 0
  BY FS_EmptySet
<1>3. Counted
  <2> SUFFICES ASSUME NEW t \in Threads
               PROVE  Cardinality(Texts(t)) + (IF l_pc[t] = "idle" THEN 0 ELSE 1) = done[t]
    BY DEF Counted
  <2>1. l_pc[t] = "idle" /\ done[t] = 0
    BY DEF L!Init
  <2>2. Cardinality(Texts(t)) = 0
    BY <1>1, <1>2
  <2> QED  BY <2>1, <2>2
<1> QED  BY <1>3, LogAssumption
  DEF L!Init, LogInv, LogTyped, Streams, OneWriter, FileWhole, Paired

\* A statement below the log's level leaves no trace.
LEMMA LogStays ==
  ASSUME LogInv, UNCHANGED <<l_pc, streams, mutex, buffered, file, done>>
  PROVE  LogInv'
<1>1. (LogTyped /\ Streams /\ OneWriter)'
  BY DEF LogInv, LogTyped, Streams, OneWriter
<1>2. (FileWhole /\ Counted)'
  BY DEF LogInv, FileWhole, Paired, Counted, Texts
<1> QED  BY <1>1, <1>2 DEF LogInv

\* A thread starts a statement, or has a moved LogStream to destroy.
LEMMA StatementKeeps ==
  ASSUME LogInv, NEW t \in Threads, NEW l \in L!Levels, L!Statement(t, l)
  PROVE  LogInv'
<1>1. l_pc[t] = "idle" /\ UNCHANGED <<mutex, buffered, file>>
  BY DEF L!Statement
<1>2. LogTyped /\ Streams /\ OneWriter /\ Counted
  BY DEF LogInv
<1>3. CASE l >= log_level
  <2>1. /\ l_pc' = [l_pc EXCEPT ![t] = "destroy"]
        /\ done' = [done EXCEPT ![t] = @ + 1]
    BY <1>3 DEF L!Statement, L!Goto
  <2>2. PICK moved \in {<<>>, <<TRUE>>} :
               streams' = [streams EXCEPT ![t] = Append(moved, FALSE)]
    BY <1>3 DEF L!Statement, L!LeftBehind
  <2> DEFINE new == Append(moved, FALSE)
  <2>3. streams' = [streams EXCEPT ![t] = new]
    BY <2>2
  <2>4. /\ new \in Seq(BOOLEAN)
        /\ \/ Len(new) = 1 /\ new[1] = FALSE
           \/ Len(new) = 2 /\ new[1] = TRUE /\ new[2] = FALSE
    <3>1. /\ moved \in Seq(BOOLEAN)
          /\ Len(moved) # 0 => Len(moved) = 1 /\ moved[1] = TRUE
      <4>1. CASE moved = <<>>
        BY <4>1, EmptySeq
      <4>2. CASE moved = <<TRUE>>
        <5>1. Len(moved) = 1 /\ moved \in Seq(BOOLEAN)
          BY <4>2
        <5>2. moved[1] = TRUE
          BY <4>2
        <5> QED  BY <5>1, <5>2
      <4> QED  BY <2>2, <4>1, <4>2
    <3>2. /\ new \in Seq(BOOLEAN) /\ Len(new) = Len(moved) + 1 /\ new[Len(moved) + 1] = FALSE
          /\ \A k \in 1..Len(moved) : new[k] = moved[k]
      BY <3>1, AppendProperties
    <3> HIDE DEF new
    <3> QED  BY <3>1, <3>2
  <2> HIDE DEF new
  <2>5. LogTyped'
    BY <1>1, <1>2, <2>1, <2>3, <2>4 DEF LogTyped
  <2>6. Streams'
    BY <1>1, <1>2, <2>1, <2>3, <2>4 DEF LogTyped, Streams
  <2>7. OneWriter'
    BY <1>1, <1>2, <2>1 DEF LogTyped, OneWriter
  <2>8. Counted'
    <3> SUFFICES ASSUME NEW u \in Threads
                 PROVE  Cardinality(Texts(u)') + (IF l_pc'[u] = "idle" THEN 0 ELSE 1)
                          = done'[u]
      BY DEF Counted
    <3>1. /\ Cardinality(Texts(u)) \in Nat /\ done[u] \in Nat /\ Texts(u)' = Texts(u)
          /\ Cardinality(Texts(u)) + (IF l_pc[u] = "idle" THEN 0 ELSE 1) = done[u]
      BY <1>1, <1>2, TextsFinite DEF LogTyped, Counted, Texts
    <3> QED  BY <1>1, <1>2, <2>1, <3>1 DEF LogTyped
  <2> QED  BY <1>1, <2>5, <2>6, <2>7, <2>8 DEF LogInv, FileWhole, Paired
<1>4. CASE ~(l >= log_level)
  <2>1. UNCHANGED <<l_pc, streams, done>>
    BY <1>4 DEF L!Statement
  <2> QED  BY <1>1, <2>1, LogStays
<1> QED  BY <1>3, <1>4

\* The first LogStream of two is the one that was moved.
LEMMA MovedFirst ==
  ASSUME LogTyped, Streams, NEW t \in Threads, l_pc[t] = "destroy"
  PROVE  /\ L!Moved(t) => /\ Len(Tail(streams[t])) = 1 /\ Tail(streams[t])[1] = FALSE
                          /\ Tail(streams[t]) \in Seq(BOOLEAN)
         /\ ~L!Moved(t) => Len(streams[t]) = 1
<1> DEFINE q == streams[t]
<1>1. /\ q \in Seq(BOOLEAN)
      /\ \/ Len(q) = 1 /\ q[1] = FALSE
         \/ Len(q) = 2 /\ q[1] = TRUE /\ q[2] = FALSE
  BY DEF LogTyped, Streams
<1>2. Head(q) = q[1] /\ (L!Moved(t) <=> Head(q))
  <2>1. Head(q) = q[1]
    BY <1>1
  <2> QED  BY <2>1 DEF L!Moved
<1> HIDE DEF q
<1>3. CASE Len(q) = 1 /\ q[1] = FALSE
  <2>1. ~L!Moved(t)
    BY <1>2, <1>3, Zenon
  <2> QED  BY <1>3, <2>1 DEF q
<1>4. CASE Len(q) = 2 /\ q[1] = TRUE /\ q[2] = FALSE
  <2>1. L!Moved(t)
    BY <1>2, <1>4, Zenon
  <2>2. Len(Tail(q)) = 1 /\ Tail(q)[1] = FALSE /\ Tail(q) \in Seq(BOOLEAN)
    <3>1. q # <<>>
      BY <1>4
    <3>2. /\ Tail(q) \in Seq(BOOLEAN) /\ Len(Tail(q)) = Len(q) - 1
          /\ \A k \in 1..Len(Tail(q)) : Tail(q)[k] = q[k + 1]
      BY <1>1, <3>1, HeadTailProperties
    <3>3. Len(Tail(q)) = 1
      BY <1>4, <3>2
    <3> QED  BY <1>4, <3>2, <3>3
  <2> QED  BY <2>1, <2>2 DEF q
<1> QED  BY <1>1, <1>3, <1>4

LEMMA SkipKeeps == ASSUME LogInv, NEW t \in Threads, L!Skip(t) PROVE LogInv'
<1>1. /\ l_pc[t] = "destroy" /\ L!Moved(t)
      /\ streams' = [streams EXCEPT ![t] = Tail(streams[t])]
      /\ UNCHANGED <<l_pc, mutex, buffered, file, done>>
  BY DEF L!Skip
<1>2. LogTyped /\ Streams
  BY DEF LogInv
<1> DEFINE new == Tail(streams[t])
<1>3. Len(new) = 1 /\ new[1] = FALSE /\ new \in Seq(BOOLEAN)
  BY <1>1, <1>2, MovedFirst
<1> HIDE DEF new
<1>4. streams' = [streams EXCEPT ![t] = new]
  BY <1>1 DEF new
<1>5. Streams' /\ LogTyped'
  BY <1>1, <1>2, <1>3, <1>4 DEF LogTyped, Streams
<1> QED  BY <1>1, <1>5
  DEF LogInv, OneWriter, FileWhole, Paired, Counted, Texts

\* The mutex is taken with nothing written, and the two pieces follow.
LEMMA WriteKeeps ==
  ASSUME LogInv, NEW t \in Threads, L!Lock(t) \/ L!Prefix(t) \/ L!Text(t)
  PROVE  LogInv'
<1>1. LogTyped /\ Streams /\ OneWriter /\ Counted
  BY DEF LogInv
<1>2. UNCHANGED <<file, streams, done>>
  BY DEF L!Lock, L!Prefix, L!Text
<1>3. CASE L!Lock(t)
  <2>1. /\ l_pc[t] = "destroy" /\ ~L!Moved(t) /\ mutex = None /\ mutex' = t
        /\ l_pc' = [l_pc EXCEPT ![t] = "prefix"] /\ buffered' = buffered
    BY <1>3 DEF L!Lock, L!LockMutex, L!Goto
  <2>2. Len(streams[t]) = 1
    BY <1>1, <2>1, MovedFirst
  <2>3. Streams'
    BY <1>1, <1>2, <2>1, <2>2 DEF LogTyped, Streams
  <2>4. OneWriter'
    BY <1>1, <2>1, LogAssumption DEF LogTyped, OneWriter
  <2>5. LogTyped' /\ Counted'
    BY <1>1, <1>2, <2>1 DEF LogTyped, Counted, Texts
  <2> QED  BY <1>2, <2>3, <2>4, <2>5 DEF LogInv, FileWhole, Paired
<1>4. CASE L!Prefix(t) \/ L!Text(t)
  <2>1. /\ mutex' = mutex
        /\ \/ /\ l_pc[t] = "prefix" /\ l_pc' = [l_pc EXCEPT ![t] = "text"]
              /\ buffered' = Append(buffered, <<t, "time">>)
           \/ /\ l_pc[t] = "text" /\ l_pc' = [l_pc EXCEPT ![t] = "flush"]
              /\ buffered' = Append(buffered, <<t, "text">>)
    BY <1>4 DEF L!Prefix, L!Text, L!Write, L!Goto
  <2>2. mutex = t
    BY <1>1, <2>1 DEF OneWriter
  <2> DEFINE new == <<t, IF l_pc[t] = "prefix" THEN "time" ELSE "text">>
  <2>3. /\ buffered' = Append(buffered, new) /\ buffered \in Seq(Piece) /\ new \in Piece
        /\ Len(buffered) \in Nat /\ Len(buffered') = Len(buffered) + 1
        /\ buffered'[Len(buffered) + 1] = new /\ buffered' \in Seq(Piece)
        /\ \A k \in 1..Len(buffered) : buffered'[k] = buffered[k]
    <3>1. buffered' = Append(buffered, new) /\ buffered \in Seq(Piece) /\ new \in Piece
      BY <1>1, <2>1 DEF LogTyped, Piece
    <3> HIDE DEF new
    <3> QED  BY <3>1, AppendProperties, LenProperties
  <2>4. OneWriter'
    <3>1. CASE l_pc[t] = "prefix"
      <4>1. /\ l_pc' = [l_pc EXCEPT ![t] = "text"] /\ Len(buffered') = 1
            /\ buffered'[1] = <<t, "time">>
        BY <1>1, <2>1, <2>3, <3>1 DEF OneWriter
      <4> QED  BY <1>1, <2>1, <2>2, <3>1, <4>1, LogAssumption DEF LogTyped, OneWriter
    <3>2. CASE l_pc[t] = "text"
      <4>1. /\ l_pc' = [l_pc EXCEPT ![t] = "flush"] /\ Len(buffered') = 2
            /\ buffered'[1] = <<t, "time">> /\ buffered'[2] = <<t, "text">>
        BY <1>1, <2>1, <2>3, <3>2 DEF OneWriter
      <4> QED  BY <1>1, <2>1, <2>2, <3>2, <4>1, LogAssumption DEF LogTyped, OneWriter
    <3> QED  BY <2>1, <3>1, <3>2
  <2>5. Streams'
    BY <1>1, <1>2, <2>1 DEF LogTyped, Streams
  <2>6. LogTyped' /\ Counted'
    BY <1>1, <1>2, <2>1, <2>3 DEF LogTyped, Counted, Texts
  <2> QED  BY <1>2, <2>4, <2>5, <2>6 DEF LogInv, FileWhole, Paired
<1> QED  BY <1>3, <1>4

\* A line behind a whole log leaves it whole.
LEMMA LineAppended ==
  ASSUME FileWhole, file \in Seq(Piece), NEW t \in Threads,
         NEW line \in Seq(Piece), Len(line) = 2,
         line[1] = <<t, "time">>, line[2] = <<t, "text">>
  PROVE  LET log == file \o line
         IN  /\ Paired(log) /\ Len(log) % 2 = 0 /\ log \in Seq(Piece)
             /\ Len(log) = Len(file) + 2
             /\ \A k \in DOMAIN file : log[k] = file[k]
             /\ log[Len(file) + 1] = line[1] /\ log[Len(file) + 2] = line[2]
<1> DEFINE n == Len(file)
           log == file \o line
<1>1. n \in Nat /\ DOMAIN file = 1..n /\ n % 2 = 0
  BY DEF FileWhole
<1>2. /\ log \in Seq(Piece) /\ Len(log) = n + 2
      /\ \A k \in 1..(n + 2) : log[k] = IF k <= n THEN file[k] ELSE line[k - n]
  <2>1. /\ log \in Seq(Piece) /\ Len(log) = n + Len(line)
        /\ \A k \in 1..(n + Len(line)) : log[k] = IF k <= n THEN file[k] ELSE line[k - n]
    BY ConcatProperties
  <2> QED  BY <2>1
<1>3. /\ \A k \in 1..n : log[k] = file[k]
      /\ log[n + 1] = line[1] /\ log[n + 2] = line[2]
  <2> HIDE DEF n, log
  <2> QED  BY <1>1, <1>2
<1>4. DOMAIN log = 1..(n + 2)
  BY <1>1, <1>2
<1> HIDE DEF n, log
<1>5. (n + 1) % 2 = 1 /\ (n + 2) % 2 = 0 /\ \A k \in 1..n : k % 2 = 0 => k - 1 \in 1..n
  BY <1>1, EvenAndOdd
<1>6. Paired(log)
  <2> SUFFICES ASSUME NEW k \in 1..(n + 2)
               PROVE  /\ log[k][2] = IF k % 2 = 1 THEN "time" ELSE "text"
                      /\ k % 2 = 0 => log[k][1] = log[k - 1][1]
    BY <1>4 DEF Paired
  <2>1. CASE k \in 1..n
    BY <1>1, <1>3, <1>5, <2>1 DEF FileWhole, Paired
  <2>2. CASE k = n + 1
    BY <1>3, <1>5, <2>2
  <2>3. CASE k = n + 2
    <3>1. k - 1 = n + 1
      BY <1>1, <2>3
    <3> QED  BY <1>3, <1>5, <2>3, <3>1
  <2> QED  BY <1>1, <2>1, <2>2, <2>3
<1> QED  BY <1>1, <1>2, <1>3, <1>5, <1>6 DEF n, log

\* The line gets to the file when it is complete, before the mutex is free.
LEMMA FlushKeeps == ASSUME LogInv, NEW t \in Threads, L!Flush(t) PROVE LogInv'
<1>1. LogTyped /\ Streams /\ OneWriter /\ FileWhole /\ Counted
  BY DEF LogInv
<1>2. /\ l_pc[t] = "flush" /\ mutex = t /\ Len(streams[t]) = 1
      /\ buffered \in Seq(Piece) /\ Len(buffered) = 2
      /\ buffered[1] = <<t, "time">> /\ buffered[2] = <<t, "text">>
  BY <1>1 DEF L!Flush, LogTyped, Streams, OneWriter
<1>3. /\ file' = file \o buffered /\ buffered' = <<>>
      /\ mutex' = None /\ done' = done
      /\ streams' = [streams EXCEPT ![t] = Tail(streams[t])]
      /\ l_pc' = [l_pc EXCEPT ![t] = "idle"]
  BY <1>2 DEF L!Flush, L!FlushAll, L!Goto
<1>4. /\ Paired(file') /\ Len(file') % 2 = 0 /\ file' \in Seq(Piece)
      /\ Len(file') = Len(file) + 2
      /\ \A k \in DOMAIN file : file'[k] = file[k]
      /\ file'[Len(file) + 1] = <<t, "time">> /\ file'[Len(file) + 2] = <<t, "text">>
  BY <1>1, <1>2, <1>3, LineAppended DEF LogTyped
<1>5. LogTyped' /\ Streams'
  <2> DEFINE new == Tail(streams[t])
  <2>1. streams[t] \in Seq(BOOLEAN)
    BY <1>1 DEF LogTyped
  <2>2. new \in Seq(BOOLEAN) /\ Len(new) = 0
    <3>1. streams[t] # <<>>
      BY <1>2
    <3>2. new \in Seq(BOOLEAN) /\ Len(new) = Len(streams[t]) - 1
      BY <2>1, <3>1, HeadTailProperties
    <3> QED  BY <1>2, <3>2
  <2>3. streams' = [streams EXCEPT ![t] = new]
    BY <1>3
  <2> HIDE DEF new
  <2>4. LogTyped'
    <3>1. <<>> \in Seq(Piece)
      BY EmptySeq
    <3> QED  BY <1>1, <1>3, <1>4, <2>2, <2>3, <3>1 DEF LogTyped
  <2>5. Streams'
    BY <1>1, <1>3, <2>2, <2>3 DEF LogTyped, Streams
  <2> QED  BY <2>4, <2>5
<1>6. OneWriter'
  BY <1>1, <1>2, <1>3, LogAssumption DEF LogTyped, OneWriter
<1>7. FileWhole'
  BY <1>4 DEF FileWhole, Paired
<1>8. Counted'
  <2> SUFFICES ASSUME NEW u \in Threads
               PROVE  Cardinality(Texts(u)') + (IF l_pc'[u] = "idle" THEN 0 ELSE 1)
                        = done'[u]
    BY DEF Counted
  <2> DEFINE n == Len(file)
  <2>1. n \in Nat /\ DOMAIN file = 1..n /\ DOMAIN file' = 1..(n + 2)
    BY <1>1, <1>4, TextsFinite
  <2>2. /\ IsFiniteSet(Texts(u)) /\ Texts(u) \subseteq 1..n
        /\ Cardinality(Texts(u)) \in Nat /\ done[u] \in Nat
    BY <1>1, TextsFinite DEF LogTyped
  <2>3. Cardinality(Texts(u)) + (IF l_pc[u] = "idle" THEN 0 ELSE 1) = done[u]
    BY <1>1 DEF Counted
  <2>4. /\ \A k \in 1..n : file'[k] = file[k]
        /\ file'[n + 1] = <<t, "time">> /\ file'[n + 2] = <<t, "text">>
    BY <1>4, <2>1
  <2>5. /\ Texts(u) = {k \in 1..n : file[k] = <<u, "text">>}
        /\ Texts(u)' = {k \in 1..(n + 2) : file'[k] = <<u, "text">>}
    BY <2>1 DEF Texts
  <2> HIDE DEF n
  <2>6. \A k \in 1..(n + 2) : k \in 1..n \/ k = n + 1 \/ k = n + 2
    BY <2>1
  <2>7. CASE u = t
    <3>1. Texts(u)' = Texts(u) \cup {n + 2}
      BY <2>1, <2>4, <2>5, <2>6, <2>7
    <3>2. n + 2 \notin Texts(u)
      BY <2>1, <2>2
    <3>3. Cardinality(Texts(u)') = Cardinality(Texts(u)) + 1
      BY <2>2, <3>1, <3>2, FS_AddElement
    <3>4. l_pc'[u] = "idle" /\ l_pc[u] = "flush" /\ done'[u] = done[u]
      BY <1>1, <1>2, <1>3, <2>7 DEF LogTyped
    <3> QED  BY <2>2, <2>3, <3>3, <3>4
  <2>8. CASE u # t
    <3>1. Texts(u)' = Texts(u)
      BY <2>1, <2>4, <2>5, <2>6, <2>8
    <3>2. l_pc'[u] = l_pc[u] /\ done'[u] = done[u]
      BY <1>1, <1>3, <2>8 DEF LogTyped
    <3> QED  BY <2>3, <3>1, <3>2
  <2> QED  BY <2>7, <2>8
<1> QED  BY <1>5, <1>6, <1>7, <1>8 DEF LogInv

LEMMA LogInvariant == L!Spec => []LogInv
<1>1. LogInv /\ UNCHANGED L!vars => LogInv'
  BY LogStays DEF L!vars
<1>2. LogInv /\ [L!Next]_L!vars => LogInv'
  BY <1>1, StatementKeeps, SkipKeeps, WriteKeeps, FlushKeeps DEF L!Next, L!Run
<1> QED  BY <1>2, LogInit, PTL DEF L!Spec

\* However the threads' statements meet, each line of the log is one thread's time
\* and text, and a statement that is over has its line in the file, once
\* (~LogStream, and the mutex in it).
THEOREM LogIsFaithful == PartsSpec => []LogFaithful
<1>1. LogInv => L!LinesWhole
  <2> SUFFICES ASSUME LogInv PROVE Paired(file \o buffered)
    BY DEF L!LinesWhole, Paired
  <2>1. LogTyped /\ OneWriter /\ FileWhole
    BY DEF LogInv
  <2>2. /\ file \in Seq(Piece) /\ buffered \in Seq(Piece)
        /\ Len(file) \in Nat /\ DOMAIN file = 1..Len(file)
    BY <2>1, TextsFinite DEF LogTyped
  <2> DEFINE n == Len(file)
             log == file \o buffered
  <2>3. CASE Len(buffered) = 0
    <3>1. buffered = <<>>
      BY <2>2, <2>3
    <3>2. log = file
      BY <2>2, <3>1, ConcatEmptySeq
    <3> QED  BY <2>1, <3>2 DEF FileWhole
  <2>4. CASE Len(buffered) # 0
    <3>1. /\ mutex \in Threads /\ buffered[1] = <<mutex, "time">>
          /\ Len(buffered) # 1 => Len(buffered) = 2 /\ buffered[2] = <<mutex, "text">>
      <4>1. mutex \in Threads
        BY <2>1, <2>4 DEF LogTyped, OneWriter
      <4>2. l_pc[mutex] \in {"prefix", "text", "flush"}
        BY <2>1, <4>1 DEF OneWriter
      <4> QED  BY <2>1, <2>4, <4>1, <4>2 DEF OneWriter
    <3>2. CASE Len(buffered) = 2 /\ buffered[2] = <<mutex, "text">>
      BY <2>1, <2>2, <3>1, <3>2, LineAppended
    <3>3. CASE Len(buffered) = 1
      <4>1. /\ DOMAIN log = 1..(n + 1) /\ n \in Nat
            /\ \A k \in 1..n : log[k] = file[k]
            /\ log[n + 1] = <<mutex, "time">>
        <5>1. /\ log \in Seq(Piece) /\ Len(log) = n + 1 /\ n \in Nat
              /\ \A k \in 1..(n + 1) : log[k] = IF k <= n THEN file[k] ELSE buffered[k - n]
          BY <2>2, <3>3, ConcatProperties
        <5>2. DOMAIN log = 1..(n + 1)
          BY <5>1, LenProperties
        <5> HIDE DEF n, log
        <5> QED  BY <3>1, <5>1, <5>2
      <4>2. n \in Nat /\ n % 2 = 0 /\ DOMAIN file = 1..n
        BY <2>1, <2>2 DEF FileWhole
      <4> HIDE DEF n, log
      <4>3. (n + 1) % 2 = 1 /\ \A k \in 1..n : k % 2 = 0 => k - 1 \in 1..n
        BY <4>2, EvenAndOdd
      <4>4. \A k \in 1..(n + 1) : k \in 1..n \/ k = n + 1
        BY <4>2
      <4>5. Paired(log)
        BY <2>1, <4>1, <4>2, <4>3, <4>4 DEF FileWhole, Paired
      <4> QED  BY <4>5 DEF log
    <3> QED  BY <3>1, <3>2, <3>3
  <2> QED  BY <2>3, <2>4
<1>2. LogInv => L!LinesWritten
  <2> SUFFICES ASSUME LogInv, NEW t \in Threads, l_pc[t] = "idle"
               PROVE  Cardinality(Texts(t)) = done[t]
    BY DEF L!LinesWritten, L!Cardinality, Cardinality, Texts
  <2>1. Cardinality(Texts(t)) + 0 = done[t] /\ done[t] \in Nat
    BY DEF LogInv, LogTyped, Counted
  <2>2. Cardinality(Texts(t)) \in Nat
    BY TextsFinite DEF LogInv
  <2> QED  BY <2>1, <2>2
<1>3. LogInv => LogFaithful
  BY <1>1, <1>2 DEF LogFaithful, L!LogFaithful
<1> QED  BY <1>3, LogInvariant, EachPart, PTL

-----------------------------------------------------------------------------
(* PathConversion: prefixes and what stands behind them *)

\* A prefix agrees with the sequence as far as it goes.
LEMMA PrefixAgrees ==
  ASSUME NEW W, NEW a \in Seq(W), NEW b \in Seq(W)
  PROVE  P!IsPrefix(a, b) <=> Len(a) <= Len(b) /\ \A k \in 1..Len(a) : a[k] = b[k]
<1> DEFINE n == Len(a)
<1>1. n \in Nat /\ Len(b) \in Nat /\ \A k \in 1..n : a[k] \in W
  BY LenProperties
<1>2. ASSUME n <= Len(b)
      PROVE  SubSeq(a, 1, n) = SubSeq(b, 1, n) <=> \A k \in 1..n : a[k] = b[k]
  <2>1. \A k \in 1..n : b[k] \in W
    BY <1>1, <1>2, LenProperties
  <2> HIDE DEF n
  <2>2. /\ SubSeq(a, 1, n) \in Seq(W) /\ Len(SubSeq(a, 1, n)) = n
        /\ \A k \in 1..n : SubSeq(a, 1, n)[k] = a[k]
    <3>1. /\ SubSeq(a, 1, n) \in Seq(W)
          /\ Len(SubSeq(a, 1, n)) = IF 1 <= n THEN n - 1 + 1 ELSE 0
          /\ \A k \in 1..(n - 1 + 1) : SubSeq(a, 1, n)[k] = a[1 + k - 1]
      BY <1>1, SubSeqProperties
    <3> QED  BY <1>1, <3>1
  <2>3. /\ SubSeq(b, 1, n) \in Seq(W) /\ Len(SubSeq(b, 1, n)) = n
        /\ \A k \in 1..n : SubSeq(b, 1, n)[k] = b[k]
    <3>1. /\ SubSeq(b, 1, n) \in Seq(W)
          /\ Len(SubSeq(b, 1, n)) = IF 1 <= n THEN n - 1 + 1 ELSE 0
          /\ \A k \in 1..(n - 1 + 1) : SubSeq(b, 1, n)[k] = b[1 + k - 1]
      BY <1>1, <2>1, SubSeqProperties
    <3> QED  BY <1>1, <3>1
  <2>4. (\A k \in 1..n : a[k] = b[k]) => SubSeq(a, 1, n) = SubSeq(b, 1, n)
    BY <2>2, <2>3, SeqEqual
  <2> QED  BY <2>2, <2>3, <2>4
<1> QED  BY <1>2 DEF P!IsPrefix

\* A function on 1..n is a sequence of length n.
LEMMA FunctionIsSeq ==
  ASSUME NEW W, NEW n \in Nat, NEW f \in [1..n -> W]
  PROVE  f \in Seq(W) /\ Len(f) = n
<1>1. f \in Seq(W)
  BY SeqDef
<1>2. Len(f) \in Nat /\ 1..Len(f) = 1..n
  BY <1>1, LenProperties
<1> QED  BY <1>1, <1>2

\* Words without their case.
Folded == {Fold(w) : w \in Word}

LEMMA FoldAllProperties ==
  ASSUME NEW a \in Seq(Word)
  PROVE  /\ P!FoldAll(a) \in Seq(Folded) /\ Len(P!FoldAll(a)) = Len(a)
         /\ \A k \in 1..Len(a) : P!FoldAll(a)[k] = Fold(a[k])
<1> DEFINE n == Len(a)
<1>1. n \in Nat /\ DOMAIN a = 1..n /\ \A k \in 1..n : a[k] \in Word
  BY LenProperties
<1>2. P!FoldAll(a) = [k \in 1..n |-> Fold(a[k])]
  BY <1>1 DEF P!FoldAll
<1> HIDE DEF n
<1>3. P!FoldAll(a) \in [1..n -> Folded]
  BY <1>1, <1>2 DEF Folded
<1>4. P!FoldAll(a) \in Seq(Folded) /\ Len(P!FoldAll(a)) = n
  BY <1>1, <1>3, FunctionIsSeq
<1> QED  BY <1>2, <1>4 DEF n

LEMMA MatchesProperties ==
  ASSUME NEW a \in Seq(Word), NEW b \in Seq(Word)
  PROVE  P!Matches(a, b)
           <=> Len(a) <= Len(b) /\ \A k \in 1..Len(a) : Fold(a[k]) = Fold(b[k])
<1>1. Len(a) \in Nat /\ Len(b) \in Nat
  BY LenProperties
<1>2. P!Matches(a, b)
        <=> Len(a) <= Len(b) /\ \A k \in 1..Len(a) : P!FoldAll(a)[k] = P!FoldAll(b)[k]
  BY FoldAllProperties, PrefixAgrees DEF P!Matches
<1> QED  BY <1>1, <1>2, FoldAllProperties

\* The rest is what stands behind a prefix that matches.
LEMMA RestWords ==
  ASSUME NEW a \in Seq(Word), NEW p \in Seq(Word), P!Matches(a, p)
  PROVE  /\ P!Rest(a, p) \in Seq(Word) /\ Len(P!Rest(a, p)) = Len(p) - Len(a)
         /\ \A k \in 1..(Len(p) - Len(a)) : P!Rest(a, p)[k] = p[Len(a) + k]
<1> DEFINE n == Len(a)
           m == Len(p)
           rest == P!Rest(a, p)
<1>1. n \in Nat /\ m \in Nat /\ n <= m /\ \A k \in 1..m : p[k] \in Word
  BY MatchesProperties, LenProperties
<1>2. /\ rest \in Seq(Word) /\ Len(rest) = m - n
      /\ \A k \in 1..(m - n) : rest[k] = p[n + k]
  <2>1. rest = SubSeq(p, n + 1, m)
    BY DEF P!Rest
  <2> HIDE DEF n, m, rest
  <2>2. \A k \in (n + 1)..m : p[k] \in Word
    BY <1>1
  <2>3. /\ rest \in Seq(Word)
        /\ Len(rest) = IF n + 1 <= m THEN m - (n + 1) + 1 ELSE 0
        /\ \A k \in 1..(m - (n + 1) + 1) : rest[k] = p[n + 1 + k - 1]
    BY <1>1, <2>1, <2>2, SubSeqProperties
  <2>4. m - (n + 1) + 1 = m - n /\ \A k \in 1..(m - n) : n + 1 + k - 1 = n + k
    BY <1>1
  <2> QED  BY <1>1, <2>3, <2>4
<1> QED  BY <1>2

\* A name is put together again from a prefix that matches and the rest.
LEMMA RestProperties ==
  ASSUME NEW a \in Seq(Word), NEW p \in Seq(Word), P!Matches(a, p)
  PROVE  /\ P!Rest(a, p) \in Seq(Word)
         /\ P!FoldAll(a \o P!Rest(a, p)) = P!FoldAll(p)
         /\ P!IsSuffix(P!Rest(a, p), p)
<1> DEFINE n == Len(a)
           m == Len(p)
           rest == P!Rest(a, p)
           whole == a \o rest
<1>1. /\ n \in Nat /\ m \in Nat /\ n <= m
      /\ \A k \in 1..n : Fold(a[k]) = Fold(p[k])
      /\ \A k \in 1..m : p[k] \in Word
  BY MatchesProperties, LenProperties
<1>2. /\ rest \in Seq(Word) /\ Len(rest) = m - n
      /\ \A k \in 1..(m - n) : rest[k] = p[n + k]
  BY RestWords
<1>3. /\ whole \in Seq(Word) /\ Len(whole) = n + Len(rest)
      /\ \A k \in 1..(n + Len(rest)) : whole[k] = IF k <= n THEN a[k] ELSE rest[k - n]
  <2>1. rest \in Seq(Word)
    BY <1>2
  <2> HIDE DEF rest
  <2> QED  BY <2>1, ConcatProperties
<1>4. P!FoldAll(whole) = P!FoldAll(p)
  <2> HIDE DEF n, m, rest, whole
  <2>1. Len(whole) = m
    BY <1>1, <1>2, <1>3
  <2>2. \A k \in 1..m : Fold(whole[k]) = Fold(p[k])
    <3> TAKE k \in 1..m
    <3>1. CASE k <= n
      BY <1>1, <1>2, <1>3, <3>1
    <3>2. CASE ~(k <= n)
      <4>1. k - n \in 1..(m - n) /\ n + (k - n) = k
        BY <1>1, <3>2
      <4> QED  BY <1>1, <1>2, <1>3, <3>2, <4>1
    <3> QED  BY <3>1, <3>2
  <2>3. /\ P!FoldAll(whole) \in Seq(Folded) /\ Len(P!FoldAll(whole)) = m
        /\ \A k \in 1..m : P!FoldAll(whole)[k] = Fold(whole[k])
    BY <1>3, <2>1, FoldAllProperties
  <2>4. /\ P!FoldAll(p) \in Seq(Folded) /\ Len(P!FoldAll(p)) = m
        /\ \A k \in 1..m : P!FoldAll(p)[k] = Fold(p[k])
    BY FoldAllProperties DEF m
  <2> QED  BY <2>2, <2>3, <2>4, SeqEqual
<1>5. P!IsSuffix(rest, p)
  <2>1. P!Reverse(rest) = [k \in 1..(m - n) |-> rest[((m - n) - k) + 1]]
    BY <1>2 DEF P!Reverse
  <2>2. P!Reverse(p) = [k \in 1..m |-> p[(m - k) + 1]]
    BY DEF P!Reverse
  <2> HIDE DEF n, m, rest
  <2>3. /\ P!Reverse(rest) \in [1..(m - n) -> Word] /\ P!Reverse(p) \in [1..m -> Word]
    <3>1. \A k \in 1..(m - n) : ((m - n) - k) + 1 \in 1..(m - n)
      BY <1>1
    <3>2. \A k \in 1..(m - n) : n + k \in 1..m
      BY <1>1
    <3>3. \A k \in 1..m : (m - k) + 1 \in 1..m
      BY <1>1
    <3>4. \A k \in 1..(m - n) : rest[k] \in Word
      BY <1>1, <1>2, <3>2
    <3> QED  BY <1>1, <2>1, <2>2, <3>1, <3>3, <3>4
  <2>4. /\ P!Reverse(rest) \in Seq(Word) /\ Len(P!Reverse(rest)) = m - n
        /\ P!Reverse(p) \in Seq(Word) /\ Len(P!Reverse(p)) = m
    <3>1. m - n \in Nat
      BY <1>1
    <3> QED  BY <1>1, <2>3, <3>1, FunctionIsSeq
  <2>5. \A k \in 1..(m - n) : P!Reverse(rest)[k] = P!Reverse(p)[k]
    <3> TAKE k \in 1..(m - n)
    <3>1. /\ ((m - n) - k) + 1 \in 1..(m - n) /\ n + (((m - n) - k) + 1) = (m - k) + 1
          /\ k \in 1..m
      BY <1>1
    <3> QED  BY <1>2, <2>1, <2>2, <3>1
  <2>6. m - n <= m
    BY <1>1
  <2> QED  BY <2>4, <2>5, <2>6, PrefixAgrees DEF P!IsSuffix
<1> QED  BY <1>2, <1>4, <1>5

\* What is a prefix, case and all, matches.
LEMMA PrefixMatches ==
  ASSUME NEW a \in Seq(Word), NEW b \in Seq(Word), P!IsPrefix(a, b)
  PROVE  P!Matches(a, b)
  BY PrefixAgrees, MatchesProperties

-----------------------------------------------------------------------------
(* What a round of ConvertFilePath's loop leaves behind for the next one *)

PathTyped ==
  /\ drives \in [P!Letters -> Devices \cup {None}]
  /\ p_pc \in {"done", "mask", "loop"} /\ i \in Nat \ {0}
  /\ kept \subseteq P!Letters
  /\ p_pc # "done" => path \in Paths /\ target = None

\* The mask has every letter that keeps its device, and those behind the loop do
\* not match.
Passed ==
  p_pc = "loop" => \A l \in kept : /\ drives[l] # None => l \in mask
                                   /\ l < i => ~P!On(l)

\* A letter that was taken is the first, and what follows it the rest of the path.
Chosen ==
  p_pc = "done" /\ path \in Paths =>
    /\ \A l \in kept : P!On(l) => target # None /\ target[1] <= l
    /\ target # None =>
         /\ target[1] \in P!Letters
         /\ target[1] \in kept =>
              P!On(target[1]) /\ target[2] = P!Rest(drives[target[1]], path)

KeyChosen ==
  path \notin Paths =>
    \/ target = None
    \/ path \in Keys /\ target = P!KeyTarget(path)

PathInv == PathTyped /\ Passed /\ Chosen /\ KeyChosen

LEMMA PathInit == P!Init => PathInv
<1> SUFFICES ASSUME P!Init PROVE PathInv
  OBVIOUS
<1>1. /\ drives \in [P!Letters -> Devices \cup {None}]
      /\ p_pc = "done" /\ i = 1 /\ target = None /\ kept = {}
  BY DEF P!Init
<1>2. PathTyped
  BY <1>1 DEF PathTyped
<1>3. Passed
  BY <1>1 DEF Passed
<1>4. Chosen
  BY <1>1 DEF Chosen
<1>5. KeyChosen
  BY <1>1 DEF KeyChosen
<1> QED  BY <1>2, <1>3, <1>4, <1>5 DEF PathInv

LEMMA CallKeeps ==
  PathInv /\ ((\E p \in Paths : P!Call(p)) \/ P!GetLogicalDrives) => PathInv'
<1> SUFFICES ASSUME PathInv, (\E p \in Paths : P!Call(p)) \/ P!GetLogicalDrives
             PROVE  PathInv'
  OBVIOUS
<1>1. CASE \E p \in Paths : P!Call(p)
  BY <1>1 DEF PathInv, PathTyped, Passed, Chosen, KeyChosen, P!Call
<1>2. CASE P!GetLogicalDrives
  <2>1. /\ p_pc = "mask" /\ path \in Paths /\ target = None
        /\ mask' = {l \in P!Letters : drives[l] # None} /\ i' = 1
        /\ p_pc' = IF mask' = {} THEN "done" ELSE "loop"
        /\ UNCHANGED <<drives, path, target, kept>>
        /\ kept \subseteq P!Letters
    BY <1>2 DEF P!GetLogicalDrives, PathInv, PathTyped
  <2>2. \A l \in kept : l \in Nat \ {0}
    BY <2>1, PathAssumption DEF P!Letters
  <2>3. Passed'
    BY <2>1, <2>2 DEF Passed
  <2>4. Chosen'
    BY <2>1 DEF Chosen, P!On
  <2>5. PathTyped' /\ KeyChosen'
    BY <2>1 DEF PathInv, PathTyped, KeyChosen
  <2> QED  BY <2>3, <2>4, <2>5 DEF PathInv
<1> QED  BY <1>1, <1>2

LEMMA SkipDriveKeeps == PathInv /\ P!SkipDrive => PathInv'
<1> SUFFICES ASSUME PathInv, P!SkipDrive PROVE PathInv'
  OBVIOUS
<1>1. /\ p_pc = "loop" /\ ~P!Found(i) /\ i' = i + 1 /\ i \in Nat
      /\ UNCHANGED <<drives, p_pc, path, mask, target, kept>>
  BY DEF P!SkipDrive, PathInv, PathTyped
<1>2. \A l \in kept : l \in Nat
  BY PathAssumption DEF PathInv, PathTyped, P!Letters
<1>3. i \in kept => ~P!On(i)
  BY <1>1 DEF PathInv, Passed, P!Found, P!On
<1>4. Passed'
  <2> SUFFICES ASSUME NEW l \in kept
               PROVE  (drives[l] # None => l \in mask) /\ (l < i + 1 => ~P!On(l))
    BY <1>1 DEF Passed, P!On
  <2>1. l < i + 1 => l < i \/ l = i
    BY <1>1, <1>2
  <2> QED  BY <1>1, <1>3, <2>1 DEF PathInv, Passed
<1> QED  BY <1>1, <1>4 DEF PathInv, PathTyped, Chosen, KeyChosen

\* No letter before the one that is taken matches.
LEMMA TakeDriveKeeps == PathInv /\ P!TakeDrive => PathInv'
<1> SUFFICES ASSUME PathInv, P!TakeDrive PROVE PathInv'
  OBVIOUS
<1> DEFINE rest == P!Rest(drives[i], path)
<1>1. /\ p_pc = "loop" /\ p_pc' = "done" /\ i \in P!Letters /\ P!Found(i)
      /\ target' = <<i, rest>> /\ path \in Paths /\ i \in Nat
      /\ UNCHANGED <<drives, path, mask, i, kept>>
  BY DEF P!TakeDrive, PathInv, PathTyped
<1>2. \A l \in kept : l \in Nat
  BY PathAssumption DEF PathInv, PathTyped, P!Letters
<1>3. rest \in Seq(Word)
  <2>1. drives[i] \in Seq(Word) /\ path \in Seq(Word)
    BY <1>1, PathAssumption DEF PathInv, PathTyped, P!Found, Names
  <2> QED  BY <1>1, <2>1, RestProperties DEF P!Found
<1> HIDE DEF rest
<1>4. <<i, rest>> # None /\ target'[1] = i /\ target'[2] = rest
  BY <1>1, <1>3, PathAssumption
<1>5. \A l \in kept : P!On(l) => i <= l
  BY <1>1, <1>2 DEF PathInv, Passed
<1>6. P!On(i)
  BY <1>1 DEF P!Found, P!On
<1>7. \A l : P!On(l)' <=> P!On(l)
  BY <1>1 DEF P!On
<1>8. Chosen'
  BY <1>1, <1>4, <1>5, <1>6, <1>7 DEF Chosen, rest
<1> QED  BY <1>1, <1>8 DEF PathInv, PathTyped, Passed, KeyChosen

LEMMA NoDriveKeeps == PathInv /\ P!NoDrive => PathInv'
<1> SUFFICES ASSUME PathInv, P!NoDrive PROVE PathInv'
  OBVIOUS
<1>1. /\ p_pc = "loop" /\ p_pc' = "done" /\ i \notin P!Letters /\ i \in Nat
      /\ target = None /\ UNCHANGED <<drives, path, mask, i, target, kept>>
  BY DEF P!NoDrive, PathInv, PathTyped
<1>2. \A l \in kept : ~P!On(l)
  <2>1. \A l \in kept : l \in 1..LastDrive
    BY DEF PathInv, PathTyped, P!Letters
  <2>2. i \in Nat \ {0}
    BY DEF PathInv, PathTyped
  <2>3. \A l \in kept : l < i
    BY <1>1, <2>1, <2>2, PathAssumption DEF P!Letters
  <2> QED  BY <1>1, <2>3 DEF PathInv, Passed
<1>3. Chosen'
  BY <1>1, <1>2 DEF Chosen, P!On
<1> QED  BY <1>1, <1>3 DEF PathInv, PathTyped, Passed, KeyChosen

\* A letter that gets another device is no longer one that has kept its own.
LEMMA RemapKeeps ==
  ASSUME PathInv, NEW l \in P!Letters, NEW d \in Devices \cup {None}, P!Remap(l, d)
  PROVE  PathInv'
<1>1. /\ drives' = [drives EXCEPT ![l] = d] /\ kept' = kept \ {l}
      /\ UNCHANGED <<p_pc, path, mask, i, target>>
  BY DEF P!Remap
<1>2. \A k \in kept' : k \in kept /\ drives'[k] = drives[k]
  BY <1>1 DEF PathInv, PathTyped
<1>3. \A k \in kept' : P!On(k)' <=> P!On(k)
  BY <1>1, <1>2 DEF P!On
<1>4. PathTyped'
  BY <1>1 DEF PathInv, PathTyped
<1>5. Passed'
  BY <1>1, <1>2, <1>3 DEF PathInv, Passed
<1>6. Chosen'
  BY <1>1, <1>2, <1>3 DEF PathInv, Chosen
<1>7. KeyChosen'
  BY <1>1 DEF PathInv, KeyChosen
<1> QED  BY <1>4, <1>5, <1>6, <1>7 DEF PathInv

LEMMA KeyKeeps ==
  ASSUME PathInv, NEW p \in Keys, P!ConvertRegistryPath(p) PROVE PathInv'
<1>1. p \notin Paths
  BY PathAssumption
<1> QED  BY <1>1
  DEF PathInv, PathTyped, Passed, Chosen, KeyChosen, P!ConvertRegistryPath

LEMMA PathInvariant == P!Spec => []PathInv
<1>1. PathInv /\ UNCHANGED P!vars => PathInv'
  BY DEF PathInv, PathTyped, Passed, Chosen, KeyChosen, P!On, P!vars
<1>2. PathInv /\ [P!Next]_P!vars => PathInv'
  BY <1>1, CallKeeps, SkipDriveKeeps, TakeDriveKeeps, NoDriveKeeps, RemapKeeps, KeyKeeps
  DEF P!Next
<1> QED  BY <1>2, PathInit, PTL DEF P!Spec

-----------------------------------------------------------------------------
(* Names lead back to what they name *)

LEMMA FileLeadsBack == PathInv => P!LeadsBack
<1> SUFFICES ASSUME PathInv, P!OfFile, target # None, target[1] \in kept
             PROVE  /\ P!FoldAll(drives[target[1]] \o target[2]) = P!FoldAll(path)
                    /\ P!IsSuffix(target[2], path)
  BY DEF P!LeadsBack
<1>1. /\ target[1] \in P!Letters /\ P!On(target[1]) /\ path \in Paths
      /\ target[2] = P!Rest(drives[target[1]], path)
  BY DEF PathInv, Chosen, P!OfFile
<1>2. drives[target[1]] \in Seq(Word) /\ path \in Seq(Word)
  BY <1>1, PathAssumption DEF PathInv, PathTyped, P!On, Names
<1> QED  BY <1>1, <1>2, RestProperties DEF P!On

\* What the name of a key is made of.
LEMMA KeyParts ==
  ASSUME NEW p \in Keys, P!KeyTarget(p) # None
  PROVE  \E r \in Roots : /\ P!IsPrefix(r.prefix, p)
                          /\ P!KeyTarget(p) = <<r.root, P!Rest(r.prefix, p)>>
<1> DEFINE r == CHOOSE q \in Roots : P!IsPrefix(q.prefix, p)
<1>1. \E q \in Roots : P!IsPrefix(q.prefix, p)
  BY DEF P!KeyTarget
<1>2. r \in Roots /\ P!IsPrefix(r.prefix, p)
  BY <1>1
<1>3. P!KeyTarget(p) = <<r.root, P!Rest(r.prefix, p)>>
  BY <1>1 DEF P!KeyTarget
<1> QED  BY <1>2, <1>3

\* Keys with the same prefix and the same rest are the same.
LEMMA SameRest ==
  ASSUME NEW a \in Seq(Word), NEW p \in Seq(Word), NEW q \in Seq(Word),
         P!IsPrefix(a, p), P!IsPrefix(a, q), P!Rest(a, p) = P!Rest(a, q)
  PROVE  p = q
<1> DEFINE n == Len(a)
<1>1. /\ n \in Nat /\ Len(p) \in Nat /\ Len(q) \in Nat
      /\ n <= Len(p) /\ \A k \in 1..n : a[k] = p[k]
      /\ n <= Len(q) /\ \A k \in 1..n : a[k] = q[k]
  BY PrefixAgrees, LenProperties
<1>2. /\ Len(P!Rest(a, p)) = Len(p) - n
      /\ \A k \in 1..(Len(p) - n) : P!Rest(a, p)[k] = p[n + k]
  BY PrefixMatches, RestWords
<1>3. /\ Len(P!Rest(a, q)) = Len(q) - n
      /\ \A k \in 1..(Len(q) - n) : P!Rest(a, q)[k] = q[n + k]
  BY PrefixMatches, RestWords
<1> HIDE DEF n
<1>4. Len(p) = Len(q)
  BY <1>1, <1>2, <1>3
<1>5. \A k \in 1..Len(p) : p[k] = q[k]
  <2> TAKE k \in 1..Len(p)
  <2>1. CASE k <= n
    BY <1>1, <2>1
  <2>2. CASE ~(k <= n)
    <3>1. k - n \in 1..(Len(p) - n) /\ n + (k - n) = k
      BY <1>1, <2>2
    <3> QED  BY <1>2, <1>3, <1>4, <3>1
  <2> QED  BY <2>1, <2>2
<1> QED  BY <1>4, <1>5, SeqEqual

LEMMA KeysStayApart == PathInv => P!KeysApart
<1> SUFFICES ASSUME PathInv, path \in Keys, target # None, NEW q \in Keys,
                    P!KeyTarget(q) = target
             PROVE  q = path
  BY DEF P!KeysApart
<1>1. path \notin Paths /\ target = P!KeyTarget(path)
  BY PathAssumption DEF PathInv, KeyChosen
<1>2. PICK r \in Roots : /\ P!IsPrefix(r.prefix, path)
                         /\ target = <<r.root, P!Rest(r.prefix, path)>>
  BY <1>1, KeyParts
<1>3. PICK s \in Roots : /\ P!IsPrefix(s.prefix, q)
                         /\ target = <<s.root, P!Rest(s.prefix, q)>>
  BY KeyParts
<1>4. r.root = s.root /\ P!Rest(r.prefix, path) = P!Rest(s.prefix, q)
  BY <1>2, <1>3
<1>5. r = s
  BY <1>4, PathAssumption
<1>6. r.prefix \in Seq(Word) /\ path \in Seq(Word) /\ q \in Seq(Word)
  BY PathAssumption DEF Names
<1> QED  BY <1>2, <1>3, <1>4, <1>5, <1>6, SameRest

\* The letter is that of the path's device, or of one whose name starts it.
LEMMA RightDriveTaken == PathInv => P!RightDrive
<1> SUFFICES ASSUME PathInv, P!OfFile, target # None, target[1] \in kept
             PROVE  \/ P!Owns(target[1])
                    \/ \E e \in Devices :
                         /\ e # drives[target[1]]
                         /\ P!IsPrefix(P!FoldAll(drives[target[1]]), P!FoldAll(e))
                         /\ P!IsPrefix(P!FoldAll(e), P!FoldAll(path))
  BY DEF P!RightDrive
<1> DEFINE d == drives[target[1]]
<1>1. d # None /\ P!Matches(d, path) /\ d \in Devices /\ path \in Paths
  BY DEF PathInv, PathTyped, Chosen, P!OfFile, P!On
<1> HIDE DEF d
<1>2. PICK e \in Devices : P!Matches(Append(e, Separator), path)
  BY <1>1, PathAssumption
<1>3. CASE e = d
  BY <1>1, <1>2, <1>3 DEF P!Owns, P!Matches, d
<1>4. CASE e # d
  <2>1. /\ d \in Seq(Word) /\ e \in Seq(Word) /\ path \in Seq(Word)
        /\ Separator \in Word
    BY <1>1, PathAssumption DEF Names, Word
  <2> DEFINE x == Append(e, Separator)
  <2>2. /\ x \in Seq(Word) /\ Len(x) = Len(e) + 1
        /\ \A k \in 1..Len(e) : x[k] = e[k]
    BY <2>1, AppendProperties
  <2>3. Len(d) \in Nat /\ Len(e) \in Nat /\ Len(path) \in Nat
    BY <2>1, LenProperties
  <2>4. P!Matches(x, path) /\ ~P!Matches(x, d)
    BY <1>1, <1>2, PathAssumption
  <2> HIDE DEF x
  <2>5. Len(x) <= Len(path) /\ \A k \in 1..Len(x) : Fold(x[k]) = Fold(path[k])
    BY <2>1, <2>2, <2>4, MatchesProperties
  <2>6. Len(d) <= Len(path) /\ \A k \in 1..Len(d) : Fold(d[k]) = Fold(path[k])
    BY <1>1, <2>1, MatchesProperties
  \* The longer of the two would be on the other one.
  <2>7. Len(d) <= Len(e)
    <3> SUFFICES ASSUME Len(x) <= Len(d) PROVE FALSE
      BY <2>2, <2>3
    <3>1. \A k \in 1..Len(x) : Fold(x[k]) = Fold(d[k])
      BY <2>2, <2>3, <2>5, <2>6
    <3> QED  BY <2>1, <2>2, <2>4, <3>1, MatchesProperties
  <2>8. Len(e) <= Len(path) /\ \A k \in 1..Len(e) : Fold(e[k]) = Fold(path[k])
    BY <2>2, <2>3, <2>5
  <2>9. P!Matches(e, path)
    BY <2>1, <2>8, MatchesProperties
  <2>10. \A k \in 1..Len(d) : Fold(d[k]) = Fold(e[k])
    BY <2>3, <2>6, <2>7, <2>8
  <2>11. P!Matches(d, e)
    BY <2>1, <2>7, <2>10, MatchesProperties
  <2> QED  BY <1>2, <1>4, <2>9, <2>11 DEF P!Matches, d
<1> QED  BY <1>3, <1>4

\* However drive letters come and go while a path is converted, its letter is
\* no later than the first one that stays mapped to a device whose name starts the
\* path, and the name leads back to the path while its letter stays; two keys never
\* get the same name (ConvertFilePath, ConvertRegistryPath).
THEOREM PathsConvertedRightly == PartsSpec => []ConvertedRightly
<1>1. PathInv => P!FirstDriveTaken
  BY DEF PathInv, Chosen, P!FirstDriveTaken, P!OfFile
<1>2. PathInv => ConvertedRightly
  BY <1>1, FileLeadsBack, RightDriveTaken, KeysStayApart
  DEF ConvertedRightly, P!ConvertedRightly
<1> QED  BY <1>2, PathInvariant, EachPart, PTL
=============================================================================
