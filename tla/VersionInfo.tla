----------------------------- MODULE VersionInfo -----------------------------
(***************************************************************************)
(* GetFileFullVersionInfo, QueryVersionInfo and the choice of InsertSoftware*)
(* (src/src/srv/install_manager.cc): what a program's version resource says *)
(* about it, and whether it counts as software.  A resource holds one table *)
(* of texts for each language and code page it was written for.             *)
(***************************************************************************)
EXTENDS Naturals, Sequences, Functions

CONSTANTS
  Zero, Tables,        \* languages with their code pages, Zero is none
  Fallbacks,           \* kFallbacks
  Products, Companies, Versions,
  Office, Microsoft,   \* the product and the company that are told apart
  Empty,               \* the empty string
  None                 \* a text the table does not hold

ASSUME VersionAssumption ==
  /\ Zero \in Tables /\ Fallbacks \in Seq(Tables) /\ Fallbacks # <<>>
  /\ Office \in Products /\ Microsoft \in Companies
  /\ \A S \in {Tables, Products, Companies, Versions} : None \notin S
  /\ Office # Empty

Table == [ProductName : Products \cup {None}, CompanyName : Companies \cup {None},
          ProductVersion : Versions \cup {None}, FileVersion : Versions \cup {None}]

VARIABLES
  texts,        \* the resource's tables; one without a text need not be there
  translation,  \* the table it names as its own, or None
  pc,           \* the step of the call
  lang,         \* the local variables lang and code_page
  info,         \* the Software
  origin,       \* the table each text of info was found in, or None
  accepted      \* whether the software goes on to the database

vars == <<texts, translation, pc, lang, info, origin, accepted>>

Field == {"product", "company", "version"}

Init ==
  /\ texts \in [Tables -> Table] /\ translation \in Tables \cup {None}
  /\ pc = "size" /\ lang = Zero
  /\ info = [f \in Field |-> Empty] /\ origin = [f \in Field |-> None]
  /\ accepted = FALSE

-----------------------------------------------------------------------------
(* GetFileFullVersionInfo *)

\* GetFileVersionInfoSizeW, GetFileVersionInfoW: a file without a resource, or
\* one that cannot be read, is no software.
ReadResource ==
  /\ pc = "size" /\ pc' \in {"done", "translation"}
  /\ UNCHANGED <<texts, translation, lang, info, origin, accepted>>

ReadTranslation ==
  /\ pc = "translation" /\ pc' = "product"
  /\ lang' = IF translation = None THEN lang ELSE translation
  /\ UNCHANGED <<texts, translation, info, origin, accepted>>

\* QueryVersionInfo tries the caller's table and the fallbacks in turn.  The
\* caller's language is left at the table that was tried last.
Tries       == <<lang>> \o Fallbacks
Holding(key) == {k \in DOMAIN Tries : texts[Tries[k]][key] # None}
Found(key)   == Holding(key) # {}
FoundIn(key) ==
  Tries[CHOOSE k \in Holding(key) : \A j \in Holding(key) : k <= j]

KeepLanguage(key) == UNCHANGED lang
LeaveLanguage(key) ==
  lang' = IF Found(key) THEN FoundIn(key) ELSE Tries[Len(Tries)]

Put(field, key) ==
  /\ info' = [info EXCEPT ![field] = texts[FoundIn(key)][key]]
  /\ origin' = [origin EXCEPT ![field] = FoundIn(key)]

QueryVersionInfo(field, key) ==
  /\ LeaveLanguage(key)
  /\ IF Found(key) THEN Put(field, key) ELSE UNCHANGED <<info, origin>>
  /\ UNCHANGED <<texts, translation, accepted>>

FetchProduct ==
  /\ pc = "product" /\ pc' = "company"
  /\ QueryVersionInfo("product", "ProductName")
FetchCompany ==
  /\ pc = "company" /\ pc' = "version"
  /\ QueryVersionInfo("company", "CompanyName")
FetchVersion ==
  /\ pc = "version" /\ pc' = IF Found("ProductVersion") THEN "decide" ELSE "file"
  /\ QueryVersionInfo("version", "ProductVersion")
FetchFileVersion ==
  /\ pc = "file" /\ pc' = "decide"
  /\ QueryVersionInfo("version", "FileVersion")

-----------------------------------------------------------------------------
(* InsertSoftware: of Microsoft's products only Office is software *)

Refuse(i)      == i.company = Microsoft /\ i.product # Office

Decide ==
  /\ pc = "decide" /\ pc' = "done"
  /\ accepted' = ~Refuse(info)
  /\ UNCHANGED <<texts, translation, lang, info, origin>>

Next == \/ ReadResource \/ ReadTranslation \/ FetchProduct \/ FetchCompany
        \/ FetchVersion \/ FetchFileVersion \/ Decide

Spec == Init /\ [][Next]_vars

-----------------------------------------------------------------------------
(* Properties *)

TypeOK ==
  /\ texts \in [Tables -> Table] /\ translation \in Tables \cup {None}
  /\ pc \in {"size", "translation", "product", "company", "version", "file",
            "decide", "done"}
  /\ lang \in Tables /\ accepted \in BOOLEAN
  /\ info \in [product : Products \cup {Empty}, company : Companies \cup {Empty},
               version : Versions \cup {Empty}]
  /\ origin \in [Field -> Tables \cup {None}]

\* Product, company and version are not patched together from several tables:
\* each comes from the table that the one before it was found in, if that table
\* has it.  A program that is found in a fallback is described by it.
OneTable ==
  LET product == origin.product
      company == origin.company
  IN  /\ product # None /\ company # None
           => company = product \/ texts[product].CompanyName = None
      /\ company # None /\ origin.version # None
           => \/ origin.version = company
              \/ texts[company].ProductVersion = None

\* What any of the fallbacks holds is found, wherever the search for the text
\* before it has ended.
NothingOverlooked ==
  pc \in {"decide", "done"} /\ (accepted \/ pc = "decide") =>
    \A t \in Range(Fallbacks) :
      /\ texts[t].ProductName # None => origin.product # None
      /\ texts[t].CompanyName # None => origin.company # None
      /\ texts[t].ProductVersion # None \/ texts[t].FileVersion # None
           => origin.version # None

\* A program is not recorded if the table its product's name comes from says
\* that Microsoft has made it, unless it is Office; nor is a nameless one of
\* which all the fallbacks say so.
MicrosoftRefused ==
  accepted =>
    /\ origin.product # None /\ texts[origin.product].CompanyName = Microsoft
         => info.product = Office
    /\ origin.product = None
         => \E t \in Range(Fallbacks) : texts[t].CompanyName # Microsoft

\* What the database keeps of a program: texts that belong together, none of them
\* overlooked, and nothing of Microsoft's but Office.  A resource with none of the
\* texts is accepted, and all its fields stay empty.
DescribesProgram == OneTable /\ NothingOverlooked /\ MicrosoftRefused
=============================================================================
