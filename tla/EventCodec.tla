----------------------------- MODULE EventCodec -----------------------------
(***************************************************************************)
(* How an event travels: BuildInstallInfo (src/src/drv/install_monitor.cc) *)
(* lays an InstallInfo (src/include/shared.h) out, the driver copies it    *)
(* into a slot of the service, and DoSingleResponse (src/src/srv/ioctl.cc) *)
(* reads it back.  A slot is used again and again and never cleared.       *)
(* Sizes are in bytes, buffers are counted in 16-bit words.                *)
(***************************************************************************)
EXTENDS Integers, Sequences

CONSTANTS
  Char, NUL,    \* the words names are made of, and the one that ends a C string
  MaxName,      \* names come in a UNICODE_STRING, whose Length is 16 bits wide
  LenMod,       \* image_len and path_len are cut to a UINT16
  kMaxMsgSize,  \* the size of a slot's buffer
  None

VARIABLES
  image_len, path_len, type,  \* the head of the InstallInfo in the slot
  buffer,                     \* the words behind it
  sent                        \* the event the slot was answered with last

head == <<image_len, path_len, type>>
vars == <<head, buffer, sent>>

Names == UNION {[1..n -> Char] : n \in 0..MaxName}
Event == [type : {0, 1}, image : Names, path : Names]

\* sizeof(InstallInfo) counts one byte of the names.
HeadSize == 6
MaxWords == (kMaxMsgSize - 5) \div 2

Init ==
  /\ image_len = 0 /\ path_len = 0 /\ type = 0
  /\ buffer = [k \in 1..MaxWords |-> NUL] /\ sent = None

-----------------------------------------------------------------------------
(* C strings *)

\* wcsncpy copies up to the first NUL and fills the rest with it.
Ended(s, k) == \E j \in 1..k : s[j] = NUL
Wcsncpy(s)  == [k \in DOMAIN s |-> IF Ended(s, k) THEN NUL ELSE s[k]]

\* WcharToUtf8 reads up to the first NUL: this is what reaches the database.
Text(s) == [k \in {j \in DOMAIN s : ~Ended(s, j)} |-> s[k]]

-----------------------------------------------------------------------------
(* The driver *)

\* BuildInstallInfo sizes the message by the lengths before they are cut.
Size(e) == HeadSize + 2 * (Len(e.image) + Len(e.path))
Cut(len) == len % LenMod

\* The words of the message: one name behind the other.
PathBehindText(e, k) ==
  LET n == Len(Text(e.image))
  IN  CASE k <= n -> e.image[k]
        [] k - n \in DOMAIN e.path -> Wcsncpy(e.path)[k - n]
        [] OTHER -> NUL
Words(e, k) ==
  IF k <= Len(e.image) THEN Wcsncpy(e.image)[k] ELSE Wcsncpy(e.path)[k - Len(e.image)]

\* CompleteIrpWithPendingData: the comparison with the slot's size.
Fits(e)     == Size(e) <= kMaxMsgSize

\* The copy into the slot: what is behind the message stays.
Deliver(e) ==
  /\ Fits(e)
  /\ image_len' = Cut(Len(e.image)) /\ path_len' = Cut(Len(e.path))
  /\ type' = e.type
  /\ buffer' = [k \in 1..MaxWords |->
                  IF k <= Len(e.image) + Len(e.path) THEN Words(e, k) ELSE buffer[k]]
  /\ sent' = e

Next == \E e \in Event : Deliver(e)
Spec == Init /\ [][Next]_vars

-----------------------------------------------------------------------------
(* The service: DoSingleResponse *)

ReadImage == [k \in 1..image_len |-> buffer[k]]
ReadPath  == [k \in 1..path_len |-> buffer[image_len + k]]

-----------------------------------------------------------------------------
(* Properties *)

TypeOK ==
  /\ image_len \in 0..MaxName /\ path_len \in 0..MaxName /\ type \in {0, 1}
  /\ buffer \in [1..MaxWords -> Char] /\ sent \in Event \cup {None}

\* The lengths in a slot never lead the service out of its buffer: what was
\* cut to 16 bits is what the message was sized and filled by.
InsideBuffer == image_len + path_len <= MaxWords

\* The service reads the event that the driver wrote, whatever longer event was
\* in the slot before, as far as the database can tell: names with a NUL inside,
\* which keys may have, are the same up to there.
EventSurvives ==
  sent # None => /\ type = sent.type
                 /\ Text(ReadImage) = Text(sent.image)
                 /\ Text(ReadPath) = Text(sent.path)
=============================================================================
