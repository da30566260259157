--------------------------- MODULE PathConversion ---------------------------
(***************************************************************************)
(* ConvertFilePath and ConvertRegistryPath (src/src/srv/                   *)
(* install_monitor.cc): the driver's names of files and keys become the    *)
(* names under which the database keeps them.  A file path starts with the *)
(* name of the device it is on, which is replaced by the drive letter that *)
(* is mapped to the device.  Drive letters come and go while the loop over *)
(* them runs.                                                              *)
(*                                                                         *)
(* A path is a sequence of words; words may differ in case only.           *)
(***************************************************************************)
EXTENDS Integers, SequencesExt

CONSTANTS
  LastDrive,  \* letters are 1..LastDrive, 26 in the code
  Devices,    \* the names of devices
  Paths,      \* files as the driver names them
  Keys,       \* registry keys as the driver names them
  Roots,      \* the two registry prefixes, each with what the code puts in its
              \* place: \REGISTRY\USER\ becomes HKEY_CURRENT_USER\, which for the
              \* system is one of the keys below it
  Separator,  \* the backslash
  Fold(_),    \* a word without its case
  None

VARIABLES
  drives,  \* the device each letter is mapped to, or None
  pc,      \* the step of the conversion
  path,    \* its parameter
  mask,    \* drive_mask, the letters in use
  i,       \* the loop counter
  target,  \* target_path: a letter or root and the rest of the path, or None
  kept     \* the letters whose mapping has not changed since the call

vars == <<drives, pc, path, mask, i, target, kept>>

Letters == 1..LastDrive

Init ==
  /\ drives \in [Letters -> Devices \cup {None}]
  /\ pc = "done" /\ path = <<>> /\ mask = {} /\ i = 1 /\ target = None
  /\ kept = {}

-----------------------------------------------------------------------------
(* ConvertFilePath *)

Call(p) ==
  /\ pc = "done" /\ pc' = "mask"
  /\ path' = p /\ target' = None /\ kept' = Letters
  /\ UNCHANGED <<drives, mask, i>>

\* Without any drive the call ends.
GetLogicalDrives ==
  /\ pc = "mask"
  /\ mask' = {l \in Letters : drives[l] # None} /\ i' = 1
  /\ pc' = IF mask' = {} THEN "done" ELSE "loop"
  /\ UNCHANGED <<drives, path, target, kept>>

\* wcsnicmp over the length of the device's name, without its separator.
FoldAll(s) == [k \in DOMAIN s |-> Fold(s[k])]
Matches(device, p)        == IsPrefix(FoldAll(device), FoldAll(p))
BehindSeparator(s, p)     == SubSeq(p, Len(s) + 2, Len(p))
Rest(s, p)                == SubSeq(p, Len(s) + 1, Len(p))

\* One round of the loop.  QueryDosDeviceW fails for a letter that is not in
\* use any more, which is skipped.
Found(l) == l \in mask /\ drives[l] # None /\ Matches(drives[l], path)
SkipDrive ==
  /\ pc = "loop" /\ i \in Letters /\ ~Found(i)
  /\ i' = i + 1
  /\ UNCHANGED <<drives, pc, path, mask, target, kept>>
TakeDrive ==
  /\ pc = "loop" /\ i \in Letters /\ Found(i)
  /\ target' = <<i, Rest(drives[i], path)>>
  /\ pc' = "done"
  /\ UNCHANGED <<drives, path, mask, i, kept>>
NoDrive ==
  /\ pc = "loop" /\ i \notin Letters
  /\ pc' = "done"
  /\ UNCHANGED <<drives, path, mask, i, target, kept>>

\* Volumes are mounted, dismounted and given other letters.
Remap(l, d) ==
  /\ d # drives[l]
  /\ drives' = [drives EXCEPT ![l] = d]
  /\ kept' = kept \ {l}
  /\ UNCHANGED <<pc, path, mask, i, target>>

-----------------------------------------------------------------------------
(* ConvertRegistryPath: the prefixes are compared with their separators and *)
(* with case; a key that has neither is not recorded.                       *)

KeyTarget(p) ==
  IF \E r \in Roots : IsPrefix(r.prefix, p)
  THEN LET r == CHOOSE s \in Roots : IsPrefix(s.prefix, p)
       IN  <<r.root, Rest(r.prefix, p)>>
  ELSE None

ConvertRegistryPath(p) ==
  /\ pc = "done"
  /\ path' = p /\ target' = KeyTarget(p)
  /\ UNCHANGED <<drives, pc, mask, i, kept>>

Next == \/ GetLogicalDrives \/ SkipDrive \/ TakeDrive \/ NoDrive
        \/ \E p \in Paths : Call(p)
        \/ \E p \in Keys : ConvertRegistryPath(p)
        \/ \E l \in Letters, d \in Devices \cup {None} : Remap(l, d)

Spec == Init /\ [][Next]_vars

-----------------------------------------------------------------------------
(* Properties *)

OfFile == pc = "done" /\ path \in Paths
On(l)  == drives[l] # None /\ Matches(drives[l], path)

\* The drive that the path is on, if it stays mapped while the loop runs, is
\* never missed for a drive that vanishes, nor passed by for a later letter: a
\* path gets the same name as long as the mapping stays.
FirstDriveTaken ==
  OfFile => \A l \in kept : On(l) => target # None /\ target[1] <= l

\* A file's name leads back to its path: as long as the letter stays mapped, the
\* device it is mapped to and the rest of the name are the path, up to the case
\* of the device.
LeadsBack ==
  OfFile /\ target # None /\ target[1] \in kept
    => /\ FoldAll(drives[target[1]] \o target[2]) = FoldAll(path)
       /\ IsSuffix(target[2], path)

\* No two keys get the same name in the database.  (It need not be a name that
\* the system knows the key by.)
KeysApart ==
  pc = "done" /\ path \in Keys /\ target # None
    => \A q \in Keys : KeyTarget(q) = target => q = path

\* The device a path is on ends at a separator; the comparison does not look
\* for it, so HarddiskVolume1 is also found in a path on HarddiskVolume10.  The
\* letter is that of the path's device unless another mapped device's name
\* starts the device's name.
Owns(l) == /\ drives[l] # None
           /\ IsPrefix(FoldAll(Append(drives[l], Separator)), FoldAll(path))
RightDrive ==
  OfFile /\ target # None /\ target[1] \in kept
    => \/ Owns(target[1])
       \/ \E d \in Devices : /\ d # drives[target[1]]
                             /\ IsPrefix(FoldAll(drives[target[1]]), FoldAll(d))
                             /\ IsPrefix(FoldAll(d), FoldAll(path))

\* While letters keep their devices a file has one name, which leads back to it;
\* and every key has a name of its own.
ConvertedRightly == FirstDriveTaken /\ LeadsBack /\ RightDrive /\ KeysApart
=============================================================================
