------------------------------ MODULE ImageGen ------------------------------
(***************************************************************************)
(* One image_gen call after another (tools/assist/image_gen.py,            *)
(* image_backend.py): the request that may be charged, the download, the   *)
(* checks, and the replacement of the file in a workspace that its user    *)
(* edits meanwhile.                                                        *)
(*                                                                         *)
(* What is at the path has a kind (absent, file, image, link or directory) *)
(* and an identity (_stat_identity), the number of the edit or the call.   *)
(***************************************************************************)
EXTENDS Integers

CONSTANTS
  MaxEdits, MaxCalls, MaxCrashes   \* bounds

ASSUME ImageAssumption == MaxEdits \in Nat /\ MaxCalls \in Nat \ {0} /\ MaxCrashes \in Nat

VARIABLES
  format,       \* response_format: b64_json or url
  backend,      \* how files are written: posix (by dir_fd) or path (Windows)
  at,           \* where the call is
  parent,       \* the directory of the file: missing, dir or link
  dest, before, \* the file now, and at the first look
  tmp,          \* the temporary file: none, partial or whole
  ended,        \* how the last call ended: none, raised, error or saved
  attrs,        \* whether its span carries the charge
  billed, answered,         \* history: the service charged it, and its answer was read
  calls, edits, crashes,    \* history: numbers of calls, versions and crashes
  lost, gap     \* history: versions images replaced unseen, versions made in the gap
call == <<at, before, tmp, ended, attrs, billed, answered>>
files == <<parent, dest, lost, gap>>
image == <<format, backend, call, files, calls, edits, crashes>>

Thing(kind, n) == [kind |-> kind, n |-> n]
Absent == Thing("absent", 0)
Odd(thing) == thing.kind \in {"link", "directory"}

ImageInit ==
  /\ format \in {"b64_json", "url"} /\ backend \in {"posix", "path"}
  /\ at = "idle" /\ parent \in {"missing", "dir"} /\ dest = Absent /\ before = Absent
  /\ tmp = "none" /\ ended = "none" /\ attrs = FALSE
  /\ billed = FALSE /\ answered = FALSE /\ calls = 0 /\ edits = 0 /\ crashes = 0
  /\ lost = {} /\ gap = {}

\* A call that raises loses the attributes; every ToolResult of run() after the
\* answer carries them.
OnlyWhenSaved(how) == how = "saved"                            \* faulty variant
WithCharge(how) == how # "raised"

Ends(how) == at' = "idle" /\ ended' = how /\ attrs' = WithCharge(how)
Goes(to) == at' = to /\ UNCHANGED <<ended, attrs>>
Frame == UNCHANGED <<format, backend, calls, edits, crashes>>

-----------------------------------------------------------------------------
(* The request.                                                            *)

\* _resolve_key and _resolve_dest, before anything is asked.
Begin ==
  /\ at = "idle" /\ calls < MaxCalls /\ calls' = calls + 1
  /\ billed' = FALSE /\ answered' = FALSE /\ before' = Absent
  /\ \/ Ends("raised")
     \/ /\ parent # "link" /\ ~Odd(dest)
        /\ at' = "post" /\ ended' = "none" /\ attrs' = FALSE
  /\ UNCHANGED <<format, backend, tmp, files, edits, crashes>>

\* Refused (401, 403, any status but 200) or never sent.
PostRefused ==
  /\ at = "post" /\ Ends("raised")
  /\ UNCHANGED <<before, tmp, billed, answered, files>> /\ Frame

\* The service did its work, but the answer timed out, was cut or is no JSON.
PostLost ==
  /\ at = "post" /\ billed' = TRUE /\ Ends("raised")
  /\ UNCHANGED <<before, tmp, answered, files>> /\ Frame

PostAnswered ==
  /\ at = "post" /\ billed' = TRUE
  /\ Goes("parse")
  /\ UNCHANGED <<before, tmp, answered, files>> /\ Frame

\* A payload or a URL that is refused is a ChargedImageError; urlparse may
\* raise something else.
ParseBad ==
  /\ at = "parse"
  /\ \/ Ends("error")
     \/ format = "url" /\ Ends("raised")
  /\ UNCHANGED <<before, tmp, billed, answered, files>> /\ Frame

ParseGood ==
  /\ at = "parse"
  /\ IF format = "url" THEN Goes("download") /\ UNCHANGED answered
                       ELSE Goes("check") /\ answered' = TRUE
  /\ UNCHANGED <<before, tmp, billed, files>> /\ Frame

Downloaded ==
  /\ at = "download" /\ Goes("check") /\ answered' = TRUE
  /\ UNCHANGED <<before, tmp, billed, files>> /\ Frame

\* The download fails, or run()'s own wait_for, which has counted from the
\* request on with the same limit, ends first.
DownloadFails ==
  /\ at = "download"
  /\ Ends("error") \/ Ends("raised")
  /\ UNCHANGED <<before, tmp, billed, answered, files>> /\ Frame

-----------------------------------------------------------------------------
(* The file.                                                               *)

\* sniff_image_mime, the claimed type, the extension, revised_prompt.
CheckFails ==
  /\ at = "check" /\ Ends("error")
  /\ UNCHANGED <<before, tmp, billed, answered, files>> /\ Frame

\* No link is followed and what is missing is made; from here the directory is held.
Opened ==
  /\ at = "check"
  /\ IF parent = "link" THEN Ends("error") /\ UNCHANGED parent
                        ELSE Goes("look") /\ parent' = "dir"
  /\ UNCHANGED <<before, tmp, billed, answered, dest, lost, gap>> /\ Frame

\* _open_secure_parent: by a descriptor of each component.
OpenByFd == backend = "posix" /\ Opened

\* _lock_windows_parent_chain: by handles that keep others from moving it.
LockChain == backend = "path" /\ Opened

Look ==
  /\ at = "look"
  /\ IF Odd(dest) THEN Ends("error") /\ UNCHANGED before
                     ELSE Goes("write") /\ before' = dest
  /\ UNCHANGED <<tmp, billed, answered, files>> /\ Frame

\* O_EXCL with a fresh name, then os.write until all is written, then fsync.
Write ==
  /\ at = "write" /\ tmp # "whole"
  /\ tmp' = IF tmp = "none" THEN "partial" ELSE "whole"
  /\ UNCHANGED <<at, before, ended, attrs, billed, answered, files>> /\ Frame

WriteFails ==
  /\ at = "write" /\ Goes("clean")
  /\ UNCHANGED <<before, tmp, billed, answered, files>> /\ Frame

\* The second look must see what the first saw.
LooksNoMore == ~Odd(dest)                                 \* faulty variant
SameFile == dest = before

LookAgain ==
  /\ at = "write" /\ tmp = "whole"
  /\ Goes(IF SameFile THEN "replace" ELSE "clean")
  /\ UNCHANGED <<before, tmp, billed, answered, files>> /\ Frame

Replace ==
  /\ at = "replace" /\ dest.kind # "directory"
  /\ dest' = Thing("image", calls) /\ tmp' = "none" /\ Goes("confirm")
  /\ lost' = IF dest \in {Absent, before} THEN lost ELSE lost \cup {dest}
  /\ UNCHANGED <<before, billed, answered, parent, gap>> /\ Frame

ReplaceFails ==
  /\ at = "replace" /\ Goes("clean")
  /\ UNCHANGED <<before, tmp, billed, answered, files>> /\ Frame

\* fsync of the directory; on Windows the file is read back.
Confirm ==
  /\ at = "confirm"
  /\ \/ (backend = "path" => dest = Thing("image", calls)) /\ Ends("saved")
     \/ Ends("error")
  /\ UNCHANGED <<before, tmp, billed, answered, files>> /\ Frame

\* finally: the temporary file is unlinked, if that can be done.
Clean ==
  /\ at = "clean" /\ Ends("error") /\ tmp' = "none"
  /\ UNCHANGED <<before, billed, answered, files>> /\ Frame

-----------------------------------------------------------------------------
(* The user, and the end of the process.                                   *)

InGap(thing) == gap' = IF at = "replace" THEN gap \cup {thing} ELSE gap

\* Saves the file, removes it, or puts a link or a directory in its place.
Edit(kind) ==
  /\ edits < MaxEdits /\ edits' = edits + 1
  /\ dest' = IF kind = "absent" THEN Absent ELSE Thing(kind, edits')
  /\ InGap(dest')
  /\ UNCHANGED <<format, backend, call, parent, lost, calls, crashes>>

\* Or swaps the directory, while nothing holds it.
Relink(to) ==
  /\ at \in {"idle", "post", "parse", "download", "check"}
  /\ edits < MaxEdits /\ edits' = edits + 1 /\ parent # to /\ parent' = to
  /\ UNCHANGED <<format, backend, call, dest, lost, gap, calls, crashes>>

\* A temporary file stays behind, under a name that no later call uses.
CrashImage ==
  /\ at # "idle" /\ crashes < MaxCrashes /\ crashes' = crashes + 1
  /\ Ends("raised") /\ tmp' = "none"
  /\ answered' = FALSE
  /\ UNCHANGED <<format, backend, before, billed, parent, dest, lost, gap, calls, edits>>

ImageNext ==
  \/ Begin \/ PostRefused \/ PostLost \/ PostAnswered \/ ParseBad \/ ParseGood
  \/ Downloaded \/ DownloadFails \/ CheckFails \/ OpenByFd \/ LockChain \/ Look
  \/ Write \/ WriteFails \/ LookAgain \/ Replace \/ ReplaceFails \/ Confirm
  \/ Clean
  \/ (\E kind \in {"file", "absent", "link", "directory"} : Edit(kind))
  \/ (\E to \in {"missing", "dir", "link"} : Relink(to))
  \/ CrashImage

ImageSpec == ImageInit /\ [][ImageNext]_image

-----------------------------------------------------------------------------
(* "From here on the provider has answered and may have charged": whatever *)
(* fails after the image was received, the span of the call carries the    *)
(* charge, unless the process dies; and no span carries one that the       *)
(* service did not make.                                                   *)
ChargeKept == ended # "none" => (answered => attrs) /\ (attrs => billed)

(* An image replaces only the file the call saw when it began to write: a  *)
(* version saved, a link or a directory made since is never replaced, but  *)
(* in the instant between the second look and the replace.                 *)
FileKept == lost \subseteq gap

=============================================================================
