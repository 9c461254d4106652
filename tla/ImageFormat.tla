----------------------------- MODULE ImageFormat -----------------------------
(***************************************************************************)
(* The structure checks of image_backend.py: PNG chunks, JPEG markers and  *)
(* WebP chunks, read one by one until the image is accepted or refused.    *)
(* What is inside a piece (lengths, checksums, bit depths, pixels) only    *)
(* makes it usable or broken.                                              *)
(***************************************************************************)
EXTENDS Integers, Sequences, FiniteSets

CONSTANT MaxPieces   \* bound: pieces of a file

ASSUME FormatAssumption == MaxPieces \in Nat \ {0}

VARIABLES
  mime,         \* by the first bytes: png, jpeg or webp
  pieces,       \* the file so far
  flags,        \* the saw_... variables
  size,         \* of the PNG's palette colours or the WebP's canvas; none at first
  verdict       \* reading, accepted or refused
parser == <<mime, pieces, flags, size, verdict>>

\* A piece has a kind, and a value: the colour type of an IHDR, the canvas of a WebP
\* piece, 1 for an IEND that is empty and the last bytes of the file.
Piece(sorts, values) == [kind : sorts, value : values]

PngPieces ==
  Piece({"IHDR"}, {"grey", "rgb", "palette"})
    \cup Piece({"PLTE", "IDAT", "critical", "ancillary", "broken", "IEND", "IEND_more"}, {"-"})
JpegPieces ==
  Piece({"SOF", "SOS", "segment", "RST", "TEM", "SOI", "entropy", "broken", "EOI", "EOI_more"}, {"-"})
WebpPieces ==
  Piece({"VP8", "VP8X"}, {"small", "large"})
    \cup Piece({"ANIM", "ICCP", "other", "broken", "end"}, {"-"})

FormatInit ==
  /\ mime \in {"png", "jpeg", "webp"} /\ pieces = <<>> /\ flags = {} /\ size = "none"
  /\ verdict = "reading"

\* One turn of the loop: the flags and the size it leaves, or an end.
Reads(p) ==
  /\ verdict = "reading" /\ Len(pieces) < MaxPieces
  /\ pieces' = Append(pieces, p) /\ UNCHANGED mime
Continues(newFlags, newSize) == flags' = newFlags /\ size' = newSize /\ UNCHANGED verdict
Stops(v) == verdict' = v /\ UNCHANGED <<flags, size>>
Decides(accepts) == Stops(IF accepts THEN "accepted" ELSE "refused")

\* The loop has raised: what the file holds after the refused piece is not read.
Closing == {"IEND", "EOI", "end"}
Unread(p) ==
  /\ verdict = "refused" /\ Len(pieces) < MaxPieces /\ pieces[Len(pieces)].kind \notin Closing
  /\ pieces' = Append(pieces, p) /\ UNCHANGED <<mime, flags, size, verdict>>

-----------------------------------------------------------------------------
(* _validate_png.                                                          *)

PngHeader(p) ==
  /\ Reads(p) /\ mime = "png" /\ "ihdr" \notin flags
  /\ IF p.kind = "IHDR" THEN Continues({"ihdr"}, p.value) ELSE Stops("refused")

\* saw_idat and anything but IEND: the image data has ended.
NeverEnds(p) == flags                                          \* faulty variant
DataEnds(p) == IF "idat" \in flags THEN flags \cup {"idat_ended"} ELSE flags

PngPiece(p) ==
  /\ Reads(p) /\ mime = "png" /\ "ihdr" \in flags
  /\ CASE p.kind \in {"IHDR", "broken", "critical"} -> Stops("refused")
       [] p.kind = "PLTE" ->
            IF flags \cap {"plte", "idat"} # {} \/ size = "grey" THEN Stops("refused")
              ELSE Continues(flags \cup {"plte"}, size)
       [] p.kind = "IDAT" ->
            IF "idat_ended" \in flags \/ (size = "palette" /\ "plte" \notin flags) THEN Stops("refused")
              ELSE Continues(flags \cup {"idat"}, size)
       [] p.kind = "ancillary" -> Continues(DataEnds(p), size)
       [] p.kind \in {"IEND", "IEND_more"} -> Decides(p.kind = "IEND" /\ "idat" \in flags)

-----------------------------------------------------------------------------
(* _validate_jpeg: after a start of scan its entropy-coded data, stuffed   *)
(* bytes and restart markers are skipped up to the next marker. Restart     *)
(* markers are passed over elsewhere as well, and so is TEM.                *)

JpegPiece(p) ==
  /\ Reads(p) /\ mime = "jpeg"
  /\ CASE p.kind \in {"SOI", "broken"} -> Stops("refused")
       [] p.kind = "entropy" -> IF "in_scan" \in flags THEN Continues(flags, size) ELSE Stops("refused")
       [] p.kind = "RST" -> Continues(flags, size)
       [] p.kind \in {"segment", "TEM"} -> Continues(flags \ {"in_scan"}, size)
       [] p.kind = "SOF" -> IF "sof" \in flags THEN Stops("refused")
                              ELSE Continues((flags \ {"in_scan"}) \cup {"sof"}, size)
       [] p.kind = "SOS" -> IF "sof" \in flags THEN Continues(flags \cup {"scan", "in_scan"}, size)
                              ELSE Stops("refused")
       [] p.kind \in {"EOI", "EOI_more"} -> Decides(p.kind = "EOI" /\ {"sof", "scan"} \subseteq flags)

-----------------------------------------------------------------------------
(* _validate_webp: still images only, of the size of the canvas. "ICCP" is *)
(* a chunk the image needs (a profile, an alpha plane), "other" metadata.  *)

WebpPiece(p) ==
  /\ Reads(p) /\ mime = "webp"
  /\ CASE p.kind \in {"ANIM", "broken"} -> Stops("refused")
       [] p.kind = "VP8X" -> IF flags # {} THEN Stops("refused")
                               ELSE Continues({"extended"}, p.value)
       [] p.kind = "VP8" ->
            IF "image" \in flags \/ size \notin {"none", p.value} THEN Stops("refused")
              ELSE Continues(flags \cup {"image"}, size)
       [] p.kind \in {"ICCP", "other"} -> Continues(flags, size)
       [] p.kind = "end" -> Decides("image" \in flags)

PieceOf(m) == CASE m = "png" -> PngPieces [] m = "jpeg" -> JpegPieces [] m = "webp" -> WebpPieces

FormatNext ==
  \/ \E p \in PngPieces : PngHeader(p) \/ PngPiece(p)
  \/ \E p \in JpegPieces : JpegPiece(p)
  \/ \E p \in WebpPieces : WebpPiece(p)
  \/ \E p \in PieceOf(mime) : Unread(p)

FormatSpec == FormatInit /\ [][FormatNext]_parser

-----------------------------------------------------------------------------
(* The formats, as their standards and this program's limits have them.    *)

Is(i, kind) == pieces[i].kind = kind
Places(kind) == {i \in DOMAIN pieces : Is(i, kind)}
Free(kinds) == \A i \in DOMAIN pieces : pieces[i].kind \notin kinds
Final(kind) == Places(kind) = {Len(pieces)}
Before(a, b) == \A i \in Places(a), j \in Places(b) : i < j

ValidPng ==
  /\ Final("IEND") /\ Free({"IEND_more", "critical", "broken"})
  /\ Places("IHDR") = {1}
  /\ Cardinality(Places("PLTE")) <= 1 /\ Before("PLTE", "IDAT")
  /\ pieces[1].value = "grey" => Places("PLTE") = {}
  /\ pieces[1].value = "palette" => Places("PLTE") # {}
  /\ Places("IDAT") # {}
  /\ \A i, j \in Places("IDAT") : \A k \in i..j : Is(k, "IDAT")

\* One frame and its scans; entropy-coded data follow a start of scan, with nothing but
\* themselves and restart markers in between.
JpegFrame ==
  /\ Final("EOI") /\ Free({"EOI_more", "SOI", "broken"})
  /\ Cardinality(Places("SOF")) = 1 /\ Places("SOS") # {} /\ Before("SOF", "SOS")
  /\ \A j \in Places("entropy") :
       \E i \in Places("SOS") : i < j /\ \A k \in (i + 1)..j : Is(k, "entropy") \/ Is(k, "RST")

\* What the standard forbids besides: a scan without data, a restart marker that does not
\* divide the data of a scan, a marker kept for encoders.
EmptyScan == \E i \in Places("SOS") : i + 1 \notin Places("entropy")
StrayMarker ==
  Places("TEM") # {} \/ \E i \in Places("RST") : ~({i - 1, i + 1} \subseteq Places("entropy"))

ValidJpeg == JpegFrame /\ ~EmptyScan /\ ~StrayMarker

\* One still image, of the size of the canvas declared before it.
WebpFrame ==
  /\ Final("end") /\ Free({"ANIM", "broken"})
  /\ Cardinality(Places("VP8")) = 1 /\ Cardinality(Places("VP8X")) <= 1
  /\ \A i \in Places("VP8X"), j \in Places("VP8") : i < j /\ pieces[i].value = pieces[j].value

\* What the standard forbids besides: a canvas that is not the first chunk, a simple file
\* with more than its image, a needed chunk after the image it is for.
LateHeader == ~(Places("VP8X") \subseteq {1})
SimpleWithMore == Places("VP8X") = {} /\ Places("ICCP") \cup Places("other") # {}
LateProfile == ~Before("ICCP", "VP8")

ValidWebp == WebpFrame /\ ~LateHeader /\ ~SimpleWithMore /\ ~LateProfile

Valid == CASE mime = "png" -> ValidPng [] mime = "jpeg" -> ValidJpeg [] mime = "webp" -> ValidWebp

\* The deviations the loops let through, in a file that is otherwise in order.
Tolerated ==
  \/ mime = "jpeg" /\ JpegFrame /\ (EmptyScan \/ StrayMarker)
  \/ mime = "webp" /\ WebpFrame /\ (LateHeader \/ SimpleWithMore \/ LateProfile)

(* sniff_image_mime refuses no image that keeps to its standard for the    *)
(* order of its pieces, and what it accepts keeps to the standard, with    *)
(* nothing after its end, or departs from it only by the deviations named  *)
(* above: no sequence of flags lets any other wrong file through or keeps  *)
(* a right one out, whatever follows the piece it stops at.                *)
StructureSound ==
  /\ Valid => verdict = "accepted"
  /\ verdict = "accepted" => Valid \/ Tolerated

=============================================================================
