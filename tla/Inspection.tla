---------------------------- MODULE Inspection ----------------------------
(***************************************************************************)
(* What the scanning stage of the Files worker says of an upload: the      *)
(* checks it passes through, in their order, and the answer of each one,   *)
(* which is "ok", "rejected" (for ever) or "unavailable" (to be retried).  *)
(*                                                                         *)
(* An upload is described by what the checks tell apart:                   *)
(*   format     PNG, PDF or an office document                             *)
(*   container  its bytes are a container of that format within the limits *)
(*   pages      pages the converter finds (an image has one)               *)
(*   encrypted  the document is encrypted                                  *)
(*   converts   it decodes, or the converter, given time and memory, ends   *)
(*              without an error                                           *)
(*   fits       its pages stay within MaxPixels, and what is rebuilt of    *)
(*              them within MaxSize                                        *)
(*   infected   a signature of the scanner matches it                      *)
(* The rest is chance. The sandbox is busy or gone, a converter runs out   *)
(* of time, the scanner's signatures are old or its answer is unclear: all *)
(* of these are told apart from what is wrong with the document. Others    *)
(* are not (see Sound).                                                    *)
(***************************************************************************)
EXTENDS Naturals, Sequences

CONSTANT MaxPages

ASSUME MaxPagesAssumption == MaxPages \in Nat \ {0}

Images == {"PNG", "JPEG"}

\* content.Validate
Validate(u) == IF u.container THEN "ok" ELSE "rejected"

\* run: a program of the sandbox that does not start or runs out of time says nothing of
\* the document. Any other end is taken for the document's, that of a program killed for
\* its memory included.
Run(u, tool) ==
    IF tool = "times_out" THEN "unavailable"
    ELSE IF tool = "done" /\ u.converts THEN "ok" ELSE "rejected"

\* decodeImage: a file that cannot be opened or decoded, and a picture that is too large.
DecodeImage(u, tool) ==
    IF tool # "dies" /\ u.converts /\ u.fits THEN "ok" ELSE "rejected"

\* raster.Header, and the page limit in front of it.
Header(pages) == IF pages \in 1..MaxPages THEN "ok" ELSE "rejected"

FirstFailure(outcomes) ==
    LET failed == {i \in 1..Len(outcomes) : outcomes[i] # "ok"}
    IN  IF failed = {} THEN "ok"
        ELSE outcomes[CHOOSE i \in failed : \A j \in failed : i <= j]

\* convert: an image is decoded, a document becomes a PDF whose pages are drawn.
Convert(u, tool) ==
    IF u.format \in Images THEN FirstFailure(<<DecodeImage(u, tool), Header(1)>>)
    ELSE FirstFailure(<< Run(u, tool),
                         IF u.encrypted THEN "rejected" ELSE "ok",
                         Header(u.pages),
                         IF u.fits THEN "ok" ELSE "rejected" >>)

\* Handler.ServeHTTP of the sandbox, which takes one job in its life. A body it could not
\* copy to its disk in full is answered like one that is not valid.
ServeHTTP(u, busy, copied, tool) ==
    IF busy THEN 503
    ELSE LET said == FirstFailure(<< IF copied THEN "ok" ELSE "rejected",
                                     Validate(u),
                                     Convert(u, tool) >>)
         IN  CASE said = "ok" -> 200
               [] said = "rejected" -> 422
               [] OTHER -> 503

\* raster.Reconstruct reads the drawn pages back, into a boundedWriter of MaxSize. Frames
\* that end too early are rejected, whoever cut them.
Reconstruct(u, cut) ==
    IF cut \/ ~u.fits THEN "rejected" ELSE Header(IF u.format \in Images THEN 1 ELSE u.pages)

\* Client.ready and Client.Clean: wait for an idle sandbox, send the upload, rebuild.
Clean(u, c) ==
    LET status == ServeHTTP(u, c.busy, c.copied, c.tool)
    IN  CASE c.ready /\ status = 200 -> Reconstruct(u, c.cut)
          [] c.ready /\ status = 422 -> "rejected"
          [] OTHER -> "unavailable"

\* The answer of the scanner to what it is sent; a limit it ran into is no verdict.
Reply(infected, clear) ==
    IF ~clear THEN "limit" ELSE IF infected THEN "FOUND" ELSE "OK"

\* clamav Client.fresh: signatures older than two days do not count.
Fresh(signatures) == IF signatures = "recent" THEN "ok" ELSE "unavailable"

\* clamav Client.Scan: what it cannot read in full from the worker's own disk it rejects.
Scanned(signatures, readable, reply) ==
    FirstFailure(<< Fresh(signatures),
                    IF readable THEN "ok" ELSE "rejected",
                    CASE reply = "OK" -> "ok"
                      [] reply = "FOUND" -> "rejected"
                      [] OTHER -> "unavailable" >>)

\* Store.ReadUpload and readClean: an object of another length, digest or encryption key
\* than the row and the configuration name is rejected.
Matching(same) == IF same THEN "ok" ELSE "rejected"

\* Store.PutClean reads the derivative from the worker's disk, stores it, reads it back.
PutClean(readable, same) ==
    FirstFailure(<<IF readable THEN "ok" ELSE "rejected", Matching(same)>>)

\* What may happen to one attempt.
Chance == [ready : BOOLEAN, busy : BOOLEAN, copied : BOOLEAN,
           tool : {"done", "times_out", "dies"}, cut : BOOLEAN,
           signatures : {"recent", "old"}, clear : BOOLEAN,
           readable : BOOLEAN, same : BOOLEAN]

\* None of the failures that the checks take for the document's: the sandbox has copied
\* the upload, its converter was not killed, its answer has come back in full, the worker
\* reads its own disk, and the stores return what was put, under the configured key.
Sound(c) == c.copied /\ c.tool # "dies" /\ ~c.cut /\ c.readable /\ c.same

\* Worker.scan: the source is rebuilt before it is scanned, and the derivative is scanned
\* as well; what matches in the source is not drawn in the derivative.
Verdict(u, c) ==
    FirstFailure(<< Matching(c.same),
                    Clean(u, c),
                    Scanned(c.signatures, c.readable, Reply(u.infected, c.clear)),
                    Scanned(c.signatures, c.readable, Reply(FALSE, c.clear)),
                    PutClean(c.readable, c.same) >>)

Verdicts(u, sound) == {Verdict(u, c) : c \in {x \in Chance : Sound(x) = sound}}

\* An upload every check accepts when nothing fails.
Acceptable(u) ==
    /\ u.container /\ ~u.infected /\ u.converts /\ u.fits
    /\ u.format \in Images \/ (~u.encrypted /\ u.pages \in 1..MaxPages)
=============================================================================
