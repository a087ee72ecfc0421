------------------------------ MODULE Transfer ------------------------------
(***************************************************************************)
(* The stream of one piece of data, up or down: files in a tar, the tar in *)
(* a gzip, that in chunked HTTP over three connections, and its checksum   *)
(* in the trailer that follows.  Upload: the client archives, knitd and    *)
(* knitd_backend relay, the data agent extracts.  Download: the agent      *)
(* archives, the client saves the stream or extracts it.                   *)
(***************************************************************************)
EXTENDS Naturals, Sequences, FiniteSets

CONSTANTS
    Kinds,      \* of transfers: "upload", "save" and "extract", two downloads
    Files,      \* how many files there are
    Cap,        \* pieces in flight on a connection
    Faults      \* what may go wrong, of AllFaults, once each

VARIABLES
    kind,   \* what the transfer is
    walk,   \* the archiver: "on", "over", "closed"
    err,    \* its error, that the estimate of the size shares
    est,    \* the estimate is being made
    sent,   \* pieces that the archiver wrote
    conn,   \* the connections, from the sender to the receiver
    got,    \* pieces that the receiver read
    eof,    \* it read to the end
    result, \* what the receiver came to
    happened

transferVars == <<kind, walk, err, est, sent, conn, got, eof, result, happened>>

AllFaults == {"file", "estimate", "break", "damage"}

TransferAssumption ==
    /\ Kinds \subseteq {"upload", "save", "extract"}
    /\ Files \in Nat /\ Cap \in Nat \ {0} /\ Faults \subseteq AllFaults

Up == kind = "upload"
\* The receiver extracts, rather than saves.
Extracts == kind # "save"

\* The end of the tar, and the end of the gzip with a sum of its own.  In place
\* of either there may be the message that something went wrong.
Piece(n) == [what |-> n, damaged |-> FALSE]
EndOfTar == Piece(Files + 1)
EndOfGzip == Piece(Files + 2)
Message == Piece(0)

Hop == 1..3
NoTrailer == <<>>
Conn == [pipe |-> <<>>, state |-> "open", trailer |-> NoTrailer]

TransferInit ==
    /\ kind \in Kinds
    /\ walk = "on" /\ err = "none" /\ est = TRUE /\ sent = <<>>
    /\ conn = [h \in Hop |-> Conn]
    /\ got = <<>> /\ eof = FALSE /\ result = "none" /\ happened = {}

Fault(f) == f \in Faults \ happened /\ happened' = happened \cup {f}

-----------------------------------------------------------------------------
(* The archiver (GoTar): one goroutine adds up sizes, another writes *)

EstimateOk == est /\ est' = FALSE /\ UNCHANGED <<walk, err, sent, conn, got, eof, result, happened>>

EstimateFails ==
    /\ est /\ Fault("estimate") /\ est' = FALSE /\ err' = "estimate"
    /\ UNCHANGED <<walk, sent, conn, got, eof, result>>

Put(h, pieces) == conn' = [conn EXCEPT ![h].pipe = @ \o pieces]
Room(h) == Len(conn[h].pipe) < Cap

WriteFile ==
    /\ walk = "on" /\ err = "none" /\ Len(sent) < Files /\ conn[1].state = "open" /\ Room(1)
    /\ sent' = Append(sent, Piece(Len(sent) + 1)) /\ Put(1, <<Piece(Len(sent) + 1)>>)
    /\ UNCHANGED <<walk, err, est, got, eof, result, happened>>

\* What the walk comes to takes the place of what the estimate said.
WalkOver ==
    /\ walk = "on" /\ Len(sent) = Files /\ walk' = "over" /\ err' = "none"
    /\ UNCHANGED <<est, sent, conn, got, eof, result, happened>>

FileFails ==
    /\ walk = "on" /\ Len(sent) < Files
    /\ \/ Fault("file") /\ err' = "file"
       \/ err # "none" /\ UNCHANGED <<err, happened>>
       \/ conn[1].state = "broken" /\ err' = "write" /\ UNCHANGED happened
    /\ walk' = "over"
    /\ UNCHANGED <<est, sent, conn, got, eof, result>>

\* The gzip is closed if there was no error; what was not flushed, the end of the
\* tar in it, is lost otherwise.  The client closes the stream anyway, with a sum
\* of what it sent; the agent answers with an error, after what it sent already.
\* Mutant: the gzip is closed anyway.
Closing_Anyway == <<EndOfTar, EndOfGzip>>
Closing == IF err = "none" THEN <<EndOfTar, EndOfGzip>> ELSE IF Up THEN <<>> ELSE <<Message>>

CloseStream ==
    /\ walk = "over" /\ conn[1].state = "open" /\ walk' = "closed"
    /\ sent' = sent \o Closing
    /\ conn' = [conn EXCEPT ![1] =
           [pipe |-> @.pipe \o Closing, state |-> "ended",
            trailer |-> IF Up \/ err = "none" THEN sent' ELSE NoTrailer]]
    /\ UNCHANGED <<err, est, got, eof, result, happened>>

-----------------------------------------------------------------------------
(* Connections and relays.  A sum does not tell of anything but the pieces. *)

Break(h) ==
    /\ conn[h].state = "open" /\ Fault("break")
    /\ conn' = [conn EXCEPT ![h].state = "broken"]
    /\ UNCHANGED <<walk, err, est, sent, got, eof, result>>

Damage(h) ==
    /\ conn[h].pipe # <<>> /\ Fault("damage")
    /\ conn' = [conn EXCEPT ![h].pipe[1].damaged = TRUE]
    /\ UNCHANGED <<walk, err, est, sent, got, eof, result>>

Relay(h) ==
    /\ h + 1 \in Hop /\ conn[h].pipe # <<>> /\ conn[h + 1].state = "open" /\ Room(h + 1)
    /\ conn' = [conn EXCEPT ![h].pipe = SubSeq(@, 2, Len(@)), ![h + 1].pipe = Append(@, conn[h].pipe[1])]
    /\ UNCHANGED <<walk, err, est, sent, got, eof, result, happened>>

\* A trailer has its values only after the body.  CopyRequest and CopyResponse
\* wait for them; the request of Proxy takes what is there at the beginning.
Kept(h) == IF Up /\ h = 1 THEN NoTrailer ELSE conn[h].trailer

\* A request that cannot be read to its end is given up.  A response that cannot
\* be is ended as if it were whole, without a trailer.
AfterBreak == IF Up THEN "broken" ELSE "ended"

RelayEnds(h) ==
    /\ h + 1 \in Hop /\ conn[h + 1].state = "open" /\ conn[h].pipe = <<>>
    /\ \/ conn[h].state = "ended"
          /\ conn' = [conn EXCEPT ![h + 1].state = "ended", ![h + 1].trailer = Kept(h)]
       \/ conn[h].state = "broken" /\ conn' = [conn EXCEPT ![h + 1].state = AfterBreak]
    /\ UNCHANGED <<walk, err, est, sent, got, eof, result, happened>>

\* Once nobody receives, nobody relays.
GiveUp(h) ==
    /\ conn[h].state = "open" /\ (IF h = 3 THEN result # "none" ELSE conn[h + 1].state # "open")
    /\ conn' = [conn EXCEPT ![h].state = "broken"]
    /\ UNCHANGED <<walk, err, est, sent, got, eof, result, happened>>

-----------------------------------------------------------------------------
(* The receiver *)

Ended == \E i \in DOMAIN got : got[i].what = Files + 1
Undamaged(s) == \A i \in DOMAIN s : ~s[i].damaged

\* Reading runs ahead of the tar, as far as buffers go.
Read ==
    /\ result = "none" /\ conn[3].pipe # <<>>
    /\ got' = Append(got, conn[3].pipe[1]) /\ conn' = [conn EXCEPT ![3].pipe = SubSeq(@, 2, Len(@))]
    /\ UNCHANGED <<walk, err, est, sent, eof, result, happened>>

ReadEnd ==
    /\ result = "none" /\ ~eof /\ conn[3].pipe = <<>> /\ conn[3].state = "ended" /\ eof' = TRUE
    /\ UNCHANGED <<walk, err, est, sent, conn, got, result, happened>>

\* The tar or the gzip cannot be read.  Damage may go unnoticed: no more is read
\* after the end of the tar, and the sum of the gzip comes after that.
BadStream ==
    \/ ~Undamaged(got)
    \/ \E i \in DOMAIN got : got[i].what = 0
    \/ conn[3].pipe = <<>> /\ conn[3].state # "open" /\ ~Ended
    \/ ~Up /\ conn[3].state = "broken"

\* There is a trailer, when the end was read.  Mutant: or was there to be read.
Trailer_Early == IF conn[3].state = "ended" THEN conn[3].trailer ELSE NoTrailer
Trailer == IF eof THEN conn[3].trailer ELSE NoTrailer

\* Without a trailer nobody complains: the agent does not, and what the client
\* has to say is lost.
SumUnmatched == Trailer # NoTrailer /\ Trailer # got

\* The agent leaves the rest unread; the client reads it, but not for the sum.
ExtractOk == Ended /\ (Up \/ conn[3].state = "ended")

Extract ==
    /\ result = "none" /\ Extracts
    /\ \/ ExtractOk /\ result' = IF SumUnmatched THEN "unmatched" ELSE "ok"
       \/ BadStream /\ result' = "error"
    /\ UNCHANGED <<walk, err, est, sent, conn, got, eof, happened>>

\* Mutant: the sum is not looked at.
SaveOk_NoSum == eof
SaveOk == eof /\ ~SumUnmatched

Save ==
    /\ result = "none" /\ ~Extracts
    /\ \/ SaveOk /\ result' = "ok"
       \/ eof /\ SumUnmatched /\ result' = "unmatched"
       \/ conn[3].pipe = <<>> /\ conn[3].state = "broken" /\ result' = "error"
    /\ UNCHANGED <<walk, err, est, sent, conn, got, eof, happened>>

Progress ==
    \/ EstimateOk \/ WriteFile \/ WalkOver \/ FileFails \/ CloseStream
    \/ (\E h \in Hop : Relay(h) \/ RelayEnds(h) \/ GiveUp(h))
    \/ Read \/ ReadEnd \/ Extract \/ Save

TransferNext ==
    /\ Progress \/ EstimateFails \/ \E h \in Hop : Break(h) \/ Damage(h)
    /\ UNCHANGED kind

TransferSpec == TransferInit /\ [][TransferNext]_transferVars

-----------------------------------------------------------------------------
(* Properties *)

TransferTypeOK ==
    /\ Len(sent) <= Files + 2 /\ Len(got) <= Len(sent) /\ happened \subseteq Faults
    /\ Len(conn[1].pipe) <= Cap + 2 /\ \A h \in Hop \ {1} : Len(conn[h].pipe) <= Cap

\* What was extracted without an error is all the files there are, in their order:
\* whether a file could not be read, or a connection broke (GoTar, GoUntar,
\* GetData).
ExtractIsWhole == Extracts /\ result \in {"ok", "unmatched"} => \A n \in 1..Files : n \in DOMAIN got /\ got[n].what = n

\* Nobody is told of an error when there is none: sums are of the same bytes,
\* though some are read ahead and some never.
NoFalseAlarm == result \in {"unmatched", "error"} => happened # {}

\* A download that came with a trailer and is said to be good is what was sent.
SavedAsSent == ~Extracts /\ result = "ok" /\ conn[3].trailer # NoTrailer => got = sent

\* What arrives without an error is all that was sent, extracted or saved, and
\* an error is told of only if something went wrong (dataagt, the proxies and
\* the client).
ArrivesAsSent == TransferTypeOK /\ ExtractIsWhole /\ SavedAsSent /\ NoFalseAlarm

\* "Download Data from knitfab and verify checksum."
DownloadVerified == ~Extracts /\ result = "ok" => Trailer = got

\* "Extract Data from knitfab and verify checksum."
ExtractVerified == ~Up /\ Extracts /\ result = "ok" => Undamaged(got)

\* "when it received chunked request, it proxies request and response as they are"
ProxiedAsItIs == \A h \in Hop \ {1} : conn[h].state = "ended" /\ conn[1].state = "ended" =>
    conn[h].trailer = conn[1].trailer
=============================================================================
