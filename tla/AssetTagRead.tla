---------------------------- MODULE AssetTagRead ----------------------------
(***************************************************************************)
(* The `goipmi dcmi asset_tag` command (cmd/goipmi/commands/dcmi.go,       *)
(* NewCmdDCMIAssetTag): the offset-paginated read of spec 4.5.3.  The      *)
(* command calls Client.GetDCMIAssetTag(offset) until the reported         *)
(* TotalLength is reached, appending each chunk; offset is a Go uint8 and  *)
(* the end test is evaluated in uint8.  A failing call goes to CheckErr,   *)
(* which reports the error and exits.                                      *)
(*                                                                         *)
(* GetDCMIAssetTag and the controller lie outside src/ and are modelled    *)
(* from the DCMI Get Asset Tag command: the controller holds a tag of      *)
(* TagLen octets and answers a read at `offset` with the next octets of    *)
(* the tag and the tag's total length.  How many octets it returns is the  *)
(* controller's choice from ChunkLens, never more than remain.  An octet   *)
(* of the tag is represented by its 1-based position, so a chunk is a run  *)
(* of positions and a gap, repeat or reorder shows in the result.          *)
(***************************************************************************)
EXTENDS Naturals, Sequences

CONSTANTS
  TagLens,     \* the lengths the controller's asset tag may have
  ChunkLens    \* how many octets the controller may return per reply

ASSUME TagLens \subseteq 0..255 /\ ChunkLens \subseteq 0..16

ByteMod == 256   \* width of the uint8 offset

\* A read that has made MaxCalls exchanges has run away: the shortest
\* non-empty chunk the controllers of the model return is 5 octets, so a
\* 255-octet tag takes at most 52 exchanges.  No step is taken past it,
\* so a runaway read never ends.
MaxCalls == 64

MinOf(a, b) == IF a < b THEN a ELSE b

VARIABLES
  tagLen,      \* the controller's tag length (TotalLength in every reply)
  offset,      \* the command's `var offset uint8`
  assetTag,    \* the command's `var assetTag string`, as octet positions
  status,      \* "loop", "printed" (Printf and return) or "exited"
  calls        \* GetDCMIAssetTag calls made so far

vars == <<tagLen, offset, assetTag, status, calls>>

\* The controller's tag: octet k is k.
Tag == [k \in 1..tagLen |-> k]

\* The reply to a read at off: chunk octets from off and TotalLength.
Reply(off, c) ==
  [AssetTag |-> SubSeq(Tag, off + 1, off + MinOf(c, tagLen - off)),
   TotalLength |-> tagLen]

Init ==
  /\ tagLen \in TagLens
  /\ offset = 0
  /\ assetTag = <<>>
  /\ status = "loop"
  /\ calls = 0

\* The loop body is entered and calls GetDCMIAssetTag(offset).
Calling == status = "loop" /\ calls < MaxCalls /\ calls' = calls + 1

\* Mutant: the `offset +=` line left out; every read starts at 0.
AdvanceNone(resp) == offset

\* `offset += uint8(len(resp.AssetTag))`.
Advance(resp) == (offset + Len(resp.AssetTag)) % ByteMod

\* Mutant: the end test assumes a full 16-octet chunk.
LoopDoneNominal(resp) == resp.TotalLength <= (offset + 16) % ByteMod

\* Mutant: `<` for `<=`; the last octet is followed by one more read.
LoopDoneLT(resp) == resp.TotalLength < (offset + Len(resp.AssetTag)) % ByteMod

\* `resp.TotalLength <= offset+uint8(len(resp.AssetTag))`, in uint8.
LoopDone(resp) == resp.TotalLength <= (offset + Len(resp.AssetTag)) % ByteMod

\* One iteration: GetDCMIAssetTag(offset) succeeds, the chunk is appended,
\* and the loop breaks or offset advances by the chunk length.
ReadChunk ==
  /\ Calling
  /\ \E c \in ChunkLens :
       LET resp == Reply(offset, c)
       IN  /\ assetTag' = assetTag \o resp.AssetTag
           /\ status' = IF LoopDone(resp) THEN "printed" ELSE "loop"
           /\ offset' = IF LoopDone(resp) THEN offset ELSE Advance(resp)
  /\ UNCHANGED tagLen

\* GetDCMIAssetTag returns an error: CheckErr reports it and exits.
ReadFailed ==
  /\ Calling
  /\ status' = "exited"
  /\ UNCHANGED <<tagLen, offset, assetTag>>

Next == ReadChunk \/ ReadFailed

\* The command runs on one goroutine and every call returns, so the loop
\* keeps taking steps; the controller's choice of chunk is not fair.
Spec == Init /\ [][Next]_vars /\ WF_vars(Next)

-----------------------------------------------------------------------------
TypeOK ==
  /\ tagLen \in TagLens
  /\ offset \in 0..(ByteMod - 1)
  /\ assetTag \in Seq(1..255)
  /\ Len(assetTag) <= tagLen
  /\ status \in {"loop", "printed", "exited"}
  /\ calls \in 0..MaxCalls

\* What the command prints is the controller's whole tag, each octet once
\* and in order: chunks read at successive offsets neither overlap nor
\* leave a gap, and the uint8 end test stops exactly at TotalLength.
AssetTagComplete == status = "printed" => assetTag = Tag

\* Spec 4.5.3: the read ends, with the tag or with an error, whatever the
\* controller returns; a zero-length chunk must not make it loop forever.
Terminates == <>(status \in {"printed", "exited"})
=============================================================================
