------------------------------ MODULE HlsBundle ------------------------------
(***************************************************************************)
(* The workspace of one recording: the files FFmpeg writes, attempt after  *)
(* attempt, and HLSRecordingBundle, which judges the playlist, preserves   *)
(* what is unfinished, writes the component manifest, and is published as  *)
(* Evidence.  FFmpeg is killed between any two files, and the process      *)
(* crashes between any two steps of a finalization.                        *)
(*                                                                         *)
(* A playlist is a sequence of its meaningful lines.                       *)
(***************************************************************************)
EXTENDS Integers, Sequences, FiniteSets, SequencesExt

CONSTANTS MaxSegments, MaxCrashes, MaxParks,
  LateFailures \* whether the sink may also fail after it has committed the row

SegmentIndexes == 1..MaxSegments

Line(tag, index) == [tag |-> tag, index |-> index]
Header      == Line("#EXTM3U", 0)
Map         == Line("#EXT-X-MAP", 0)
Inf         == Line("#EXTINF", 0)
Endlist     == Line("#EXT-X-ENDLIST", 0)
Segment(i)  == Line("segment", i)

VARIABLES
  phase,        \* of the workspace: see Phases
  ffmpeg,       \* the child: "none", or what it does next
  initFile,     \* init.mp4: "absent", "empty", "written"
  segment,      \* per index: "absent", "temporary", "written"
  playlist,     \* lines of index.m3u8; <<>> when there is none
  playlistTmp,  \* index.m3u8.tmp exists
  incompleteDir,\* files FFmpeg did not finish, moved to incomplete/
  marker,       \* capture.json
  manifest,     \* state and entrypoint the component manifest names
  finalization, \* what the prepare_finalize in progress has found
  evidence,     \* the published row
  crashes, parks

hlsFiles == <<initFile, segment, playlist, playlistTmp>>
hlsVars  == <<phase, ffmpeg, hlsFiles, incompleteDir, marker, manifest, finalization, evidence,
              crashes, parks>>

Phases == {"capturing", "parked", "preserved", "validated", "prepared", "linked", "published", "down"}

Undecided == [valid |-> FALSE, leftovers |-> FALSE]
NoEvidence == [type |-> "none", playable |-> FALSE]

\* HLSRecordingBundle.create.
Init ==
  /\ phase = "capturing" /\ ffmpeg = "none"
  /\ initFile = "absent" /\ segment = [i \in SegmentIndexes |-> "absent"]
  /\ playlist = <<>> /\ playlistTmp = FALSE /\ incompleteDir = 0
  /\ marker = TRUE /\ manifest = [state |-> "recording", entrypoint |-> FALSE]
  /\ finalization = Undecided /\ evidence = NoEvidence
  /\ crashes = 0 /\ parks = 0

-----------------------------------------------------------------------------
(***************************************************************************)
(* FFmpeg, as its options make it write (-y, append_list, temp_file).      *)
(***************************************************************************)
Present == {i \in SegmentIndexes : segment[i] = "written"}

\* _SEGMENT_INDEX: one more than the largest index of a finished segment file.
NextSegmentIndex == IF Present = {} THEN 1 ELSE Max(Present) + 1

\* init.mp4 is opened for writing, also when an earlier attempt has written it.
StartFFmpeg ==
  /\ phase = "capturing" /\ ffmpeg = "none" /\ NextSegmentIndex \in SegmentIndexes
  /\ ffmpeg' = "init" /\ initFile' = "empty"
  /\ UNCHANGED <<phase, segment, playlist, playlistTmp, incompleteDir, marker, manifest,
                 finalization, evidence, crashes, parks>>

WriteInit ==
  /\ ffmpeg = "init"
  /\ ffmpeg' = "segment" /\ initFile' = "written"
  /\ UNCHANGED <<phase, segment, playlist, playlistTmp, incompleteDir, marker, manifest,
                 finalization, evidence, crashes, parks>>

BeginSegment ==
  /\ ffmpeg = "segment" /\ NextSegmentIndex \in SegmentIndexes
  /\ segment' = [segment EXCEPT ![NextSegmentIndex] = "temporary"]
  /\ ffmpeg' = "rename"
  /\ UNCHANGED <<phase, initFile, playlist, playlistTmp, incompleteDir, marker, manifest,
                 finalization, evidence, crashes, parks>>

FinishSegment ==
  /\ ffmpeg = "rename"
  /\ segment' = [segment EXCEPT ![NextSegmentIndex] = "written"]
  /\ ffmpeg' = "list"
  /\ UNCHANGED <<phase, initFile, playlist, playlistTmp, incompleteDir, marker, manifest,
                 finalization, evidence, crashes, parks>>

BeginPlaylist ==
  /\ ffmpeg = "list"
  /\ playlistTmp' = TRUE /\ ffmpeg' = "commit"
  /\ UNCHANGED <<phase, initFile, segment, playlist, incompleteDir, marker, manifest,
                 finalization, evidence, crashes, parks>>

\* append_list: the next list continues the one that is there, without its end.
Open(lines) == IF Last(lines) = Endlist THEN Front(lines) ELSE lines

Listed == (IF playlist = <<>> THEN <<Header, Map>> ELSE Open(playlist))
          \o <<Inf, Segment(Max(Present))>>

CommitPlaylist ==
  /\ ffmpeg = "commit"
  /\ playlist' = Listed /\ playlistTmp' = FALSE /\ ffmpeg' = "segment"
  /\ UNCHANGED <<phase, initFile, segment, incompleteDir, marker, manifest, finalization, evidence,
                 crashes, parks>>

\* A terminated FFmpeg finishes its segment and ends its playlist.
FFmpegStops ==
  /\ ffmpeg = "segment"
  /\ ffmpeg' = "none"
  /\ playlist' = IF playlist = <<>> THEN playlist ELSE Append(Open(playlist), Endlist)
  /\ UNCHANGED <<phase, initFile, segment, playlistTmp, incompleteDir, marker, manifest,
                 finalization, evidence, crashes, parks>>

\* A killed one leaves what it was writing.
FFmpegDies ==
  /\ ffmpeg # "none"
  /\ ffmpeg' = "none"
  /\ UNCHANGED <<phase, hlsFiles, incompleteDir, marker, manifest, finalization, evidence, crashes, parks>>

-----------------------------------------------------------------------------
(***************************************************************************)
(* The judgement of a playlist.                                            *)
(***************************************************************************)
Resolves(line) ==
  CASE line.tag = "#EXT-X-MAP" -> initFile = "written"
    [] line.tag = "segment"    -> segment[line.index] = "written"
    [] OTHER                   -> TRUE

\* The scan of validate_playlist: a duration waits for its segment, and needs a map.
Scanned(seen, line) ==
  CASE seen.error -> seen
    [] ~seen.error /\ line.tag = "#EXTINF" ->
         [seen EXCEPT !.pending = TRUE, !.error = seen.pending \/ ~seen.map]
    [] ~seen.error /\ line.tag = "#EXT-X-MAP" -> [seen EXCEPT !.map = TRUE]
    [] ~seen.error /\ line.tag = "segment" ->
         [seen EXCEPT !.pending = FALSE, !.segments = @ + 1, !.error = ~seen.pending]
    [] OTHER -> seen

Scan == FoldLeft(Scanned, [pending |-> FALSE, map |-> FALSE, segments |-> 0, error |-> FALSE],
                 IF playlist = <<>> THEN <<>> ELSE Tail(playlist))

FaultyValid == playlist # <<>> /\ Head(playlist) = Header /\ ~Scan.error /\ Scan.segments > 0

Valid ==
  /\ playlist # <<>> /\ Head(playlist) = Header
  /\ ~Scan.error /\ ~Scan.pending /\ Scan.map /\ Scan.segments > 0
  /\ \A k \in DOMAIN playlist : Resolves(playlist[k])

HasEndlist == \E k \in DOMAIN playlist : playlist[k] = Endlist

-----------------------------------------------------------------------------
(***************************************************************************)
(* Parking and finalizing.                                                 *)
(***************************************************************************)
Temporaries == Cardinality({i \in SegmentIndexes : segment[i] = "temporary"})
               + (IF playlistTmp THEN 1 ELSE 0)

PreserveTemporaryComponents ==
  /\ incompleteDir' = incompleteDir + Temporaries
  /\ segment' = [i \in SegmentIndexes |-> IF segment[i] = "temporary" THEN "absent" ELSE segment[i]]
  /\ playlistTmp' = FALSE

\* A lease that expires, a shutdown, or a recovery that may still resume.
Park ==
  /\ phase = "capturing" /\ ffmpeg = "none" /\ parks < MaxParks
  /\ PreserveTemporaryComponents
  /\ phase' = "parked" /\ parks' = parks + 1
  /\ manifest' = [state |-> "interrupted", entrypoint |-> playlist # <<>>]
  /\ UNCHANGED <<ffmpeg, initFile, playlist, marker, finalization, evidence, crashes>>

\* _start_recording continues a recoverable workspace.
Resume ==
  /\ phase = "parked"
  /\ phase' = "capturing"
  /\ UNCHANGED <<ffmpeg, hlsFiles, incompleteDir, marker, manifest, finalization, evidence, crashes,
                 parks>>

\* prepare_finalize, first step.
Preserve ==
  /\ phase \in {"capturing", "parked"} /\ ffmpeg = "none"
  /\ PreserveTemporaryComponents
  /\ finalization' = [valid |-> FALSE, leftovers |-> Temporaries > 0]
  /\ phase' = "preserved"
  /\ UNCHANGED <<ffmpeg, initFile, playlist, marker, manifest, evidence, crashes, parks>>

\* A valid playlist gets its ENDLIST through a temporary file; writing it may
\* fail, and what is left of that file is preserved as well.
ValidateAndEnd ==
  /\ phase = "preserved"
  /\ \/ /\ ~Valid
        /\ finalization' = [finalization EXCEPT !.valid = FALSE]
        /\ UNCHANGED <<playlist, incompleteDir>>
     \/ /\ Valid
        /\ playlist' = IF HasEndlist THEN playlist ELSE Append(playlist, Endlist)
        /\ finalization' = [finalization EXCEPT !.valid = TRUE]
        /\ UNCHANGED incompleteDir
     \/ /\ Valid /\ ~HasEndlist
        /\ incompleteDir' = incompleteDir + 1
        /\ finalization' = [valid |-> FALSE, leftovers |-> TRUE]
        /\ UNCHANGED playlist
  /\ phase' = "validated"
  /\ UNCHANGED <<ffmpeg, initFile, segment, playlistTmp, marker, manifest, evidence, crashes, parks>>

\* The caller passes incomplete when the source failed.
OutputComplete(sourceFailed) ==
  finalization.valid /\ ~sourceFailed /\ ~finalization.leftovers

WriteManifest ==
  /\ phase = "validated"
  /\ \E sourceFailed \in BOOLEAN :
       manifest' = [state |-> IF OutputComplete(sourceFailed) THEN "complete" ELSE "incomplete",
                    entrypoint |-> finalization.valid]
  /\ phase' = "prepared"
  /\ UNCHANGED <<ffmpeg, hlsFiles, incompleteDir, marker, finalization, evidence, crashes, parks>>

\* The sink persists the row under the Evidence id of the workspace, or returns
\* the one that is there.
Row == IF evidence # NoEvidence THEN evidence
       ELSE [type |-> IF manifest.state = "complete" THEN "recording" ELSE "incomplete_recording",
             playable |-> manifest.entrypoint]

Publish ==
  /\ phase = "prepared"
  /\ evidence' = Row
  /\ phase' = "linked"
  /\ UNCHANGED <<ffmpeg, hlsFiles, incompleteDir, marker, manifest, finalization, crashes, parks>>

\* The sink fails and the workspace stays recoverable, whether or not the row is there.
PublishFails ==
  /\ phase = "prepared" /\ parks < MaxParks
  /\ phase' = "parked" /\ parks' = parks + 1
  /\ evidence' \in {evidence} \union (IF LateFailures THEN {Row} ELSE {})
  /\ UNCHANGED <<ffmpeg, hlsFiles, incompleteDir, marker, manifest, finalization, crashes>>

CompletePublication ==
  /\ phase = "linked"
  /\ marker' = FALSE /\ phase' = "published"
  /\ UNCHANGED <<ffmpeg, hlsFiles, incompleteDir, manifest, finalization, evidence, crashes, parks>>

-----------------------------------------------------------------------------
Crash ==
  /\ phase # "down" /\ crashes < MaxCrashes
  /\ phase' = "down" /\ ffmpeg' = "none" /\ crashes' = crashes + 1
  /\ UNCHANGED <<hlsFiles, incompleteDir, marker, manifest, finalization, evidence, parks>>

PublishedAlready == evidence # NoEvidence

\* recover_interrupted_recordings looks for capture.json; a row that exists only
\* lacks complete_publication.  A workspace that is finalized next keeps its
\* temporaries until then, one that may resume has them preserved now.
Recover ==
  /\ phase = "down"
  /\ IF ~marker \/ PublishedAlready
     THEN /\ marker' = FALSE /\ phase' = "published"
          /\ UNCHANGED <<segment, playlistTmp, incompleteDir, manifest>>
     ELSE /\ phase' = "parked"
          /\ \/ /\ PreserveTemporaryComponents
                /\ manifest' = [state |-> "interrupted", entrypoint |-> playlist # <<>>]
             \/ UNCHANGED <<segment, playlistTmp, incompleteDir, manifest>>
          /\ UNCHANGED marker
  /\ UNCHANGED <<ffmpeg, initFile, playlist, finalization, evidence, crashes, parks>>

FFmpegStep == StartFFmpeg \/ WriteInit \/ BeginSegment \/ FinishSegment \/ BeginPlaylist
              \/ CommitPlaylist \/ FFmpegStops \/ FFmpegDies
Finalization == Preserve \/ ValidateAndEnd \/ WriteManifest \/ Publish \/ PublishFails
                \/ CompletePublication

Next == FFmpegStep \/ Finalization \/ Park \/ Resume \/ Crash \/ Recover

Spec == Init /\ [][Next]_hlsVars

-----------------------------------------------------------------------------
\* Where the lines of a kind are.
At(tag) == {k \in DOMAIN playlist : playlist[k].tag = tag}

\* What a player needs, without the scan: an initialization file before the
\* first duration, each segment right after its duration, all of them whole.
Playable ==
  /\ At("#EXT-X-MAP") # {} /\ At("segment") # {}
  /\ \A k \in At("#EXTINF") : k + 1 \in At("segment") /\ \E j \in At("#EXT-X-MAP") : j < k
  /\ \A k \in At("segment") : k - 1 \in At("#EXTINF")
  /\ initFile = "written" /\ \A k \in At("segment") : segment[playlist[k].index] = "written"
  /\ At("#EXT-X-ENDLIST") # {}

\* Evidence whose entrypoint is the playlist stays playable to its end, whatever
\* FFmpeg left behind, wherever a crash fell and however often its workspace was
\* resumed before (prepare_finalize, _recover_interrupted_bundle).
PublishedIsPlayable == evidence.playable => Playable
-----------------------------------------------------------------------------
(***************************************************************************)
(* The inductive invariant behind it, in parts.                            *)
(***************************************************************************)
ManifestStates == {"recording", "interrupted", "complete", "incomplete"}

TypeOK ==
  /\ phase \in Phases
  /\ playlist \in Seq({playlist[k] : k \in DOMAIN playlist})
  /\ finalization \in [valid : BOOLEAN, leftovers : BOOLEAN]
  /\ manifest \in [state : ManifestStates, entrypoint : BOOLEAN]
  /\ evidence \in [type : {"none", "recording", "incomplete_recording"}, playable : BOOLEAN]
  /\ marker \in BOOLEAN

\* What FFmpeg lists: a header, a map, and durations each with its segment, then perhaps the end.
LineAt(lines, k) ==
  \/ lines[k] = Inf /\ k < Len(lines) /\ lines[k + 1].tag = "segment"
  \/ lines[k].tag = "segment" /\ k > 3 /\ lines[k - 1] = Inf
  \/ lines[k] = Endlist /\ k = Len(lines)

Shaped(lines) ==
  /\ Len(lines) >= 4 /\ lines[1] = Header /\ lines[2] = Map
  /\ lines[3] = Inf /\ lines[4].tag = "segment"
  /\ \A k \in 3..Len(lines) : LineAt(lines, k)

Listing == playlist # <<>> => Shaped(playlist)

\* A workspace that is finalized is written by nobody, and has no row yet unless it was published.
PhaseInv ==
  /\ phase # "capturing" => ffmpeg = "none"
  /\ evidence # NoEvidence => phase \in {"linked", "published", "down"}
  /\ ~marker \/ phase \in {"linked", "published"} => evidence # NoEvidence

JudgedInv ==
  /\ phase \in {"validated", "prepared"} /\ finalization.valid => Playable
  /\ phase = "prepared" => manifest.entrypoint = finalization.valid

WorkspaceInv ==
  TypeOK /\ Listing /\ (~LateFailures => PhaseInv /\ JudgedInv /\ PublishedIsPlayable)
=============================================================================
