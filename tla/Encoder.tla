-------------------------------- MODULE Encoder -------------------------------
(***************************************************************************)
(* The encodes of render_clip: cut, the mux of reframe, and the burn of    *)
(* the subtitles.  Each command is built around the arguments of the       *)
(* encoder that ffmpeg_hwaccel_encoder picks; when it fails with a         *)
(* hardware encoder, _run_encode splices those arguments out by a table of *)
(* lengths and runs it again with libx264.                                 *)
(***************************************************************************)
EXTENDS Integers, Sequences

CONSTANT Hwaccels   \* values of settings.ffmpeg_hwaccel

ASSUME EncoderAssumption == Hwaccels \subseteq {"auto", "none", "nvenc", "vaapi", "qsv"}

Stages    == {"cut", "mux", "burn"}
Hardware  == {"h264_nvenc", "h264_vaapi", "h264_qsv"}
Encoders  == Hardware \cup {"libx264"}

VARIABLES
  hwaccel,   \* settings.ffmpeg_hwaccel
  smi,       \* nvidia_smi_available(), cached for the process' lifetime
  stage,     \* the encode that runs, or ran last
  ffmpeg,    \* where _run_encode stands
  cmd,       \* the command of this stage
  ran        \* encoders tried in this stage (history)

encoderVars == <<hwaccel, smi, stage, ffmpeg, cmd, ran>>

(* _video_encoder_args.                                                    *)
Args(e) ==
  CASE e = "h264_nvenc" -> <<"-c:v", e, "-preset", "p4", "-cq", "crf">>
    [] e = "libx264"    -> <<"-c:v", e, "-preset", "preset", "-crf", "crf">>
    [] OTHER            -> <<"-c:v", e>>

(* What stands before and after them.                                      *)
Quiet   == <<"ffmpeg", "-y", "-loglevel", "error">>
Inputs  == [cut  |-> Quiet \o <<"-ss", "start", "-to", "end", "-i", "src">>,
            mux  |-> Quiet \o <<"-i", "silent", "-i", "cut", "-map", "0:v:0", "-map", "1:a:0?">>,
            burn |-> Quiet \o <<"-i", "framed", "-vf", "subtitles">>]
Outputs == [cut  |-> <<"-c:a", "aac", "-b:a", "160k", "-avoid_negative_ts", "make_zero", "cut">>,
            mux  |-> <<"-c:a", "aac", "-b:a", "160k", "-shortest", "framed">>,
            burn |-> <<"-c:a", "copy", "final">>]

Tokens ==
  Encoders \cup {"-c:v", "-preset", "p4", "preset", "-cq", "-crf", "crf"}
    \cup {"ffmpeg", "-y", "-loglevel", "error", "-ss", "start", "-to", "end", "-i", "src", "silent",
          "cut", "-map", "0:v:0", "1:a:0?", "framed", "-vf", "subtitles"}
    \cup {"-c:a", "aac", "-b:a", "160k", "-avoid_negative_ts", "make_zero", "-shortest", "copy", "final"}

Command(s, e) == Inputs[s] \o Args(e) \o Outputs[s]

EncoderTypeOK ==
  /\ hwaccel \in Hwaccels
  /\ smi \in {"unknown", "yes", "no"}
  /\ stage \in Stages
  /\ ffmpeg \in {"idle", "pick", "run", "fallback", "raised"}
  /\ cmd \in Seq(Tokens)
  /\ ran \in Seq(Encoders)

EncoderInit ==
  /\ hwaccel \in Hwaccels
  /\ smi = "unknown"
  /\ stage = "cut" /\ ffmpeg = "idle" /\ cmd = <<>> /\ ran = <<>>

(* A stage is entered: its command is to be built.                         *)
Encode(s) == stage' = s /\ ffmpeg' = "pick" /\ cmd' = <<>> /\ ran' = <<>>
(* The stage is left, by its end or by an exception.                       *)
LeaveEncode == ffmpeg' = "idle" /\ cmd' = <<>> /\ ran' = <<>> /\ UNCHANGED stage

(* ffmpeg_hwaccel_encoder: nvidia-smi is asked once, the device nodes of   *)
(* the others are taken on trust.                                          *)
Picked(answer) ==
  CASE hwaccel = "vaapi" -> "h264_vaapi"
    [] hwaccel = "qsv"   -> "h264_qsv"
    [] hwaccel \in {"auto", "nvenc"} /\ answer = "yes" -> "h264_nvenc"
    [] OTHER -> "libx264"

Pick ==
  /\ ffmpeg = "pick" /\ ffmpeg' = "run"
  /\ \E answer \in IF smi = "unknown" THEN {"yes", "no"} ELSE {smi} :
       /\ cmd' = Command(stage, Picked(answer))
       /\ smi' = IF hwaccel \in {"auto", "nvenc"} THEN answer ELSE smi
  /\ UNCHANGED <<hwaccel, stage, ran>>

(* cmd.index("-c:v")                                                       *)
Index(c) == CHOOSE i \in DOMAIN c : c[i] = "-c:v" /\ \A j \in 1 .. i - 1 : c[j] # "-c:v"
EncoderOf(c) == c[Index(c) + 1]

WellFormed(c) == \E e \in Encoders : c = Command(stage, e)

(* ffmpeg may exit with 0, which takes a well-formed command.              *)
CanSucceed == ffmpeg \in {"run", "fallback"} /\ WellFormed(cmd)

(* Mutant: the table that knew two tokens for every encoder.               *)
TwoTokens(e) == 2
(* _ENCODER_ARG_SPAN                                                       *)
Span(e) == IF e = "h264_nvenc" THEN 6 ELSE 2

WithSoftware(c) ==
  LET i == Index(c) IN
    SubSeq(c, 1, i - 1) \o Args("libx264")
      \o SubSeq(c, i + Span(EncoderOf(c)), Len(c))

(* Mutant: a timeout is passed on at once.                                 *)
FallBackUnlessTimeout(why) ==
  /\ ffmpeg = "run"
  /\ ran' = Append(ran, EncoderOf(cmd))
  /\ IF EncoderOf(cmd) = "libx264" \/ why = "timeout"
       THEN ffmpeg' = "raised" /\ UNCHANGED cmd
       ELSE ffmpeg' = "fallback" /\ cmd' = WithSoftware(cmd)
  /\ UNCHANGED <<hwaccel, smi, stage>>

(* A nonzero exit, the timeout and an OSError are all FFmpegExecutionError. *)
FallBack(why) ==
  /\ ffmpeg = "run" /\ why \in {"exit", "timeout", "os"}
  /\ ran' = Append(ran, EncoderOf(cmd))
  /\ IF EncoderOf(cmd) = "libx264" THEN ffmpeg' = "raised" /\ UNCHANGED cmd
                                   ELSE ffmpeg' = "fallback" /\ cmd' = WithSoftware(cmd)
  /\ UNCHANGED <<hwaccel, smi, stage>>

FallbackFails ==
  /\ ffmpeg = "fallback" /\ ffmpeg' = "raised"
  /\ ran' = Append(ran, EncoderOf(cmd))
  /\ UNCHANGED <<hwaccel, smi, stage, cmd>>

EncodeStep ==
  \/ Pick \/ FallbackFails
  \/ \E why \in {"exit", "timeout", "os"} : FallBack(why)

-----------------------------------------------------------------------------
(* The spliced command is the command that would have been built for       *)
(* libx264: no flag of the other encoder is left behind, none of the       *)
(* inputs or outputs is lost, for every encoder and every stage.           *)
FallbackIsSoftware == ffmpeg = "fallback" => cmd = Command(stage, "libx264")

(* A clip fails over its encoder only if libx264 failed too, whichever     *)
(* way the hardware encoder fails.                                         *)
HardwareNeverFailsClip == ffmpeg = "raised" => ran[Len(ran)] = "libx264"
=============================================================================
