--------------------------- MODULE MCVoiceStream ----------------------------
(***************************************************************************)
(* Small instances of VoiceStream: answers of up to two tokens and two     *)
(* frames.                                                                 *)
(***************************************************************************)
EXTENDS VoiceStream
=============================================================================
