--------------------------- MODULE MCTranscription ---------------------------
\* Instances of Transcription for TLC.
EXTENDS Transcription, TLC

Symmetric == Permutations(Utterances) \cup Permutations(Workers) \cup Permutations(Requests)
=============================================================================
