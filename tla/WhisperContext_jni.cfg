\* The inference parameters as jni.c sets them.
CONSTANTS
    Callers = {c1, c2}
    Closers = {close}
    MaxSegments = 1
    DetectLanguage = TRUE
    NoAudio = NoAudio
SPECIFICATION WCSpec
INVARIANTS SpeechIsTranscribed
