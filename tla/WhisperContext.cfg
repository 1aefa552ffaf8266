\* Two callers that may call again and two closers; pieces of audio of 0..2 segments, read one
\* by one; inference as whisper.cpp does it without detect_language.
CONSTANTS
    Callers = {c1, c2}
    Closers = {close, finalizer}
    MaxSegments = 2
    DetectLanguage = FALSE
    NoAudio = NoAudio
SPECIFICATION WCSpec
INVARIANTS AnswerIsOwn NoUseAfterFree
PROPERTIES EveryCallSettles 
