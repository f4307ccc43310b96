SPECIFICATION RecognitionSpec
CONSTANTS
    MaxAudio = 1
    MaxEvents <- OnePause
PROPERTIES NothingForgotten
CHECK_DEADLOCK FALSE
