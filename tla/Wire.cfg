SPECIFICATION WireSpec
CONSTANT Messages <- MCMessages
CONSTANT Blake3 <- MCBlake3
CHECK_DEADLOCK FALSE
 
INVARIANT NoPrefixMisread
INVARIANT FrameProtectsPayload
