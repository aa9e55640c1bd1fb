SPECIFICATION EncoderSpec
CONSTANTS
  Half = 4096
  Degrees = 360
  Moves = {1}
  MaxTurn = 1
PROPERTY NoJump
