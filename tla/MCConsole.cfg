SPECIFICATION ConsoleSpec
CONSTANTS
  VGA_WIDTH = 3
  VGA_HEIGHT = 2
  Glyphs = {"a", ">", " "}
  BufferSize = 5
  CharKeys <- MCKeys
  scancode_to_ascii <- MCAscii
  scancode_to_ascii_shifted <- MCAscii
  Prompt = ">"
  Block = "a"
  Logo <- MCLogo
INVARIANT
  EchoIsLine
PROPERTY
  TerminalSpec
