SPECIFICATION Spec
CONSTANTS
  BufferSize = 4
  CharKeys <- MCKeys
  scancode_to_ascii <- MCAscii
  scancode_to_ascii_shifted <- MCAsciiShifted
INVARIANT LineIsTyped
