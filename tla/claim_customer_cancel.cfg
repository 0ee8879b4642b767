CONSTANTS
  Booking = {b1}
  Handler = {h1, h2}
SPECIFICATION Spec
PROPERTIES
  CustomerNeverCancelsCaptured
