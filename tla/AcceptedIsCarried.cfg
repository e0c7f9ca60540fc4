SPECIFICATION Spec
CONSTANTS
  Libraries = {"node", "bridge", "intruder", "remote", "late", "longA", "longB"}
  NameOf <- MCNameOf
  SchemaOf <- MCSchemaOf
  LongNames = {"acme.thermostats.1.a", "acme.thermostats.1.b"}
  MaxFormats = 2
  MaxFrameBits = 1
  Capacity = 1
  MaxSent = 2
INVARIANT AcceptedIsCarried
