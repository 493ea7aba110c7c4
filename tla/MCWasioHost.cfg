CONSTANTS
  IntWidth = 2
  Capacity = 4
  HostFds = {h1, h2, h3, h4, h5}
SPECIFICATION Spec
CONSTRAINT FewArmed
SYMMETRY HostFdSymmetry
INVARIANTS
  TableConsistent
  NoStaleEvents
PROPERTIES
  ImplementsDescriptorTable
