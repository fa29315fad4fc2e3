CONSTANTS
  N = 3
  P = 2
  Elem <- MCElem
  ModeSize <- ModeSize3
  MN <- MN3
  Row <- Row3
  Owner <- Owner3
  Dense = {0, 1}
  Fresh = Fresh
SPECIFICATION Spec
INVARIANT CopiesReady
PROPERTIES RowPtrAgreed ImplementsMttkrp
