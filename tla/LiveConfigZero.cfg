SPECIFICATION Spec
CONSTANTS
  noise = noise
  offset = offset
  doppler = doppler
  other = other
  v1 = v1
  v2 = v2
  Zero = Zero
  Bad = Bad
  Unset = Unset
  Broken = Broken
  Param <- MCParam
  Settable <- MCSettable
  Checked <- MCChecked
  Value <- MCValue
  AtFirst <- MCAtFirst
  Contents <- MCContents
  MaxHups = 2
INVARIANTS SettersUpdate
