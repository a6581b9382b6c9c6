SPECIFICATION Spec
CONSTANT Datagrams <- MCDatagrams
INVARIANT
  PointsInFieldOfView
