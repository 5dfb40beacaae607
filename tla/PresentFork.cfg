SPECIFICATION Spec
CONSTANTS
  Cams = {0, 1}
  View = 1
  Plane = 5
  Versions = {0, 1, 2}
  SceneSize = 2
INVARIANTS TypeOK OneUserAndFresh NothingTorn SkyKept
PROPERTIES PresentSpec ChangeShown FrameComesRound
