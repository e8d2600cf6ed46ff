SPECIFICATION Spec
CONSTANTS
  Workers = {w1, w2}
  Main = Main
  Nobody = Nobody
  UseSerial = FALSE
  MaxConns = 2
  MaxIds = 1
PROPERTY NextCallRedials
